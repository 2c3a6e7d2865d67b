-------------------------- MODULE TaskStateMachine --------------------------
(***************************************************************************)
(* The transitions of TaskStateMachine.  Every method of the class tests   *)
(* the state, moves it and returns whether it did; here each is a test and *)
(* the state it leads to.  Names are those of enum class TaskState.        *)
(***************************************************************************)

TaskStates ==
  {"kBooting", "kWaitingReady", "kWaitingInstruction", "kParsingInstruction",
   "kNavigatingToRoom", "kVerifyingRoom", "kSearchingObject",
   "kApproachingObject", "kGrasping", "kVerifyingGrasp",
   "kNavigatingToDestination", "kPlacing", "kVerifyingPlacement",
   "kWaitingModeratorResult", "kRecovering", "kFinished"}

\* The methods that only move one state to one other.
Step ==
  [bootCompleted           |-> <<"kBooting", "kWaitingReady">>,
   parsingSucceeded        |-> <<"kParsingInstruction", "kNavigatingToRoom">>,
   parsingFailed           |-> <<"kParsingInstruction", "kRecovering">>,
   roomNavigationSucceeded |-> <<"kNavigatingToRoom", "kVerifyingRoom">>,
   roomVerified            |-> <<"kVerifyingRoom", "kSearchingObject">>,
   objectLocated           |-> <<"kSearchingObject", "kApproachingObject">>,
   approachSucceeded       |-> <<"kApproachingObject", "kGrasping">>,
   graspSucceeded          |-> <<"kGrasping", "kVerifyingGrasp">>,
   graspVerified           |-> <<"kVerifyingGrasp", "kNavigatingToDestination">>,
   destinationReached      |-> <<"kNavigatingToDestination", "kPlacing">>,
   placementSucceeded      |-> <<"kPlacing", "kVerifyingPlacement">>,
   placementVerified       |-> <<"kVerifyingPlacement", "kWaitingModeratorResult">>,
   objectNotFound          |-> <<"kSearchingObject", "kRecovering">>]

Enabled(method, state) == state = Step[method][1]
After(method, state)   == IF Enabled(method, state) THEN Step[method][2] ELSE state

\* acceptReady and acceptInstruction, whose tests look at more than the state.
ReadyAccepted(state, environment) == state = "kWaitingReady" /\ environment

InstructionAccepted(state, corrected) ==
  \/ state = "kWaitingInstruction"
  \/ corrected /\ state \in {"kSearchingObject", "kRecovering"}

GiveUpStates ==
  TaskStates \ {"kBooting", "kWaitingReady", "kWaitingInstruction",
                "kWaitingModeratorResult", "kFinished"}

GaveUp(state) == IF state \in GiveUpStates THEN "kWaitingModeratorResult" ELSE state

\* moderatorSucceeded and moderatorFailed, which also clear the task.
SuccessAccepted(state) == state = "kWaitingModeratorResult"
FailureAccepted(state) == state \notin {"kBooting", "kWaitingReady", "kFinished"}
=============================================================================
