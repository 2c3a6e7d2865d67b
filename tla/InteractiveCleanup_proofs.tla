----------------------- MODULE InteractiveCleanup_proofs -----------------------
(***************************************************************************)
(* What InteractiveCleanup says of one small instance, for any number of   *)
(* tasks, of repeated pointings and of goals at the action server. Every   *)
(* safety property follows from ConversationInv, which says for each phase *)
(* of the task what is under way between the moderator and the robot, and  *)
(* where that leaves the robot.                                            *)
(***************************************************************************)
EXTENDS InteractiveCleanup, SequenceTheorems, TLAPS

FlagsTyped == {started, finished, failed, sent, navFailed, heard} \subseteq BOOLEAN

StateTyped ==
  /\ step \in Steps /\ sub \in 0 .. 3
  /\ window \in Seen
  /\ {pickCmd, cleanCmd, target, dest} \subseteq Pointings \cup {None}
  /\ {pickCue, placeCue} \subseteq Cues \cup {None}
  /\ again \in 0 .. MAX_POINT_AGAIN /\ retries \in 0 .. MAX_GRASP_RETRIES
  /\ reached \in Aims \cup {None}
  /\ nav \in [Slots -> [at : {"free"}] \cup
                       [at : {"sent", "executing", "succeeded", "failed"}, for : Aims]]
  /\ task \in Tasks /\ repeats \in 0 .. MaxRepeats
  /\ phase \in {"waiting", "pointing", "pointed", "grasped", "over"}

LEMMA TypeParts == TypeOK <=> FlagsTyped /\ StateTyped
BY Zenon DEF TypeOK, FlagsTyped, StateTyped

\* The conversation: all of the invariant that is not a matter of types.
Conversation ==
  BetweenTasks \/ MissionOver \/ VerdictDue \/ (InTask /\ ReportsInTask)

\* What is true in every regime of the conversation.
Grounds == FlagsTyped /\ StateTyped /\ ChannelsOK /\ StepHasItsCues

LEMMA InvParts == ConversationInv <=> Grounds /\ Conversation
BY TypeParts DEF ConversationInv, Grounds, Conversation

MoveSteps == {"NavigateToPregrasp", "MoveToDestination"}

-----------------------------------------------------------------------------
(* The passes of runStateMachine keep the types, and a step has what it    *)
(* works on.                                                               *)

LEMMA PassKeepsFlags == ASSUME FlagsTyped, Pass PROVE FlagsTyped'
<1> USE DEF told, cues, counts, navFlags, navVars, moderator, At, Goto, GiveUp
<1> heard' = FALSE
  BY DEF Pass
<1>1. CASE Failure
  BY Zenon, <1>1 DEF Failure, FlagsTyped
<1>2. CASE Initialize
  BY Zenon, <1>2 DEF Initialize, Reset, FlagsTyped
<1>3. CASE Ready
  BY Zenon, <1>3 DEF Ready, FlagsTyped
<1>4. CASE WaitForPick
  BY Zenon, <1>4 DEF WaitForPick, Latched, FlagsTyped
<1>5. CASE WaitForClean
  BY Zenon, <1>5 DEF WaitForClean, Latched, FlagsTyped
<1>6. CASE CommandTimeout
  BY Zenon, <1>6 DEF CommandTimeout, FlagsTyped
<1>7. CASE ResolveLatchedPick
  BY Zenon, <1>7 DEF ResolveLatchedPick, PickResolved, FlagsTyped
<1>8. CASE AlignmentEnds
  BY Zenon, <1>8 DEF AlignmentEnds, FlagsTyped
<1>9. CASE ResolveObservedPick
  BY Zenon, <1>9 DEF ResolveObservedPick, PickResolved, AskToPointAgain, FlagsTyped
<1>10. CASE ResolvePlace
  BY Zenon, <1>10 DEF ResolvePlace, AskToPointAgain, FlagsTyped
<1>11. CASE PlanPregrasp
  BY Zenon, <1>11 DEF PlanPregrasp, FlagsTyped
<1>12. ASSUME NEW s \in MoveSteps, NEW aim \in {"pregrasp", "destination"},
               StartMove(s, aim)
        PROVE  FlagsTyped'
  BY Zenon, <1>12 DEF StartMove, SendNavGoal, MoveSteps, FlagsTyped
<1>13. ASSUME NEW s \in MoveSteps, NEW next \in {"DeployArmForApproach", "ReleaseObject"},
               Arrive(s, next)
        PROVE  FlagsTyped'
  BY Zenon, <1>13 DEF Arrive, MoveSteps, FlagsTyped
<1>14. ASSUME NEW s \in MoveSteps,
               MoveFails(s) \/ MoveTimeout(s)
        PROVE  FlagsTyped'
  BY Zenon, <1>14 DEF MoveFails, MoveTimeout, OutOfTime, MoveSteps, FlagsTyped
<1>15. ASSUME NEW s \in Acting, NEW next \in {"HandCameraApproach", "SendTaskFinished"},
               Timed(s, next)
        PROVE  FlagsTyped'
  BY Zenon, <1>15 DEF Timed, FlagsTyped
<1>16. CASE HandCameraApproach
  BY Zenon, <1>16 DEF HandCameraApproach, Retry, FlagsTyped
<1>17. CASE CloseAndVerify
  BY Zenon, <1>17 DEF CloseAndVerify, Retry, FlagsTyped
<1>18. CASE BackOff
  BY Zenon, <1>18 DEF BackOff, FlagsTyped
<1>19. ASSUME NEW s \in Acting, NEW m \in {"Object_grasped", "Task_finished"},
               NEW next \in {"MoveToDestination", "WaitForResult"},
               Report(s, m, next)
        PROVE  FlagsTyped'
  BY Zenon, <1>19 DEF Report, FlagsTyped
<1>20. CASE WaitForResult
  BY Zenon, <1>20 DEF WaitForResult, FlagsTyped
<1> QED
  BY <1>1, <1>2, <1>3, <1>4, <1>5, <1>6, <1>7, <1>8, <1>9, <1>10, <1>11, <1>12, <1>13, <1>14,
     <1>15, <1>16, <1>17, <1>18, <1>19, <1>20
  DEF Pass, Move, MoveSteps, Acting

LEMMA PassKeepsState == ASSUME StateTyped, StepHasItsCues, Pass PROVE StateTyped'
<1> USE NoneAssumption DEF told, cues, counts, navFlags, navVars, moderator, Steps, Acting, At,
       Goto, GiveUp, StateTyped, StepHasItsCues, MAX_POINT_AGAIN, MAX_GRASP_RETRIES
<1> UNCHANGED moderator
  BY DEF Pass
<1>1. CASE Failure
  BY <1>1 DEF Failure
<1>2. CASE Initialize
  BY <1>2 DEF Initialize, Reset, Seen
<1>3. CASE Ready
  BY <1>3 DEF Ready
<1>4. CASE WaitForPick
  <2>1. pickCue' \in Cues \cup {None} /\ window' \in Seen
    BY <1>4 DEF WaitForPick, Latched, Cues, Seen
  <2> QED
    BY <1>4, <2>1 DEF WaitForPick, Latched
<1>5. CASE WaitForClean
  <2>1. placeCue' \in Cues \cup {None} /\ window' \in Seen
    BY <1>5 DEF WaitForClean, Latched, Cues, Seen
  <2> QED
    BY <1>5, <2>1 DEF WaitForClean, Latched
<1>6. CASE CommandTimeout
  BY <1>6 DEF CommandTimeout
<1>7. CASE ResolveLatchedPick
  BY <1>7 DEF ResolveLatchedPick, PickResolved, Cues
<1>8. CASE AlignmentEnds
  BY <1>8 DEF AlignmentEnds
<1>9. CASE ResolveObservedPick
  BY <1>9 DEF ResolveObservedPick, PickResolved, AskToPointAgain, Cues, Seen
<1>10. CASE ResolvePlace
  BY <1>10 DEF ResolvePlace, AskToPointAgain, Cues, Seen
<1>11. CASE PlanPregrasp
  BY <1>11 DEF PlanPregrasp
<1>12. ASSUME NEW s \in MoveSteps, NEW aim \in {"pregrasp", "destination"},
               StartMove(s, aim)
        PROVE  StateTyped'
  <2>1. nav' \in [Slots -> [at : {"free"}] \cup
                             [at : {"sent", "executing", "succeeded", "failed"}, for : Aims]]
    BY <1>12 DEF StartMove, SendNavGoal, Aims, Pointings, MoveSteps
  <2> QED
    BY <1>12, <2>1 DEF StartMove, SendNavGoal, MoveSteps
<1>13. ASSUME NEW s \in MoveSteps, NEW next \in {"DeployArmForApproach", "ReleaseObject"},
               Arrive(s, next)
        PROVE  StateTyped'
  BY <1>13 DEF Arrive, MoveSteps
<1>14. ASSUME NEW s \in MoveSteps,
               MoveFails(s) \/ MoveTimeout(s)
        PROVE  StateTyped'
  BY <1>14 DEF MoveFails, MoveTimeout, OutOfTime, MoveSteps
<1>15. ASSUME NEW s \in Acting, NEW next \in {"HandCameraApproach", "SendTaskFinished"},
               Timed(s, next)
        PROVE  StateTyped'
  BY <1>15 DEF Timed
<1>16. CASE HandCameraApproach
  BY <1>16 DEF HandCameraApproach, Retry
<1>17. CASE CloseAndVerify
  BY <1>17 DEF CloseAndVerify, Retry
<1>18. CASE BackOff
  BY <1>18 DEF BackOff
<1>19. ASSUME NEW s \in Acting, NEW m \in {"Object_grasped", "Task_finished"},
               NEW next \in {"MoveToDestination", "WaitForResult"},
               Report(s, m, next)
        PROVE  StateTyped'
  BY <1>19 DEF Report
<1>20. CASE WaitForResult
  BY <1>20 DEF WaitForResult
<1> QED
  BY <1>1, <1>2, <1>3, <1>4, <1>5, <1>6, <1>7, <1>8, <1>9, <1>10, <1>11, <1>12, <1>13, <1>14,
     <1>15, <1>16, <1>17, <1>18, <1>19, <1>20
  DEF Pass, Move, MoveSteps, Acting

LEMMA PassKeepsCues == ASSUME StateTyped, StepHasItsCues, Pass PROVE StepHasItsCues'
<1> USE DEF told, cues, counts, navFlags, navVars, moderator, Acting, At, Goto, GiveUp,
   StepHasItsCues
<1>1. /\ pickCue # None => pickCue.at # None
      /\ placeCue # None => placeCue.at # None
  BY NoneAssumption DEF StateTyped, Cues
<1>2. CASE Failure
  BY <1>1, <1>2 DEF Failure
<1>3. CASE Initialize
  BY <1>1, <1>3 DEF Initialize, Reset
<1>4. CASE Ready
  BY <1>1, <1>4 DEF Ready
<1>5. CASE WaitForPick
  <2>1. pickCmd # None => pickCue' # None
    BY <1>5, NoneAssumption DEF WaitForPick, Latched, StateTyped, Cues, Seen
  <2> QED
    BY <1>5, <2>1 DEF WaitForPick
<1>6. CASE WaitForClean
  <2>1. cleanCmd # None => placeCue' # None
    BY <1>6, NoneAssumption DEF WaitForClean, Latched, StateTyped, Cues, Seen
  <2> QED
    BY <1>6, <2>1 DEF WaitForClean
<1>7. CASE CommandTimeout
  BY <1>1, <1>7 DEF CommandTimeout
<1>8. CASE ResolveLatchedPick
  BY <1>1, <1>8 DEF ResolveLatchedPick, PickResolved
<1>9. CASE AlignmentEnds
  BY <1>1, <1>9 DEF AlignmentEnds
<1>10. CASE ResolveObservedPick
  BY <1>1, <1>10 DEF ResolveObservedPick, PickResolved, AskToPointAgain
<1>11. CASE ResolvePlace
  BY <1>1, <1>11 DEF ResolvePlace, AskToPointAgain
<1>12. CASE PlanPregrasp
  BY <1>1, <1>12 DEF PlanPregrasp
<1>13. ASSUME NEW s \in MoveSteps, NEW aim \in {"pregrasp", "destination"},
               StartMove(s, aim)
        PROVE  StepHasItsCues'
  BY <1>1, <1>13 DEF StartMove, SendNavGoal, MoveSteps
<1>14. ASSUME NEW s \in MoveSteps, NEW next \in {"DeployArmForApproach", "ReleaseObject"},
               Arrive(s, next)
        PROVE  StepHasItsCues'
  BY <1>1, <1>14 DEF Arrive, MoveSteps
<1>15. ASSUME NEW s \in MoveSteps,
               MoveFails(s) \/ MoveTimeout(s)
        PROVE  StepHasItsCues'
  BY <1>1, <1>15 DEF MoveFails, MoveTimeout, OutOfTime, MoveSteps
<1>16. ASSUME NEW s \in Acting, NEW next \in {"HandCameraApproach", "SendTaskFinished"},
               Timed(s, next)
        PROVE  StepHasItsCues'
  BY <1>1, <1>16 DEF Timed
<1>17. CASE HandCameraApproach
  BY <1>1, <1>17 DEF HandCameraApproach, Retry
<1>18. CASE CloseAndVerify
  BY <1>1, <1>18 DEF CloseAndVerify, Retry
<1>19. CASE BackOff
  BY <1>1, <1>19 DEF BackOff
<1>20. ASSUME NEW s \in Acting, NEW m \in {"Object_grasped", "Task_finished"},
               NEW next \in {"MoveToDestination", "WaitForResult"},
               Report(s, m, next)
        PROVE  StepHasItsCues'
  BY <1>1, <1>20 DEF Report
<1>21. CASE WaitForResult
  BY <1>1, <1>21 DEF WaitForResult
<1> QED
  BY <1>2, <1>3, <1>4, <1>5, <1>6, <1>7, <1>8, <1>9, <1>10, <1>11, <1>12, <1>13, <1>14, <1>15,
     <1>16, <1>17, <1>18, <1>19, <1>20, <1>21
  DEF Pass, Move, MoveSteps, Acting

-----------------------------------------------------------------------------
(* So do the callbacks, the action server and the moderator.               *)

LEMMA OthersKeepFlags == ASSUME FlagsTyped, [Next]_vars, ~Pass PROVE FlagsTyped'
<1> USE DEF told, navFlags, navVars, navFrame, node
<1>1. CASE Idle
  BY Zenon, <1>1 DEF Idle, FlagsTyped
<1>2. CASE Receive
  BY Zenon, <1>2 DEF Receive, OnReady, OnCommand, OnVerdict, FlagsTyped
<1>3. CASE Observe
  BY Zenon, <1>3 DEF Observe, FlagsTyped
<1>4. ASSUME NEW g \in Slots, NavResult(g)
      PROVE  FlagsTyped'
  BY Zenon, <1>4 DEF NavResult, FlagsTyped
<1>5. CASE UNCHANGED <<started, finished, failed, sent, navFailed, heard>>
  BY Zenon, <1>5 DEF FlagsTyped
<1> QED
  BY Zenon, <1>1, <1>2, <1>3, <1>4, <1>5
     DEF Next, AskAgain, PointAtPlace, TimeUp, Judge, NavAccept, NavFinish, vars

LEMMA Reading ==
  ASSUME ChannelsOK, inbox # <<>>
  PROVE  /\ Len(inbox) \in Nat \ {0} /\ Head(inbox) = inbox[1]
         /\ inbox[1].m \in Orders /\ inbox[1].at \in Pointings
         /\ Tail(inbox) \in Seq(Messages) /\ Len(Tail(inbox)) = Len(inbox) - 1
         /\ \A i \in 1 .. Len(inbox) - 1 : Tail(inbox)[i] = inbox[i + 1]
<1>1. inbox \in Seq(Messages)
  BY DEF ChannelsOK, Messages
<1>2. Len(inbox) \in Nat \ {0} /\ inbox[1] \in Messages
  BY <1>1, EmptySeq, ElementOfSeq
<1>3. Head(inbox) = inbox[1]
  BY <1>1
<1> QED
  BY <1>1, <1>2, <1>3, HeadTailProperties DEF Messages

\* What a verdict does: the next task, or the end of the mission.
LEMMA VerdictKeepsState ==
  ASSUME StateTyped, NEW m, Verdict(m)
  PROVE  task' \in Tasks /\ repeats' \in 0 .. MaxRepeats /\ phase' \in {"waiting", "over"}
BY CleanupAssumption DEF Verdict, StateTyped, Tasks

LEMMA OthersKeepState ==
  ASSUME StateTyped, ChannelsOK, [Next]_vars, ~Pass PROVE StateTyped'
<1> USE DEF told, cues, counts, navFlags, navVars, moderator, navFrame, node, StateTyped
<1>1. CASE Idle
  BY <1>1 DEF Idle
<1>2. CASE Receive
  BY <1>2, Reading DEF Receive, OnReady, OnCommand, OnVerdict, Steps
<1>3. CASE Observe
  BY <1>3 DEF Observe, Seen
<1>4. CASE AskAgain
  BY <1>4 DEF AskAgain
<1>5. CASE PointAtPlace
  BY <1>5 DEF PointAtPlace
<1>6. CASE TimeUp
  BY <1>6, VerdictKeepsState DEF TimeUp
<1>7. CASE Judge
  <2>1. task' \in Tasks /\ repeats' \in 0 .. MaxRepeats
        /\ phase' \in {"waiting", "pointing", "pointed", "grasped", "over"}
    BY <1>7, VerdictKeepsState, CleanupAssumption DEF Judge, Expected, PointAtObject
  <2> QED
    BY <1>7, <2>1 DEF Judge
<1>8. ASSUME NEW g \in Slots, NavResult(g) \/ NavAccept(g) \/ NavFinish(g)
      PROVE  StateTyped'
  BY <1>8 DEF NavResult, NavAccept, NavFinish
<1>9. CASE UNCHANGED vars
  BY <1>9 DEF vars
<1> QED
  BY <1>1, <1>2, <1>3, <1>4, <1>5, <1>6, <1>7, <1>8, <1>9 DEF Next

LEMMA OthersKeepCues ==
  ASSUME StateTyped, StepHasItsCues, [Next]_vars, ~Pass PROVE StepHasItsCues'
<1> USE DEF told, cues, navVars, navFrame, node, StepHasItsCues
<1>1. CASE Receive
  BY <1>1 DEF Receive, OnReady, OnCommand, OnVerdict, Acting
<1>2. CASE Observe
  BY <1>2 DEF Observe
<1>3. CASE UNCHANGED <<step, pickCmd, cleanCmd, pickCue, placeCue, target, dest>>
  BY <1>3
<1>4. ASSUME NEW g \in Slots, NavResult(g) \/ NavAccept(g) \/ NavFinish(g)
      PROVE  UNCHANGED <<step, pickCmd, cleanCmd, pickCue, placeCue, target, dest>>
  BY <1>4 DEF NavResult, NavAccept, NavFinish
<1>5. ASSUME Idle \/ AskAgain \/ PointAtPlace \/ TimeUp \/ Judge \/ UNCHANGED vars
      PROVE  UNCHANGED <<step, pickCmd, cleanCmd, pickCue, placeCue, target, dest>>
  BY <1>5 DEF Idle, AskAgain, PointAtPlace, TimeUp, Judge, vars
<1> QED
  BY <1>1, <1>2, <1>3, <1>4, <1>5 DEF Next

-----------------------------------------------------------------------------
(* The channels carry messages.                                            *)

LEMMA PassSays ==
  ASSUME Pass
  PROVE  UNCHANGED inbox /\ (UNCHANGED outbox \/ \E m \in Reports \ {"I_am_ready"} : Say(m))
BY DEF Pass, Failure, Initialize, Ready, WaitForPick, WaitForClean, CommandTimeout,
       ResolveLatchedPick, PickResolved, AlignmentEnds, ResolveObservedPick, AskToPointAgain,
       ResolvePlace, PlanPregrasp, Move, StartMove, Arrive, MoveFails, MoveTimeout, Timed,
       HandCameraApproach, CloseAndVerify, Retry, BackOff, Report, WaitForResult, GiveUp, Reports

LEMMA VerdictSays ==
  ASSUME StateTyped, ChannelsOK, NEW m \in Orders, Verdict(m)
  PROVE  inbox' \in Seq(Messages)
<1>1. Pointing \in Pointings
  BY DEF Pointing, Pointings, StateTyped
<1>2. Message(m) \in Messages /\ Message("Mission_complete") \in Messages
  BY <1>1 DEF Message, Messages, Orders
<1>3. CASE task < NTasks
  <2> DEFINE n == [m |-> "Are_you_ready?", at |-> [task |-> task + 1, round |-> 0]]
  <2>1. n \in Messages
    BY <1>3, CleanupAssumption DEF StateTyped, Tasks, Pointings, Messages, Orders
  <2>2. inbox' = inbox \o <<Message(m), n>>
    BY <1>3 DEF Verdict
  <2> QED
    BY <1>2, <2>1, <2>2 DEF ChannelsOK
<1>4. CASE ~(task < NTasks)
  <2>1. inbox' = inbox \o <<Message(m), Message("Mission_complete")>>
    BY <1>4 DEF Verdict
  <2> QED
    BY <1>2, <2>1 DEF ChannelsOK
<1> QED
  BY <1>3, <1>4

LEMMA ChannelsStayTyped == ASSUME StateTyped, ChannelsOK, [Next]_vars PROVE ChannelsOK'
<1>1. Pointing \in Pointings
  BY DEF Pointing, Pointings, StateTyped
<1>2. \A m \in Orders : Message(m) \in Messages
  BY <1>1 DEF Message, Messages
<1>3. CASE Pass
  BY <1>3, PassSays DEF ChannelsOK, Say
<1>4. CASE Receive
  <2>1. inbox' \in Seq(Messages)
    BY <1>4, Reading DEF Receive
  <2>2. outbox' = outbox \/ Say("I_am_ready")
    BY <1>4 DEF Receive, OnReady, OnCommand, OnVerdict
  <2> QED
    BY <2>1, <2>2 DEF ChannelsOK, Say, Reports
<1>5. CASE AskAgain
  BY <1>5, <1>2 DEF AskAgain, ChannelsOK, Orders
<1>6. CASE PointAtPlace
  BY <1>6, <1>2 DEF PointAtPlace, ChannelsOK, Orders
<1>7. CASE TimeUp
  BY <1>7, VerdictSays DEF TimeUp, ChannelsOK, Orders
<1>8. CASE Judge
  <2>1. ASSUME NEW n \in 0 .. MaxRepeats, PointAtObject(n)
        PROVE  inbox' \in Seq(Messages)
    <3>1. [m |-> "Pick_it_up!", at |-> [task |-> task, round |-> n]] \in Messages
      BY DEF Messages, Orders, Pointings, StateTyped
    <3> QED
      BY <2>1, <3>1 DEF PointAtObject, ChannelsOK
  <2>2. outbox' \in Seq(Reports)
    BY <1>8 DEF Judge, ChannelsOK
  <2>3. 0 \in 0 .. MaxRepeats /\ (Expected("Point_it_again") => repeats + 1 \in 0 .. MaxRepeats)
    BY CleanupAssumption DEF Expected, StateTyped
  <2>4. {"Task_succeeded", "Task_failed"} \subseteq Orders
    BY DEF Orders
  <2>5. \/ UNCHANGED inbox
        \/ \E n \in 0 .. MaxRepeats : PointAtObject(n)
        \/ \E m \in Orders : Verdict(m)
    BY <1>8, <2>3, <2>4 DEF Judge, moderator
  <2>6. inbox' \in Seq(Messages)
    BY <2>1, <2>5, VerdictSays DEF ChannelsOK
  <2> QED
    BY <2>2, <2>6 DEF ChannelsOK
<1>9. CASE UNCHANGED <<inbox, outbox>>
  BY <1>9 DEF ChannelsOK
<1> QED
  BY <1>3, <1>4, <1>5, <1>6, <1>7, <1>8, <1>9
     DEF Next, Idle, Observe, NavResult, NavAccept, NavFinish, navFrame, vars

LEMMA GroundsHold == ASSUME Grounds, [Next]_vars PROVE Grounds'
<1>1. CASE Pass
  BY <1>1, PassKeepsFlags, PassKeepsState, PassKeepsCues, ChannelsStayTyped DEF Grounds
<1>2. CASE ~Pass
  BY <1>2, OthersKeepFlags, OthersKeepState, OthersKeepCues, ChannelsStayTyped DEF Grounds
<1> QED
  BY <1>1, <1>2

-----------------------------------------------------------------------------
(* The passes of the loop, in every regime of the conversation.            *)

LEMMA Saying ==
  ASSUME ChannelsOK, NEW m \in Reports, Say(m)
  PROVE  /\ Len(outbox) \in Nat /\ Len(outbox') = Len(outbox) + 1
         /\ outbox'[Len(outbox) + 1] = m
         /\ \A i \in 1 .. Len(outbox) : outbox'[i] = outbox[i]
BY DEF ChannelsOK, Say

\* A pass in the middle of the work leaves alone what the node knows of the verdict.
LEMMA OrdinaryPass ==
  ASSUME Pass, ~Failure, ~Initialize, ~WaitForResult
  PROVE  /\ ~failed /\ step \notin {"Initialize", "WaitForResult", "Shutdown"}
         /\ step' \notin {"Initialize", "Shutdown"}
         /\ UNCHANGED <<started, finished, failed>>
<1> DEFINE Ordinary == /\ ~failed /\ step \notin {"Initialize", "WaitForResult", "Shutdown"}
                       /\ step' \notin {"Initialize", "Shutdown"}
                       /\ UNCHANGED <<started, finished, failed>>
<1> USE DEF told, At, Goto, GiveUp, Acting
<1>1. CASE Failure
  BY <1>1
<1>2. CASE Initialize
  BY <1>2
<1>3. CASE Ready
  BY <1>3 DEF Ready
<1>4. CASE WaitForPick
  BY <1>4 DEF WaitForPick, Latched
<1>5. CASE WaitForClean
  BY <1>5 DEF WaitForClean, Latched
<1>6. CASE CommandTimeout
  BY <1>6 DEF CommandTimeout
<1>7. CASE ResolveLatchedPick
  BY <1>7 DEF ResolveLatchedPick, PickResolved
<1>8. CASE AlignmentEnds
  BY <1>8 DEF AlignmentEnds
<1>9. CASE ResolveObservedPick
  BY <1>9 DEF ResolveObservedPick, PickResolved, AskToPointAgain
<1>10. CASE ResolvePlace
  BY <1>10 DEF ResolvePlace, AskToPointAgain
<1>11. CASE PlanPregrasp
  BY <1>11 DEF PlanPregrasp
<1>12. ASSUME NEW s \in MoveSteps, NEW aim \in {"pregrasp", "destination"},
               StartMove(s, aim)
        PROVE  Ordinary
  BY <1>12 DEF StartMove, SendNavGoal, MoveSteps
<1>13. ASSUME NEW s \in MoveSteps, NEW next \in {"DeployArmForApproach", "ReleaseObject"},
               Arrive(s, next)
        PROVE  Ordinary
  BY <1>13 DEF Arrive, MoveSteps
<1>14. ASSUME NEW s \in MoveSteps,
               MoveFails(s) \/ MoveTimeout(s)
        PROVE  Ordinary
  BY <1>14 DEF MoveFails, MoveTimeout, OutOfTime, MoveSteps
<1>15. ASSUME NEW s \in Acting, NEW next \in {"HandCameraApproach", "SendTaskFinished"},
               Timed(s, next)
        PROVE  Ordinary
  BY <1>15 DEF Timed
<1>16. CASE HandCameraApproach
  BY <1>16 DEF HandCameraApproach, Retry
<1>17. CASE CloseAndVerify
  BY <1>17 DEF CloseAndVerify, Retry
<1>18. CASE BackOff
  BY <1>18 DEF BackOff
<1>19. ASSUME NEW s \in Acting, NEW m \in {"Object_grasped", "Task_finished"},
               NEW next \in {"MoveToDestination", "WaitForResult"},
               Report(s, m, next)
        PROVE  Ordinary
  BY <1>19 DEF Report
<1>20. CASE WaitForResult
  BY <1>20
<1> QED
  BY <1>1, <1>2, <1>3, <1>4, <1>5, <1>6, <1>7, <1>8, <1>9, <1>10, <1>11, <1>12, <1>13, <1>14,
     <1>15, <1>16, <1>17, <1>18, <1>19, <1>20
  DEF Pass, Move, MoveSteps, Acting

LEMMA PassWhenVerdictDue ==
  ASSUME Grounds, VerdictDue, Pass PROVE Conversation'
<1> USE DEF moderator, Goto, InboxIs
<1>1. heard' = FALSE /\ UNCHANGED <<inbox, moderator>>
  BY DEF Pass
<1>2. ~Said("I_am_ready")'
  BY PassSays, Saying DEF Grounds, VerdictDue, Said, Reports
<1> DEFINE then == IF phase = "waiting" THEN "Are_you_ready?" ELSE "Mission_complete"
<1>3. ASSUME step' = "Initialize", ~failed', InboxIs(<<then>>) PROVE Conversation'
  <2>1. \A i \in 1 .. Len(outbox') : outbox'[i] # "I_am_ready"
    BY <1>2 DEF Said
  <2>2. CASE phase = "waiting"
    BY <1>3, <1>1, <1>2, <2>1, <2>2 DEF BetweenTasks, Conversation
  <2>3. CASE phase = "over"
    BY <1>3, <1>1, <2>3 DEF MissionOver, Conversation
  <2> QED
    BY <2>2, <2>3 DEF VerdictDue
<1>4. CASE Failure
  BY <1>3, <1>4 DEF Failure, VerdictDue
<1>5. CASE WaitForResult
  <2>1. inbox # <<>>
    BY DEF VerdictDue
  <2>2. step = "WaitForResult" /\ finished /\ ~failed /\ ~failed' /\ step' = "Initialize"
    BY <1>5, <2>1 DEF WaitForResult, At, told, MinutePasses
  <2> QED
    BY <1>3, <2>2 DEF VerdictDue
<1>6. CASE Initialize
  BY <1>1, <1>2, <1>6 DEF Initialize, Reset, VerdictDue, Conversation
<1>7. CASE ~Failure /\ ~Initialize /\ ~WaitForResult
  BY <1>1, <1>2, <1>7, OrdinaryPass DEF VerdictDue, Conversation
<1> QED
  BY <1>4, <1>5, <1>6, <1>7

LEMMA EarlyPass ==
  ASSUME Pass, ~failed, step \in {"Initialize", "Ready", "WaitForPickTrackAvatar", "Shutdown"}
  PROVE  Initialize \/ Ready \/ WaitForPick \/ CommandTimeout
BY DEF Pass, Failure, WaitForClean, ResolveLatchedPick, AlignmentEnds, ResolveObservedPick,
       ResolvePlace, PlanPregrasp, Move, StartMove, Arrive, MoveFails, MoveTimeout, OutOfTime,
       Timed, HandCameraApproach, CloseAndVerify, BackOff, Report, WaitForResult, At

LEMMA PassBetweenTasks ==
  ASSUME Grounds, BetweenTasks, Pass PROVE Conversation'
<1> USE DEF moderator, told, Goto, At, InboxIs
<1>1. heard' = FALSE /\ UNCHANGED <<inbox, moderator>>
  BY DEF Pass
<1>2. Initialize \/ Ready \/ WaitForPick \/ CommandTimeout
  BY EarlyPass DEF BetweenTasks, Answered
<1>3. CASE Initialize
  <2>1. /\ step' = "Ready" /\ ~started' /\ ~finished' /\ ~failed' /\ UNCHANGED outbox
        /\ ~Said("I_am_ready")
    BY <1>3 DEF Initialize, Reset, BetweenTasks, Answered
  <2>2. ~Said("I_am_ready")'
    BY <2>1 DEF Said
  <2> QED
    BY <1>1, <2>1, <2>2 DEF BetweenTasks, Conversation
<1>4. CASE Ready
  <2>1. /\ step' = "WaitForPickTrackAvatar" /\ pickCmd' = None
        /\ UNCHANGED <<finished, failed, outbox>>
    BY <1>4 DEF Ready, Grounds, StepHasItsCues
  <2> QED
    BY <1>1, <1>4, <2>1 DEF Ready, BetweenTasks, Answered, Conversation
<1>5. CASE WaitForPick
  <2>1. /\ step' = "WaitForPickTrackAvatar" /\ pickCmd = None /\ pickCmd' = None
        /\ UNCHANGED <<finished, failed, outbox>>
    BY <1>5 DEF WaitForPick, BetweenTasks, Answered
  <2> QED
    BY <1>1, <1>5, <2>1 DEF WaitForPick, BetweenTasks, Answered, Conversation
<1>6. ~CommandTimeout
  BY DEF CommandTimeout, MinutePasses, BetweenTasks, Answered
<1> QED
  BY <1>2, <1>3, <1>4, <1>5, <1>6

LEMMA PassAfterMission ==
  ASSUME Grounds, MissionOver, Pass PROVE Conversation'
<1>1. UNCHANGED <<inbox, moderator>>
  BY DEF Pass
<1>2. Initialize
  BY EarlyPass DEF MissionOver, Initialize, Ready, WaitForPick, CommandTimeout, At
<1> QED
  BY <1>1, <1>2 DEF Initialize, Reset, Goto, MissionOver, InboxIs, moderator, Conversation

\* The robot works on what it was shown, and has reported nothing yet.
Preparing == {"ResolvePickTarget", "ResolvePlaceDestination"} \cup (Acting \ Bringing)

Unreported == ~Said("Point_it_again") /\ ~Said("Object_grasped")
              /\ ~Said("Task_finished") /\ ~Said("Give_up")

NodeOnly == UNCHANGED <<inbox, moderator, finished, failed>>

LEMMA PreparingInTask ==
  ASSUME InTask, ReportsInTask, step \in Preparing
  PROVE  phase = "pointed" /\ BothKnown /\ InboxIs(<<>>) /\ Unreported
<1>1. /\ step \notin Bringing \cup {"WaitForResult"}
      /\ step \notin {"Ready", "WaitForPickTrackAvatar", "WaitForCleanTrackAvatar"}
  BY DEF Preparing, Bringing, Acting
<1>2. phase = "pointed" /\ BothKnown /\ InboxIs(<<>>)
  BY <1>1 DEF InTask, PickAhead, PickKnown, AskedAgain, Answered
<1>3. Unreported
  BY <1>1 DEF ReportsInTask, AskedAgain, Unreported, Said
<1> QED
  BY <1>2, <1>3

LEMMA BringingInTask ==
  ASSUME InTask, ReportsInTask, step \in Bringing
  PROVE  /\ phase \in {"pointed", "grasped"} /\ InboxIs(<<>>)
         /\ target.task = task /\ dest = Pointing
         /\ ~Said("Point_it_again") /\ ~Said("Task_finished") /\ ~Said("Give_up")
<1>1. step # "WaitForResult"
      /\ step \notin {"Ready", "WaitForPickTrackAvatar", "WaitForCleanTrackAvatar",
                      "ResolvePickTarget", "ResolvePlaceDestination"}
  BY DEF Bringing
<1> QED
  BY <1>1 DEF InTask, ReportsInTask, PickAhead, PickKnown, BothKnown, AskedAgain, Answered, Said

LEMMA StaysPreparing ==
  ASSUME InTask, ReportsInTask, step \in Preparing, NodeOnly, UNCHANGED outbox,
         step' \in Preparing, BothKnown'
  PROVE  InTask' /\ ReportsInTask'
<1> USE DEF NodeOnly, moderator
<1>1. phase = "pointed" /\ BothKnown /\ InboxIs(<<>>) /\ Unreported
  BY PreparingInTask
<1>2. InTask'
  BY <1>1 DEF InTask, InboxIs
<1>3. step' \notin Bringing \cup {"WaitForResult"}
  BY DEF Preparing, Bringing, Acting
<1>4. \A i \in 1 .. Len(outbox) :
         outbox[i] \notin {"Point_it_again", "Object_grasped", "Task_finished", "Give_up"}
  BY <1>1 DEF Unreported, Said
<1>5. ReportsInTask'
  BY <1>3, <1>4 DEF ReportsInTask, Said
<1> QED
  BY <1>2, <1>5

LEMMA StaysBringing ==
  ASSUME InTask, ReportsInTask, step \in Bringing, NodeOnly, UNCHANGED <<outbox, target, dest>>,
         step' \in Bringing
  PROVE  InTask' /\ ReportsInTask'
<1> USE DEF NodeOnly, moderator
<1>1. /\ phase \in {"pointed", "grasped"} /\ InboxIs(<<>>)
      /\ target.task = task /\ dest = Pointing
      /\ ~Said("Point_it_again") /\ ~Said("Task_finished") /\ ~Said("Give_up")
  BY BringingInTask
<1>2. step' \in Acting /\ step' # "WaitForResult"
  BY DEF Bringing, Acting
<1>3. InTask'
  BY <1>1, <1>2 DEF InTask, InboxIs, BothKnown, Pointing
<1>4. ReportsInTask'
  BY <1>1, <1>2 DEF ReportsInTask, Said, InboxIs
<1> QED
  BY <1>3, <1>4

LEMMA GivesUp ==
  ASSUME Grounds, InTask, ReportsInTask, NodeOnly, InboxIs(<<>>), ~Said("Point_it_again"),
         step # "WaitForResult", step' = "WaitForResult", Say("Give_up")
  PROVE  InTask' /\ ReportsInTask'
<1> USE DEF NodeOnly, moderator
<1>1. /\ Len(outbox) \in Nat /\ Len(outbox') = Len(outbox) + 1
      /\ outbox'[Len(outbox) + 1] = "Give_up"
      /\ \A i \in 1 .. Len(outbox) : outbox'[i] = outbox[i]
  BY Saying DEF Grounds, Reports
<1>2. InTask'
  BY DEF InTask, InboxIs, PickKnown
<1>3. \A i \in 1 .. Len(outbox) : outbox[i] \notin {"Task_finished", "Give_up", "Point_it_again"}
  BY DEF ReportsInTask, Said
<1>4. ReportsInTask'
  <2>1. ~Said("Point_it_again")' /\ Said("Give_up")'
    BY <1>1, <1>3 DEF Said
  <2>2. Said("Object_grasped")' => phase = "pointed"
    BY <1>1 DEF ReportsInTask, Said
  <2>3. step' \notin Bringing
    BY DEF Bringing
  <2>4. ASSUME NEW i \in 1 .. Len(outbox')
        PROVE  /\ outbox'[i] \in {"Task_finished", "Give_up"} => i = Len(outbox')
               /\ outbox'[i] # "Task_finished"
               /\ \A j \in 1 .. Len(outbox') :
                    outbox'[i] \in {"Point_it_again", "Object_grasped"}
                      /\ outbox'[j] = outbox'[i] => i = j
    BY <1>1, <1>3 DEF ReportsInTask
  <2> QED
    BY <2>1, <2>2, <2>3, <2>4 DEF ReportsInTask, InboxIs
<1> QED
  BY <1>2, <1>4

LEMMA AsksAgain ==
  ASSUME Grounds, InTask, ReportsInTask, NodeOnly, step \in Preparing, AskedAgain',
         Say("Point_it_again")
  PROVE  InTask' /\ ReportsInTask'
<1> USE DEF NodeOnly, moderator
<1>1. /\ Len(outbox) \in Nat /\ Len(outbox') = Len(outbox) + 1
      /\ outbox'[Len(outbox) + 1] = "Point_it_again"
      /\ \A i \in 1 .. Len(outbox) : outbox'[i] = outbox[i]
  BY Saying DEF Grounds, Reports
<1>2. phase = "pointed" /\ BothKnown /\ InboxIs(<<>>) /\ Unreported
  BY PreparingInTask
<1>3. InTask'
  BY <1>2 DEF InTask, InboxIs
<1>4. \A i \in 1 .. Len(outbox) :
         outbox[i] \notin {"Point_it_again", "Object_grasped", "Task_finished", "Give_up"}
  BY <1>2 DEF Unreported, Said
<1>5. step' \notin Bringing \cup {"WaitForResult"}
  BY DEF AskedAgain, Bringing
<1>6. ReportsInTask'
  BY <1>1, <1>2, <1>4, <1>5 DEF ReportsInTask, Said, InboxIs
<1> QED
  BY <1>3, <1>6

LEMMA PassInTask ==
  ASSUME Grounds, InTask, ReportsInTask, Pass PROVE (InTask /\ ReportsInTask)'
<1> USE DEF moderator, told, cues, At, Goto
<1>1. heard' = FALSE /\ UNCHANGED <<inbox, moderator>>
  BY DEF Pass
<1>2. ~failed /\ ~finished /\ step \notin {"Initialize", "Shutdown"}
      /\ (step = "Ready" => started)
  BY DEF InTask, PickAhead, PickKnown, BothKnown, AskedAgain, Answered, Acting, Bringing
<1>3. step = "WaitForResult" => outbox # <<>>
  BY DEF ReportsInTask, Said
<1>4. ~Failure /\ ~Initialize /\ ~WaitForResult
  BY <1>2, <1>3 DEF Failure, Initialize, WaitForResult, MinutePasses
<1>5. NodeOnly
  BY <1>1, <1>4, OrdinaryPass DEF NodeOnly
<1>6. CASE Ready
  <2>1. step = "Ready" /\ step' = "WaitForPickTrackAvatar" /\ pickCmd' = None
        /\ UNCHANGED outbox
    BY <1>6 DEF Ready, Grounds, StepHasItsCues
  <2>2. PickAhead /\ PickAhead' /\ ~BothKnown /\ ~AskedAgain /\ ~PickKnown
    BY <2>1, <1>2 DEF PickAhead, Answered, InTask, BothKnown, AskedAgain, PickKnown, Acting,
       Bringing
  <2>3. InTask'
    BY <2>1, <2>2, <1>1, <1>5 DEF InTask, NodeOnly, InboxIs, Pointing, Bringing
  <2>4. ReportsInTask'
    BY <2>1, <2>2, <1>1, <1>5 DEF ReportsInTask, InboxIs, Said, Bringing
  <2> QED
    BY <2>3, <2>4
<1>7. CASE WaitForPick
  <2>1. CASE pickCmd = None
    <3>1. /\ step = "WaitForPickTrackAvatar" /\ step' = step /\ pickCmd' = None
          /\ UNCHANGED outbox
      BY <1>7, <2>1 DEF WaitForPick
    <3>2. PickAhead /\ PickAhead' /\ AskedAgain /\ AskedAgain' /\ ~PickKnown
      BY <3>1, <2>1, NoneAssumption DEF PickAhead, Answered, AskedAgain, PickKnown, Pointing,
         Grounds, StateTyped, Pointings
    <3>3. InTask'
      BY <3>1, <3>2, <1>1, <1>5 DEF InTask, NodeOnly, InboxIs, Pointing, Bringing
    <3>4. ReportsInTask'
      BY <3>1, <3>2, <1>1, <1>5 DEF ReportsInTask, InboxIs, Said, Bringing
    <3> QED
      BY <3>3, <3>4
  <2>2. CASE pickCmd # None
    <3>1. /\ step = "WaitForPickTrackAvatar" /\ step' = "WaitForCleanTrackAvatar"
          /\ pickCue'.at = pickCmd /\ UNCHANGED <<cleanCmd, outbox>>
      BY <1>7, <2>2 DEF WaitForPick, Latched
    <3>2. ~PickAhead /\ ~AskedAgain /\ ~BothKnown /\ cleanCmd = None
      BY <3>1, <2>2 DEF PickAhead, Answered, AskedAgain, BothKnown, Acting, Grounds, StepHasItsCues
    <3>3. PickKnown /\ pickCmd = Pointing /\ step \notin Bringing
      BY <3>1, <3>2 DEF InTask, PickKnown, Bringing
    <3>4. PickKnown'
      BY <3>1, <3>2, <3>3, <1>1 DEF PickKnown, Pointing
    <3>5. InTask'
      BY <3>1, <3>2, <3>3, <3>4, <1>1, <1>5 DEF InTask, NodeOnly, InboxIs, Pointing
    <3>6. ReportsInTask'
      BY <3>1, <3>2, <3>3, <1>1, <1>5 DEF ReportsInTask, InboxIs, Said, Bringing
    <3> QED
      BY <3>5, <3>6
  <2> QED
    BY <2>1, <2>2
<1>8. CASE WaitForClean
  <2>1. CASE cleanCmd = None
    <3>1. /\ step = "WaitForCleanTrackAvatar" /\ step' = step /\ cleanCmd' = None
          /\ UNCHANGED <<pickCue, outbox>>
      BY <1>8, <2>1 DEF WaitForClean
    <3>2. ~BothKnown
      BY <3>1, <2>1, NoneAssumption DEF BothKnown, Pointing, Grounds, StateTyped, Pointings, Acting
    <3>3. InTask'
      BY <3>1, <3>2, <2>1, <1>1, <1>5
         DEF InTask, NodeOnly, InboxIs, Pointing, PickAhead, PickKnown, AskedAgain, Answered,
            Bringing
    <3>4. ReportsInTask'
      BY <3>1, <2>1, <1>1, <1>5 DEF ReportsInTask, InboxIs, Said, AskedAgain, Bringing
    <3> QED
      BY <3>3, <3>4
  <2>2. CASE cleanCmd # None
    <3>1. /\ step = "WaitForCleanTrackAvatar" /\ step' = "ResolvePickTarget"
          /\ placeCue'.at = cleanCmd /\ UNCHANGED <<pickCue, outbox>>
      BY <1>8, <2>2 DEF WaitForClean, Latched
    <3>2. ~PickAhead /\ ~PickKnown /\ ~AskedAgain /\ step \notin Bringing
      BY <3>1, <2>2 DEF PickAhead, PickKnown, Answered, AskedAgain, Bringing
    <3>3. BothKnown /\ InboxIs(<<>>) /\ phase = "pointed"
      BY <3>1, <3>2 DEF InTask
    <3>4. cleanCmd = Pointing /\ pickCue.at.task = task
      BY <3>1, <3>3 DEF BothKnown, Acting
    <3>5. BothKnown'
      BY <3>1, <3>4, <1>1 DEF BothKnown, Pointing
    <3>6. InTask'
      BY <3>3, <3>5, <1>1, <1>5 DEF InTask, NodeOnly, InboxIs, Pointing
    <3>7. ReportsInTask'
      BY <3>1, <3>2, <1>1, <1>5 DEF ReportsInTask, InboxIs, Said, Bringing
    <3> QED
      BY <3>6, <3>7
  <2> QED
    BY <2>1, <2>2
<1>9. CASE CommandTimeout
  <2>1. /\ inbox = <<>> /\ outbox = <<>> /\ step # "WaitForResult"
        /\ step' = "WaitForResult" /\ Say("Give_up")
    BY <1>9 DEF CommandTimeout, MinutePasses, GiveUp
  <2>2. InboxIs(<<>>) /\ ~Said("Point_it_again")
    BY <2>1 DEF InboxIs, Said
  <2> QED
    BY <2>1, <2>2, <1>5, GivesUp

<1>10. ASSUME step \in Preparing \cup Bringing, GiveUp
      PROVE  (InTask /\ ReportsInTask)'
  <2>1. InboxIs(<<>>) /\ ~Said("Point_it_again")
    BY <1>10, PreparingInTask, BringingInTask DEF Unreported
  <2>2. step # "WaitForResult"
    BY <1>10 DEF Preparing, Bringing, Acting
  <2> QED
    BY <1>5, <1>10, <2>1, <2>2, GivesUp DEF GiveUp
<1>11. ASSUME step \in Preparing, step' \in Preparing, UNCHANGED outbox, BothKnown'
      PROVE  (InTask /\ ReportsInTask)'
  BY <1>5, <1>11, StaysPreparing
<1>12. ASSUME step \in Acting \ Bringing, step' \in Acting \ Bringing,
             UNCHANGED <<outbox, target, dest>>
      PROVE  (InTask /\ ReportsInTask)'
  <2>1. step \in Preparing /\ step' \in Preparing /\ step' \in Acting
    BY <1>12 DEF Preparing
  <2>2. target.task = task /\ dest = Pointing
    BY <1>12, <2>1, PreparingInTask DEF BothKnown, Acting
  <2>3. BothKnown'
    BY <1>1, <1>12, <2>1, <2>2 DEF BothKnown, Pointing
  <2> QED
    BY <1>11, <1>12, <2>1, <2>3
<1>13. ASSUME step \in Bringing, step' \in Bringing, UNCHANGED <<outbox, target, dest>>
       PROVE  (InTask /\ ReportsInTask)'
  BY <1>5, <1>13, StaysBringing
<1>14. ASSUME step = "ResolvePickTarget"
       PROVE  /\ pickCmd = None /\ step \in Preparing
              /\ pickCue.at.task = task /\ placeCue.at = Pointing
  <2>1. pickCmd = None /\ step \in Preparing
    BY <1>14 DEF Preparing, Grounds, StepHasItsCues
  <2> QED
    BY <1>14, <2>1, PreparingInTask DEF BothKnown, Acting
<1>15. ASSUME PickResolved, step = "ResolvePickTarget"
       PROVE  (InTask /\ ReportsInTask)'
  <2>1. step' = "ResolvePlaceDestination" /\ step' \in Preparing /\ UNCHANGED outbox
    BY <1>15 DEF PickResolved, Preparing
  <2>2. BothKnown'
    BY <1>1, <1>14, <1>15, <2>1 DEF PickResolved, BothKnown, Pointing
  <2> QED
    BY <1>11, <1>14, <1>15, <2>1, <2>2
<1>16. ASSUME step = "ResolvePickTarget", step' = step, UNCHANGED <<pickCue, placeCue, outbox>>
       PROVE  (InTask /\ ReportsInTask)'
  <2>1. BothKnown'
    BY <1>1, <1>14, <1>16 DEF BothKnown, Pointing
  <2> QED
    BY <1>11, <1>14, <1>16, <2>1
<1>17. CASE ResolveLatchedPick
  BY <1>15, <1>16, <1>17 DEF ResolveLatchedPick
<1>18. CASE AlignmentEnds
  BY <1>16, <1>18 DEF AlignmentEnds
<1>19. CASE ResolveObservedPick
  <2>1. step = "ResolvePickTarget" /\ UNCHANGED pickCmd
    BY <1>19 DEF ResolveObservedPick
  <2>2. \/ PickResolved \/ GiveUp
        \/ Say("Point_it_again") /\ step' = "WaitForPickTrackAvatar"
    BY <1>19 DEF ResolveObservedPick, AskToPointAgain
  <2>3. CASE Say("Point_it_again") /\ step' = "WaitForPickTrackAvatar"
    BY <1>5, <1>14, <2>1, <2>3, AsksAgain DEF AskedAgain
  <2> QED
    BY <1>10, <1>14, <1>15, <2>1, <2>2, <2>3
<1>20. CASE ResolvePlace
  <2>1. /\ step = "ResolvePlaceDestination" /\ step \in Preparing
        /\ UNCHANGED <<cleanCmd, pickCue, target>>
    BY <1>20 DEF ResolvePlace, Preparing
  <2>2. cleanCmd = None
    BY <2>1 DEF Grounds, StepHasItsCues
  <2>3. pickCue.at.task = task /\ target.task = task /\ placeCue.at = Pointing
    BY <2>1, PreparingInTask DEF BothKnown, Acting
  <2>4. \/ dest' = placeCue.at /\ step' = "PlanPregrasp" /\ UNCHANGED outbox
        \/ Say("Point_it_again") /\ step' = "WaitForCleanTrackAvatar"
        \/ GiveUp
    BY <1>20 DEF ResolvePlace, AskToPointAgain
  <2>5. CASE dest' = placeCue.at /\ step' = "PlanPregrasp" /\ UNCHANGED outbox
    <3>1. step' \in Acting \ Bringing /\ step' \in Preparing
      BY <2>5 DEF Acting, Bringing, Preparing
    <3>2. BothKnown'
      BY <1>1, <2>1, <2>3, <2>5, <3>1 DEF BothKnown, Pointing
    <3> QED
      BY <1>11, <2>1, <2>5, <3>1, <3>2
  <2>6. CASE Say("Point_it_again") /\ step' = "WaitForCleanTrackAvatar"
    <3>1. AskedAgain'
      BY <1>1, <2>1, <2>2, <2>3, <2>6 DEF AskedAgain
    <3> QED
      BY <1>5, <2>1, <2>6, <3>1, AsksAgain
  <2> QED
    BY <1>10, <2>1, <2>4, <2>5, <2>6
<1>21. CASE PlanPregrasp
  BY <1>10, <1>12, <1>21 DEF PlanPregrasp, Acting, Bringing, Preparing
<1>22. ASSUME NEW s \in MoveSteps, NEW aim, StartMove(s, aim)
       PROVE  (InTask /\ ReportsInTask)'
  <2>1. step = s /\ UNCHANGED <<target, dest>> /\ (GiveUp \/ UNCHANGED <<step, outbox>>)
    BY <1>22 DEF StartMove
  <2> QED
    BY <1>10, <1>12, <1>13, <2>1 DEF MoveSteps, Acting, Bringing, Preparing
<1>23. CASE Arrive("NavigateToPregrasp", "DeployArmForApproach")
  BY <1>12, <1>23 DEF Arrive, Acting, Bringing
<1>24. CASE Arrive("MoveToDestination", "ReleaseObject")
  BY <1>13, <1>24 DEF Arrive, Bringing
<1>25. ASSUME NEW s \in MoveSteps, MoveFails(s) \/ MoveTimeout(s)
       PROVE  (InTask /\ ReportsInTask)'
  <2>1. step = s /\ GiveUp
    BY <1>25 DEF MoveFails, MoveTimeout, OutOfTime
  <2> QED
    BY <1>10, <2>1 DEF MoveSteps, Acting, Bringing, Preparing
<1>26. CASE Timed("DeployArmForApproach", "HandCameraApproach")
  BY <1>12, <1>26 DEF Timed, Acting, Bringing
<1>27. CASE Timed("ReleaseObject", "SendTaskFinished")
  BY <1>13, <1>27 DEF Timed, Bringing
<1>28. CASE HandCameraApproach \/ CloseAndVerify
  <2>1. /\ step \in {"HandCameraApproach", "CloseAndVerifyGrasp"} /\ UNCHANGED <<target, dest>>
        /\ \/ GiveUp
           \/ step' \in {step, "CloseAndVerifyGrasp", "SendObjectGrasped"} /\ UNCHANGED outbox
    BY <1>28 DEF HandCameraApproach, CloseAndVerify, Retry
  <2> QED
    BY <1>10, <1>12, <2>1 DEF Acting, Bringing, Preparing
<1>29. CASE BackOff
  BY <1>12, <1>29 DEF BackOff, Acting, Bringing
<1>30. CASE Report("SendObjectGrasped", "Object_grasped", "MoveToDestination")
  <2>1. /\ step = "SendObjectGrasped" /\ step' = "MoveToDestination"
        /\ Say("Object_grasped") /\ UNCHANGED <<target, dest>>
        /\ step \in Preparing /\ step \in Acting /\ step' \in Bringing /\ step' \in Acting
    BY <1>30 DEF Report, Preparing, Acting, Bringing
  <2>2. /\ phase = "pointed" /\ InboxIs(<<>>) /\ Unreported
        /\ target.task = task /\ dest = Pointing
    BY <2>1, PreparingInTask DEF BothKnown
  <2>3. InTask'
    BY <1>1, <1>5, <2>1, <2>2 DEF InTask, NodeOnly, InboxIs, BothKnown, Pointing
  <2>4. /\ Len(outbox) \in Nat /\ Len(outbox') = Len(outbox) + 1
        /\ outbox'[Len(outbox) + 1] = "Object_grasped"
        /\ \A i \in 1 .. Len(outbox) : outbox'[i] = outbox[i]
    BY <2>1, Saying DEF Grounds, Reports
  <2>5. \A i \in 1 .. Len(outbox) :
           outbox[i] \notin {"Point_it_again", "Object_grasped", "Task_finished", "Give_up"}
    BY <2>2 DEF Unreported, Said
  <2>6. ReportsInTask'
    BY <1>1, <2>1, <2>2, <2>4, <2>5 DEF ReportsInTask, Said, InboxIs
  <2> QED
    BY <2>3, <2>6
<1>31. CASE Report("SendTaskFinished", "Task_finished", "WaitForResult")
  <2>1. /\ step = "SendTaskFinished" /\ step' = "WaitForResult"
        /\ Say("Task_finished") /\ step \in Bringing
    BY <1>31 DEF Report, Bringing
  <2>2. /\ phase \in {"pointed", "grasped"} /\ InboxIs(<<>>)
        /\ ~Said("Point_it_again") /\ ~Said("Task_finished") /\ ~Said("Give_up")
        /\ phase = "grasped" \/ Said("Object_grasped")
    BY <2>1, BringingInTask DEF ReportsInTask
  <2>3. InTask'
    BY <1>1, <1>5, <2>1, <2>2 DEF InTask, NodeOnly, InboxIs
  <2>4. /\ Len(outbox) \in Nat /\ Len(outbox') = Len(outbox) + 1
        /\ outbox'[Len(outbox) + 1] = "Task_finished"
        /\ \A i \in 1 .. Len(outbox) : outbox'[i] = outbox[i]
    BY <2>1, Saying DEF Grounds, Reports
  <2>5. \A i \in 1 .. Len(outbox) : outbox[i] \notin {"Task_finished", "Give_up", "Point_it_again"}
    BY <2>2 DEF Said
  <2>6. /\ ~Said("Point_it_again")' /\ Said("Task_finished")'
        /\ Said("Object_grasped")' => phase = "pointed"
        /\ step' \notin Bringing
    BY <2>1, <2>2, <2>4, <2>5 DEF Said, ReportsInTask, Bringing
  <2>7. ASSUME NEW i \in 1 .. Len(outbox')
        PROVE  /\ outbox'[i] \in {"Task_finished", "Give_up"} => i = Len(outbox')
               /\ outbox'[i] = "Task_finished" =>
                    phase = "grasped" \/ \E j \in 1 .. i - 1 : outbox'[j] = "Object_grasped"
               /\ \A j \in 1 .. Len(outbox') :
                    outbox'[i] \in {"Point_it_again", "Object_grasped"}
                      /\ outbox'[j] = outbox'[i] => i = j
    BY <2>2, <2>4, <2>5 DEF ReportsInTask, Said
  <2>8. ReportsInTask'
    BY <1>1, <2>1, <2>2, <2>6, <2>7 DEF ReportsInTask, InboxIs
  <2> QED
    BY <2>3, <2>8
<1> QED
  BY <1>4, <1>6, <1>7, <1>8, <1>9, <1>17, <1>18, <1>19, <1>20, <1>21, <1>22, <1>23, <1>24, <1>25,
     <1>26, <1>27, <1>28, <1>29, <1>30, <1>31 DEF Pass, Move, MoveSteps

LEMMA PassConversation == ASSUME Grounds, Conversation, Pass PROVE Conversation'
BY PassWhenVerdictDue, PassBetweenTasks, PassAfterMission, PassInTask DEF Conversation

-----------------------------------------------------------------------------
(* Everything that leaves the conversation alone.                          *)

talk == <<step, started, finished, failed, pickCmd, cleanCmd, pickCue, placeCue, target, dest,
          inbox, outbox, moderator>>

LEMMA SameConversation ==
  ASSUME Conversation, UNCHANGED talk, UNCHANGED heard PROVE Conversation'
<1> USE DEF talk, moderator, InboxIs, Said
<1>1. Pointing' = Pointing
  BY DEF Pointing
<1>2. (PickAhead => PickAhead') /\ (PickKnown => PickKnown')
      /\ (BothKnown => BothKnown') /\ (AskedAgain => AskedAgain')
  BY <1>1 DEF PickAhead, PickKnown, BothKnown, AskedAgain, Answered
<1>3. CASE BetweenTasks
  BY <1>3 DEF BetweenTasks, Answered, Conversation
<1>4. CASE MissionOver
  BY <1>4 DEF MissionOver, Conversation
<1>5. CASE VerdictDue
  BY <1>5 DEF VerdictDue, Conversation
<1>6. CASE InTask /\ ReportsInTask
  <2>1. InTask'
    BY <1>1, <1>2, <1>6 DEF InTask
  <2>2. ReportsInTask'
    BY <1>2, <1>6 DEF ReportsInTask
  <2> QED
    BY <2>1, <2>2 DEF Conversation
<1> QED
  BY <1>3, <1>4, <1>5, <1>6 DEF Conversation

LEMMA IdleConversation == ASSUME Grounds, Conversation, Idle PROVE Conversation'
<1> USE DEF InboxIs, Said
<1>1. UNCHANGED talk /\ ~failed
  BY DEF Idle, talk, told, cues, moderator
<1>2. ~(step = "Ready" /\ started) /\ ~(step = "WaitForResult" /\ finished)
      /\ ~(step = "WaitForPickTrackAvatar" /\ pickCmd # None)
  BY DEF Idle, At
<1> USE DEF talk, moderator
<1>3. CASE BetweenTasks
  BY <1>1, <1>2, <1>3 DEF BetweenTasks, Answered, Conversation
<1>4. CASE MissionOver
  BY <1>1, <1>4 DEF MissionOver, Conversation
<1>5. CASE VerdictDue
  BY <1>1, <1>2, <1>5 DEF VerdictDue, Conversation
<1>6. CASE InTask /\ ReportsInTask
  <2>1. Pointing' = Pointing
    BY <1>1 DEF Pointing
  <2>2. (PickAhead => PickAhead') /\ (PickKnown => PickKnown')
    <3>1. Pointing # None
      BY NoneAssumption DEF Pointing, Pointings, Grounds, StateTyped
    <3> QED
      BY <1>1, <1>2, <2>1, <3>1 DEF PickAhead, PickKnown, Answered
  <2>3. (BothKnown => BothKnown') /\ (AskedAgain => AskedAgain')
    BY <1>1 DEF BothKnown, AskedAgain, Pointing
  <2>4. InTask'
    BY <1>1, <1>6, <2>2, <2>3 DEF InTask, Pointing
  <2>5. ReportsInTask'
    BY <1>1, <1>6, <2>3 DEF ReportsInTask
  <2> QED
    BY <2>4, <2>5 DEF Conversation
<1> QED
  BY <1>3, <1>4, <1>5, <1>6 DEF Conversation

-----------------------------------------------------------------------------
(* The messages to the robot.                                              *)

LEMMA Received ==
  ASSUME ChannelsOK, Receive
  PROVE  /\ Len(inbox) \in Nat \ {0} /\ Len(inbox') = Len(inbox) - 1
         /\ \A i \in 1 .. Len(inbox) - 1 : inbox'[i] = inbox[i + 1]
         /\ OnReady(inbox[1]) \/ OnCommand(inbox[1]) \/ OnVerdict(inbox[1])
              \/ (~Accepts(inbox[1].m) /\ UNCHANGED <<step, told, outbox>>)
         /\ step # "Shutdown" /\ ~heard /\ heard' = TRUE
         /\ UNCHANGED <<sub, cues, moderator>>
<1>1. inbox # <<>> /\ inbox' = Tail(inbox)
  BY DEF Receive
<1>2. Head(inbox) = inbox[1]
  BY <1>1, Reading
<1>3. OnReady(inbox[1]) \/ OnCommand(inbox[1]) \/ OnVerdict(inbox[1])
        \/ (~Accepts(inbox[1].m) /\ UNCHANGED <<step, told, outbox>>)
  BY <1>2, Zenon DEF Receive
<1>4. step # "Shutdown" /\ ~heard /\ heard' = TRUE /\ UNCHANGED <<sub, cues, moderator>>
  BY DEF Receive, SpinOnce
<1> QED
  BY <1>1, <1>3, <1>4, Reading

LEMMA ReadsOne ==
  ASSUME ChannelsOK, Receive, NEW a, InboxIs(<<a>>)
  PROVE  inbox[1].m = a /\ InboxIs(<<>>)'
BY Received DEF InboxIs

LEMMA ReadsFirstOfTwo ==
  ASSUME ChannelsOK, Receive, NEW a, NEW b, InboxIs(<<a, b>>)
  PROVE  inbox[1].m = a /\ InboxIs(<<b>>)'
<1>1. Len(inbox) = 2 /\ inbox[1].m = a /\ inbox[2].m = b
  BY DEF InboxIs
<1>2. Len(inbox') = 1 /\ inbox'[1] = inbox[2]
  BY <1>1, Received
<1> QED
  BY <1>1, <1>2 DEF InboxIs

LEMMA ReadsFirstOfThree ==
  ASSUME ChannelsOK, Receive, NEW a, NEW b, NEW c, InboxIs(<<a, b, c>>)
  PROVE  inbox[1].m = a /\ InboxIs(<<b, c>>)'
<1>1. Len(inbox) = 3 /\ inbox[1].m = a /\ inbox[2].m = b /\ inbox[3].m = c
  BY DEF InboxIs
<1>2. Len(inbox') = 2 /\ inbox'[1] = inbox[2] /\ inbox'[2] = inbox[3]
  BY <1>1, Received
<1> QED
  BY <1>1, <1>2 DEF InboxIs

LEMMA ReceiveWhenVerdictDue ==
  ASSUME Grounds, VerdictDue, Receive PROVE Conversation'
<1> DEFINE then == IF phase = "waiting" THEN "Are_you_ready?" ELSE "Mission_complete"
<1>1. ChannelsOK
  BY DEF Grounds
<1>2. /\ ~failed /\ ~Said("I_am_ready") /\ step # "Shutdown" /\ phase \in {"waiting", "over"}
      /\ phase' = phase /\ then' = then /\ heard'
  BY <1>1, Received DEF VerdictDue, moderator
<1> HIDE DEF then
<1>3. ASSUME UNCHANGED <<step, outbox>>, InboxIs(<<then>>)',
             failed' \/ (finished' /\ step = "WaitForResult" /\ ~failed')
      PROVE  Conversation'
  <2>1. ~Said("I_am_ready")'
    BY <1>2, <1>3 DEF Said
  <2>2. VerdictDue'
    BY <1>2, <1>3, <2>1 DEF VerdictDue, then
  <2> QED
    BY <2>2 DEF Conversation
<1>4. CASE InboxIs(<<"Task_failed", then>>)
  <2>1. inbox[1].m = "Task_failed" /\ InboxIs(<<then>>)'
    BY <1>1, <1>2, <1>4, ReadsFirstOfTwo
  <2>2. OnVerdict(inbox[1])
    BY <1>1, <2>1, Received DEF OnReady, OnCommand, Accepts
  <2>3. failed' /\ UNCHANGED <<step, outbox>>
    BY <2>1, <2>2 DEF OnVerdict
  <2> QED
    BY <1>3, <2>1, <2>3
<1>5. CASE step = "WaitForResult" /\ InboxIs(<<"Task_succeeded", then>>)
  <2>1. inbox[1].m = "Task_succeeded" /\ InboxIs(<<then>>)'
    BY <1>1, <1>2, <1>5, ReadsFirstOfTwo
  <2>2. OnVerdict(inbox[1])
    BY <1>1, <2>1, Received DEF OnReady, OnCommand, Accepts
  <2>3. finished' /\ ~failed' /\ UNCHANGED <<step, outbox>>
    BY <1>2, <2>1, <2>2 DEF OnVerdict
  <2> QED
    BY <1>3, <1>5, <2>1, <2>3
<1>6. CASE ~finished /\ step = "WaitForResult" /\ InboxIs(<<"Clean_up!", "Task_failed", then>>)
  <2>1. inbox[1].m = "Clean_up!" /\ InboxIs(<<"Task_failed", then>>)'
    BY <1>1, <1>2, <1>6, ReadsFirstOfThree
  <2>2. UNCHANGED <<step, told, outbox>>
    BY <1>1, <1>6, <2>1, Received DEF OnReady, OnCommand, OnVerdict
  <2>3. ~Said("I_am_ready")'
    BY <1>2, <2>2 DEF Said
  <2>4. VerdictDue'
    BY <1>2, <1>6, <2>1, <2>2, <2>3 DEF VerdictDue, told, then
  <2> QED
    BY <2>4 DEF Conversation
<1>7. \/ heard \/ InboxIs(<<"Task_failed", then>>)
      \/ ~finished /\ step = "WaitForResult"
           /\ (InboxIs(<<"Task_succeeded", then>>) \/ InboxIs(<<"Clean_up!", "Task_failed", then>>))
  BY DEF VerdictDue, then
<1> QED
  BY <1>1, <1>4, <1>5, <1>6, <1>7, Received

LEMMA ReceiveAfterMission ==
  ASSUME Grounds, MissionOver, Receive PROVE Conversation'
<1>1. ChannelsOK
  BY DEF Grounds
<1>2. inbox[1].m = "Mission_complete" /\ Len(inbox') = 0
  BY <1>1, Received DEF MissionOver, InboxIs
<1>3. OnVerdict(inbox[1])
  BY <1>1, <1>2, Received DEF OnReady, OnCommand, Accepts
<1>4. step' = "Shutdown" /\ ~failed' /\ phase' = "over"
  BY <1>1, <1>2, <1>3, Received DEF OnVerdict, MissionOver, moderator
<1>5. InboxIs(<<>>)'
  BY <1>2 DEF InboxIs
<1> QED
  BY <1>4, <1>5 DEF MissionOver, Conversation

LEMMA ReceiveBetweenTasks ==
  ASSUME Grounds, BetweenTasks, Receive PROVE Conversation'
<1> USE DEF moderator
<1>1. ChannelsOK
  BY DEF Grounds
<1>2. inbox[1].m = "Are_you_ready?" /\ Len(inbox') = 0
  BY <1>1, Received DEF BetweenTasks, InboxIs
<1>3. InboxIs(<<>>)'
  BY <1>2 DEF InboxIs
<1>4. ~(step = "Ready" /\ started)
  BY <1>1, Received DEF BetweenTasks, Answered
<1>5. UNCHANGED <<step, finished, failed, pickCmd>> /\ phase' = phase
  BY <1>1, <1>2, Received DEF OnReady, OnCommand, OnVerdict, told
<1>6. \/ step \in {"Ready", "WaitForPickTrackAvatar"} /\ Say("I_am_ready")
           /\ (step = "Ready" => started')
      \/ step # "Ready" /\ UNCHANGED outbox
  BY <1>1, <1>2, Received DEF OnReady, OnCommand, OnVerdict, Accepts, told
<1>7. CASE step \in {"Ready", "WaitForPickTrackAvatar"} /\ Say("I_am_ready")
             /\ (step = "Ready" => started')
  <2>1. /\ Len(outbox) \in Nat /\ Len(outbox') = Len(outbox) + 1
        /\ outbox'[Len(outbox) + 1] = "I_am_ready"
        /\ \A i \in 1 .. Len(outbox) : outbox'[i] = outbox[i]
    BY <1>1, <1>7, Saying DEF Reports
  <2>2. \A i, j \in 1 .. Len(outbox') :
           i < j /\ outbox'[i] = "I_am_ready" => outbox'[j] = "I_am_ready"
    BY <2>1 DEF BetweenTasks
  <2>3. outbox' # <<>> /\ outbox'[Len(outbox')] = "I_am_ready"
    BY <2>1
  <2>4. Answered' /\ ~finished' /\ ~failed' /\ phase' = "waiting"
    BY <1>1, <1>4, <1>5, <1>7, Received DEF BetweenTasks, Answered
  <2> QED
    BY <1>3, <2>2, <2>3, <2>4 DEF BetweenTasks, Conversation
<1>8. CASE step # "Ready" /\ UNCHANGED outbox
  <2>1. /\ phase' = "waiting" /\ ~failed'
        /\ \/ step' = "Initialize" /\ ~Said("I_am_ready")'
           \/ Answered' /\ ~finished' /\ outbox' # <<>> /\ outbox'[Len(outbox')] = "I_am_ready"
    BY <1>5, <1>8 DEF BetweenTasks, Answered, Said
  <2>2. \A i, j \in 1 .. Len(outbox') :
           i < j /\ outbox'[i] = "I_am_ready" => outbox'[j] = "I_am_ready"
    BY <1>8 DEF BetweenTasks
  <2> QED
    BY <1>3, <2>1, <2>2 DEF BetweenTasks, Conversation
<1> QED
  BY <1>6, <1>7, <1>8

LEMMA ReceivedInTask ==
  ASSUME Grounds, InTask, ReportsInTask, Receive
  PROVE  /\ step \notin Bringing /\ phase \in {"pointing", "pointed"}
         /\ step # "Ready" /\ (PickKnown => step # "WaitForPickTrackAvatar")
         /\ \A i \in 1 .. Len(outbox) : outbox[i] \notin {"Point_it_again", "Object_grasped"}
<1>1. ChannelsOK
  BY DEF Grounds
<1>2. ~InboxIs(<<>>) /\ ~heard
  BY <1>1, Received DEF InboxIs
<1>3. phase \in {"pointing", "pointed"}
  BY <1>2 DEF InTask
<1>4. ~Said("Point_it_again") /\ ~Said("Object_grasped")
  BY <1>2 DEF ReportsInTask
<1>5. step \notin Bringing
  BY <1>3, <1>4 DEF ReportsInTask
<1>6. step # "Ready"
  BY <1>2, <1>3, <1>5
     DEF InTask, PickAhead, Answered, PickKnown, BothKnown, AskedAgain, Acting, Bringing
<1> QED
  BY <1>2, <1>3, <1>4, <1>5, <1>6 DEF Said, PickKnown

LEMMA ReportsWhileReceiving ==
  ASSUME Grounds, InTask, ReportsInTask, Receive, step' = step,
         outbox' = outbox \/ (step # "WaitForResult" /\ Say("I_am_ready"))
  PROVE  ReportsInTask'
<1>1. step \notin Bringing /\ phase \in {"pointing", "pointed"}
      /\ \A i \in 1 .. Len(outbox) : outbox[i] \notin {"Point_it_again", "Object_grasped"}
  BY ReceivedInTask
<1>2. phase' = phase
  BY Received DEF Grounds, moderator
<1>3. CASE outbox' = outbox
  BY <1>1, <1>2, <1>3 DEF ReportsInTask, Said
<1>4. CASE step # "WaitForResult" /\ Say("I_am_ready")
  <2>1. /\ Len(outbox) \in Nat /\ Len(outbox') = Len(outbox) + 1
        /\ outbox'[Len(outbox) + 1] = "I_am_ready"
        /\ \A i \in 1 .. Len(outbox) : outbox'[i] = outbox[i]
    BY <1>4, Saying DEF Grounds, Reports
  <2>2. \A i \in 1 .. Len(outbox') :
           outbox'[i] \notin {"Point_it_again", "Object_grasped", "Task_finished", "Give_up"}
    BY <1>1, <1>4, <2>1 DEF ReportsInTask
  <2> QED
    BY <1>1, <1>4, <2>2 DEF ReportsInTask, Said
<1> QED
  BY <1>3, <1>4

LEMMA ReceiveInTask ==
  ASSUME Grounds, InTask, ReportsInTask, Receive PROVE (InTask /\ ReportsInTask)'
<1>1. ChannelsOK
  BY DEF Grounds
<1>2. /\ step \notin Bringing /\ phase \in {"pointing", "pointed"}
      /\ step # "Ready" /\ (PickKnown => step # "WaitForPickTrackAvatar")
  BY ReceivedInTask
<1>3. /\ UNCHANGED <<pickCue, target, dest, task, phase, repeats>> /\ Pointing' = Pointing
      /\ heard' = TRUE
  BY <1>1, Received DEF cues, moderator, Pointing
<1>4. \A i \in 1 .. Len(inbox') :
         inbox'[i].m \in {"Pick_it_up!", "Clean_up!"} => inbox'[i].at = Pointing'
  BY <1>1, <1>3, Received DEF InTask
<1>5. inbox[1].m \in {"Pick_it_up!", "Clean_up!"} => inbox[1].at = Pointing
  BY <1>1, Received DEF InTask
<1>6. CASE /\ PickAhead /\ inbox[1].m = "Are_you_ready?"
           /\ \/ phase = "pointing" /\ InboxIs(<<"Pick_it_up!">>)'
              \/ phase = "pointed" /\ InboxIs(<<"Pick_it_up!", "Clean_up!">>)'
  <2>1. /\ UNCHANGED <<step, finished, failed, pickCmd, cleanCmd>>
        /\ outbox' = outbox \/ (step # "WaitForResult" /\ Say("I_am_ready"))
    BY <1>1, <1>2, <1>6, Received DEF OnReady, OnCommand, OnVerdict, told
  <2>2. PickAhead'
    BY <1>2, <1>3, <1>6, <2>1 DEF PickAhead, Answered
  <2>3. InTask'
    BY <1>3, <1>4, <1>6, <2>1, <2>2 DEF InTask
  <2> QED
    BY <2>1, <2>3, ReportsWhileReceiving
<1>7. CASE /\ PickAhead /\ inbox[1].m = "Pick_it_up!"
           /\ \/ phase = "pointing" /\ InboxIs(<<>>)'
              \/ phase = "pointed" /\ InboxIs(<<"Clean_up!">>)'
  <2>1. /\ UNCHANGED <<step, finished, failed, cleanCmd, outbox>>
        /\ \/ step = "WaitForPickTrackAvatar" /\ pickCmd' = Pointing
           \/ step # "WaitForPickTrackAvatar" /\ UNCHANGED pickCmd
    BY <1>1, <1>2, <1>5, <1>7, Received DEF OnReady, OnCommand, OnVerdict, Accepts, told
  <2>2. PickKnown'
    BY <1>2, <1>3, <1>7, <2>1 DEF PickAhead, Answered, PickKnown
  <2>3. InTask'
    BY <1>3, <1>4, <1>7, <2>1, <2>2 DEF InTask
  <2> QED
    BY <2>1, <2>3, ReportsWhileReceiving
<1>8. CASE /\ PickKnown /\ inbox[1].m = "Clean_up!" /\ phase = "pointed" /\ InboxIs(<<>>)'
  <2>1. /\ UNCHANGED <<step, finished, failed, pickCmd, outbox>>
        /\ \/ step = "WaitForCleanTrackAvatar" /\ cleanCmd' = Pointing
           \/ step # "WaitForCleanTrackAvatar" /\ UNCHANGED cleanCmd
    BY <1>1, <1>2, <1>5, <1>8, Received DEF OnReady, OnCommand, OnVerdict, Accepts, told
  <2>2. BothKnown' \/ step' = "WaitForResult"
    BY <1>2, <1>3, <1>8, <2>1 DEF PickKnown, BothKnown
  <2>3. InTask'
    BY <1>3, <1>4, <1>8, <2>1, <2>2 DEF InTask
  <2> QED
    BY <2>1, <2>3, ReportsWhileReceiving
<1>9. CASE PickAhead /\ phase = "pointing" /\ InboxIs(<<"Are_you_ready?", "Pick_it_up!">>)
  BY <1>1, <1>6, <1>9, ReadsFirstOfTwo
<1>10. CASE PickAhead /\ phase = "pointing" /\ InboxIs(<<"Pick_it_up!">>)
  BY <1>1, <1>7, <1>10, ReadsOne
<1>11. CASE PickAhead /\ phase = "pointed"
              /\ InboxIs(<<"Are_you_ready?", "Pick_it_up!", "Clean_up!">>)
  BY <1>1, <1>6, <1>11, ReadsFirstOfThree
<1>12. CASE PickAhead /\ phase = "pointed" /\ InboxIs(<<"Pick_it_up!", "Clean_up!">>)
  BY <1>1, <1>7, <1>12, ReadsFirstOfTwo
<1>13. CASE PickKnown /\ phase = "pointed" /\ InboxIs(<<"Clean_up!">>)
  BY <1>1, <1>8, <1>13, ReadsOne
<1>14. ~InboxIs(<<>>)
  BY <1>1, Received DEF InboxIs
<1> QED
  BY <1>9, <1>10, <1>11, <1>12, <1>13, <1>14 DEF InTask

LEMMA ReceiveConversation == ASSUME Grounds, Conversation, Receive PROVE Conversation'
<1>1. CASE InTask /\ ReportsInTask
  BY <1>1, ReceiveInTask DEF Conversation
<1> QED
  BY <1>1, ReceiveBetweenTasks, ReceiveAfterMission, ReceiveWhenVerdictDue DEF Conversation

-----------------------------------------------------------------------------
(* The moderator.                                                          *)

\* Nothing of the robot changes, so where it is in the task depends on the
\* moderator alone.
LEMMA NodeStays ==
  ASSUME UNCHANGED node
  PROVE  /\ UNCHANGED <<step, started, finished, failed, pickCmd, cleanCmd, heard>>
         /\ UNCHANGED <<pickCue, placeCue, target, dest>>
BY DEF node, told, cues

LEMMA Appended ==
  ASSUME ChannelsOK, NEW x, inbox' = Append(inbox, x)
  PROVE  /\ Len(inbox) \in Nat /\ Len(inbox') = Len(inbox) + 1
         /\ inbox'[Len(inbox) + 1] = x
         /\ \A i \in 1 .. Len(inbox) : inbox'[i] = inbox[i]
BY DEF ChannelsOK

LEMMA OneMore ==
  ASSUME ChannelsOK, NEW x, inbox' = Append(inbox, x), NEW a, NEW b
  PROVE  /\ InboxIs(<<>>) => InboxIs(<<x.m>>)'
         /\ InboxIs(<<a>>) => InboxIs(<<a, x.m>>)'
         /\ InboxIs(<<a, b>>) => InboxIs(<<a, b, x.m>>)'
<1>1. ASSUME InboxIs(<<>>) PROVE InboxIs(<<x.m>>)'
  BY <1>1, Appended DEF InboxIs
<1>2. ASSUME InboxIs(<<a>>) PROVE InboxIs(<<a, x.m>>)'
  <2>1. Len(inbox) = 1 /\ inbox[1].m = a
    BY <1>2 DEF InboxIs
  <2>2. Len(inbox') = 2 /\ inbox'[1] = inbox[1] /\ inbox'[2] = x
    BY <2>1, Appended
  <2> QED
    BY <2>1, <2>2 DEF InboxIs
<1>3. ASSUME InboxIs(<<a, b>>) PROVE InboxIs(<<a, b, x.m>>)'
  <2>1. Len(inbox) = 2 /\ inbox[1].m = a /\ inbox[2].m = b
    BY <1>3 DEF InboxIs
  <2>2. Len(inbox') = 3 /\ inbox'[1] = inbox[1] /\ inbox'[2] = inbox[2] /\ inbox'[3] = x
    BY <2>1, Appended
  <2> QED
    BY <2>1, <2>2 DEF InboxIs
<1> QED
  BY <1>1, <1>2, <1>3

LEMMA AskAgainConversation ==
  ASSUME Grounds, Conversation, AskAgain PROVE Conversation'
<1>1. phase = "waiting" /\ InboxIs(<<>>)
  BY DEF AskAgain, InboxIs
<1>2. ~VerdictDue /\ ~MissionOver /\ ~InTask
  BY <1>1 DEF VerdictDue, MissionOver, InTask, InboxIs
<1>3. BetweenTasks
  BY <1>2 DEF Conversation
<1>4. InboxIs(<<"Are_you_ready?">>)'
  BY DEF AskAgain, InboxIs, Message
<1>5. BetweenTasks'
  BY <1>3, <1>4, NodeStays DEF AskAgain, moderator, BetweenTasks, Answered, Said
<1> QED
  BY <1>5 DEF Conversation

LEMMA PointAtPlaceConversation ==
  ASSUME Grounds, Conversation, PointAtPlace PROVE Conversation'
<1>1. phase = "pointing" /\ phase' = "pointed" /\ UNCHANGED <<outbox, task, repeats>>
  BY DEF PointAtPlace
<1>2. InTask /\ ReportsInTask
  BY <1>1 DEF Conversation, BetweenTasks, MissionOver, VerdictDue
<1>3. /\ Len(inbox) \in Nat /\ Len(inbox') = Len(inbox) + 1
      /\ inbox'[Len(inbox) + 1] = Message("Clean_up!")
      /\ \A i \in 1 .. Len(inbox) : inbox'[i] = inbox[i]
  BY Appended DEF PointAtPlace, Grounds
<1>4. UNCHANGED <<step, finished, failed, pickCmd, cleanCmd, started, heard, pickCue>>
      /\ Pointing' = Pointing
  BY <1>1, NodeStays DEF PointAtPlace, Pointing
<1>5. \A i \in 1 .. Len(inbox') :
         inbox'[i].m \in {"Pick_it_up!", "Clean_up!"} => inbox'[i].at = Pointing'
  BY <1>2, <1>3, <1>4 DEF InTask, Message
<1>6. Message("Clean_up!").m = "Clean_up!" /\ inbox' = Append(inbox, Message("Clean_up!"))
  BY DEF Message, PointAtPlace
<1>7. /\ InboxIs(<<>>) => InboxIs(<<"Clean_up!">>)'
      /\ InboxIs(<<"Pick_it_up!">>) => InboxIs(<<"Pick_it_up!", "Clean_up!">>)'
      /\ InboxIs(<<"Are_you_ready?", "Pick_it_up!">>)
           => InboxIs(<<"Are_you_ready?", "Pick_it_up!", "Clean_up!">>)'
  BY <1>6, OneMore DEF Grounds
<1>8. (PickAhead => PickAhead') /\ (PickKnown => PickKnown')
  BY <1>1, <1>4 DEF PickAhead, Answered, PickKnown
<1>9. InTask'
  BY <1>1, <1>2, <1>4, <1>5, <1>7, <1>8 DEF InTask
<1>10. ReportsInTask'
  BY <1>1, <1>2, <1>4 DEF ReportsInTask, Said
<1> QED
  BY <1>9, <1>10 DEF Conversation

\* What comes after a verdict.
Then == IF phase = "waiting" THEN "Are_you_ready?" ELSE "Mission_complete"

LEMMA VerdictGiven ==
  ASSUME Grounds, NEW m, Verdict(m)
  PROVE  /\ phase' \in {"waiting", "over"}
         /\ InboxIs(<<>>) => InboxIs(<<m, Then>>)'
         /\ InboxIs(<<"Clean_up!">>) => InboxIs(<<"Clean_up!", m, Then>>)'
<1>1. inbox \in Seq(Messages)
  BY DEF Grounds, ChannelsOK
<1>2. PICK x, y : /\ inbox' = inbox \o <<x, y>> /\ x.m = m /\ y.m = Then'
                  /\ phase' \in {"waiting", "over"}
  <2>1. CASE task < NTasks
    <3> DEFINE n == [m |-> "Are_you_ready?", at |-> [task |-> task + 1, round |-> 0]]
    <3>1. inbox' = inbox \o <<Message(m), n>> /\ phase' = "waiting"
      BY <2>1 DEF Verdict
    <3>2. Message(m).m = m /\ n.m = Then'
      BY <3>1 DEF Message, Then
    <3> QED
      BY <3>1, <3>2
  <2>2. CASE ~(task < NTasks)
    <3>1. inbox' = inbox \o <<Message(m), Message("Mission_complete")>> /\ phase' = "over"
      BY <2>2 DEF Verdict
    <3>2. Message(m).m = m /\ Message("Mission_complete").m = Then'
      BY <3>1 DEF Message, Then
    <3> QED
      BY <3>1, <3>2
  <2> QED
    BY <2>1, <2>2
<1>3. /\ Len(inbox) \in Nat /\ Len(inbox') = Len(inbox) + 2
      /\ inbox'[Len(inbox) + 1] = x /\ inbox'[Len(inbox) + 2] = y
      /\ \A i \in 1 .. Len(inbox) : inbox'[i] = inbox[i]
  BY <1>1, <1>2
<1>4. ASSUME InboxIs(<<>>) PROVE InboxIs(<<m, Then>>)'
  <2>1. Len(inbox) = 0
    BY <1>4 DEF InboxIs
  <2> QED
    BY <1>2, <1>3, <2>1 DEF InboxIs
<1>5. ASSUME InboxIs(<<"Clean_up!">>) PROVE InboxIs(<<"Clean_up!", m, Then>>)'
  <2>1. Len(inbox) = 1 /\ inbox[1].m = "Clean_up!"
    BY <1>5 DEF InboxIs
  <2>2. Len(inbox') = 3 /\ inbox'[1] = inbox[1] /\ inbox'[2] = x /\ inbox'[3] = y
    BY <1>3, <2>1
  <2> QED
    BY <1>2, <2>1, <2>2 DEF InboxIs
<1> QED
  BY <1>2, <1>4, <1>5

LEMMA VerdictInTime ==
  ASSUME Grounds, NEW m, Verdict(m), UNCHANGED node, outbox' = <<>>,
         ~failed, step # "Shutdown",
         \/ /\ m = "Task_failed" /\ InboxIs(<<>>) /\ (finished => step = "Initialize")
         \/ /\ m \in {"Task_succeeded", "Task_failed"} /\ InboxIs(<<>>)
            /\ ~finished /\ step = "WaitForResult"
         \/ /\ m = "Task_failed" /\ InboxIs(<<"Clean_up!">>)
            /\ ~finished /\ step = "WaitForResult"
  PROVE  Conversation'
<1>1. ~Said("I_am_ready")'
  BY DEF Said
<1>2. /\ phase' \in {"waiting", "over"}
      /\ InboxIs(<<>>) => InboxIs(<<m, Then>>)'
      /\ InboxIs(<<"Clean_up!">>) => InboxIs(<<"Clean_up!", m, Then>>)'
  BY VerdictGiven
<1>3. VerdictDue'
  BY <1>1, <1>2, NodeStays DEF VerdictDue, Then
<1> QED
  BY <1>3 DEF Conversation

LEMMA TimeUpConversation ==
  ASSUME Grounds, Conversation, TimeUp PROVE Conversation'
<1>1. /\ Verdict("Task_failed") /\ UNCHANGED node /\ outbox' = <<>>
      /\ outbox = <<>> /\ InboxIs(<<>>) /\ phase # "over"
  BY DEF TimeUp, MinutePasses, InboxIs
<1>2. CASE BetweenTasks
  BY <1>1, <1>2, VerdictInTime DEF BetweenTasks
<1>3. CASE InTask /\ ReportsInTask
  <2>1. ~failed /\ ~finished /\ step # "Shutdown"
    BY <1>3 DEF InTask, PickAhead, PickKnown, BothKnown, AskedAgain, Answered, Acting, Bringing
  <2> QED
    BY <1>1, <2>1, VerdictInTime
<1>4. ~MissionOver /\ ~VerdictDue
  BY <1>1 DEF MissionOver, VerdictDue, InboxIs
<1> QED
  BY <1>2, <1>3, <1>4 DEF Conversation

-----------------------------------------------------------------------------
(* The moderator reads a report.                                           *)

LEMMA ReadsReport ==
  ASSUME Grounds, Judge
  PROVE  /\ Len(outbox) \in Nat \ {0} /\ Len(outbox') = Len(outbox) - 1
         /\ Head(outbox) = outbox[1] /\ outbox[1] \in Reports
         /\ \A i \in 1 .. Len(outbox) - 1 : outbox'[i] = outbox[i + 1]
         /\ Said(outbox[1])
         /\ \A m : Said(m) /\ m # outbox[1] => Said(m)'
         /\ \A m : Said(m)' => Said(m)
         /\ UNCHANGED node
<1>1. outbox \in Seq(Reports) /\ outbox # <<>> /\ outbox' = Tail(outbox)
  BY DEF Judge, Grounds, ChannelsOK
<1>2. Len(outbox) \in Nat \ {0} /\ outbox[1] \in Reports
  BY <1>1, EmptySeq, ElementOfSeq
<1>3. Head(outbox) = outbox[1]
  BY <1>1
<1>4. Len(outbox') = Len(outbox) - 1
      /\ \A i \in 1 .. Len(outbox) - 1 : outbox'[i] = outbox[i + 1]
  BY <1>1, HeadTailProperties
<1>5. Said(outbox[1])
  BY <1>2 DEF Said
<1>6. ASSUME NEW m, Said(m), m # outbox[1] PROVE Said(m)'
  <2>1. PICK i \in 1 .. Len(outbox) : outbox[i] = m
    BY <1>6 DEF Said
  <2>2. i - 1 \in 1 .. Len(outbox') /\ outbox'[i - 1] = outbox[i]
    BY <1>2, <1>4, <1>6, <2>1
  <2> QED
    BY <2>1, <2>2 DEF Said
<1>7. ASSUME NEW m, Said(m)' PROVE Said(m)
  <2>1. PICK i \in 1 .. Len(outbox') : outbox'[i] = m
    BY <1>7 DEF Said
  <2>2. i + 1 \in 1 .. Len(outbox) /\ outbox'[i] = outbox[i + 1]
    BY <1>2, <1>4, <2>1
  <2> QED
    BY <2>1, <2>2 DEF Said
<1> QED
  BY <1>1, <1>2, <1>3, <1>4, <1>5, <1>6, <1>7 DEF Judge

\* What Judge does with the report, by what the report says.
LEMMA Judged ==
  ASSUME Grounds, Judge
  PROVE  \/ outbox[1] = "I_am_ready" /\ phase = "waiting" /\ PointAtObject(0)
         \/ /\ outbox[1] = "Point_it_again" /\ phase = "pointed" /\ repeats < MaxRepeats
            /\ PointAtObject(repeats + 1)
         \/ /\ outbox[1] = "Object_grasped" /\ phase = "pointed" /\ phase' = "grasped"
            /\ UNCHANGED <<inbox, task, repeats>>
         \/ /\ outbox[1] = "Task_finished" /\ phase = "grasped"
            /\ Verdict("Task_succeeded") \/ Verdict("Task_failed")
         \/ /\ outbox[1] = "Give_up" /\ phase \notin {"waiting", "over"}
            /\ Verdict("Task_failed")
         \/ ~Expected(outbox[1]) /\ UNCHANGED <<inbox, moderator>>
<1>1. Head(outbox) = outbox[1]
  BY ReadsReport
<1> QED
  BY <1>1 DEF Judge, Expected

LEMMA JudgeBetweenTasks == ASSUME Grounds, BetweenTasks, Judge PROVE Conversation'
<1>1. /\ Len(outbox) \in Nat \ {0} /\ Len(outbox') = Len(outbox) - 1
      /\ \A i \in 1 .. Len(outbox) - 1 : outbox'[i] = outbox[i + 1]
      /\ UNCHANGED node
  BY ReadsReport
<1>2. UNCHANGED <<step, started, finished, failed, pickCmd, cleanCmd, heard>>
  BY <1>1, NodeStays
<1>3. CASE outbox[1] = "I_am_ready" /\ PointAtObject(0)
  <2>1. \A i \in 1 .. Len(outbox) : outbox[i] = "I_am_ready"
    BY <1>1, <1>3 DEF BetweenTasks
  <2>2. Answered /\ ~finished /\ ~failed
    BY <1>1, <2>1 DEF BetweenTasks, Said
  <2>3. PickAhead'
    BY <1>2, <2>2 DEF PickAhead, Answered
  <2> DEFINE x == [m |-> "Pick_it_up!", at |-> [task |-> task, round |-> 0]]
  <2>4. /\ inbox' = Append(inbox, x) /\ x.m = "Pick_it_up!"
        /\ phase' = "pointing" /\ x.at = Pointing'
    BY <1>3 DEF PointAtObject, Pointing
  <2> HIDE DEF x
  <2>5. \/ InboxIs(<<"Are_you_ready?", "Pick_it_up!">>)'
        \/ InboxIs(<<"Pick_it_up!">>)'
    BY <2>4, OneMore DEF BetweenTasks, Grounds
  <2>6. \A i \in 1 .. Len(inbox') :
           inbox'[i].m \in {"Pick_it_up!", "Clean_up!"} => inbox'[i].at = Pointing'
    <3>1. \A i \in 1 .. Len(inbox) : inbox[i].m = "Are_you_ready?"
      BY DEF BetweenTasks, InboxIs
    <3> QED
      BY <2>4, <3>1, Appended DEF Grounds
  <2>7. InTask'
    BY <1>2, <2>2, <2>3, <2>4, <2>5, <2>6 DEF InTask
  <2>8. \A i \in 1 .. Len(outbox') : outbox'[i] = "I_am_ready"
    BY <1>1, <2>1
  <2>9. step' \notin Bringing \cup {"WaitForResult"}
    BY <1>2, <2>2 DEF Answered, Bringing
  <2>10. ReportsInTask'
    BY <2>8, <2>9 DEF ReportsInTask, Said
  <2> QED
    BY <2>7, <2>10 DEF Conversation
<1>4. CASE outbox[1] # "I_am_ready" /\ UNCHANGED <<inbox, moderator>>
  <2>1. Said("I_am_ready")' => Said("I_am_ready")
    BY <1>1 DEF Said
  <2>2. \A i, j \in 1 .. Len(outbox') :
           i < j /\ outbox'[i] = "I_am_ready" => outbox'[j] = "I_am_ready"
    BY <1>1 DEF BetweenTasks
  <2>3. ASSUME outbox[Len(outbox)] = "I_am_ready"
        PROVE  outbox' # <<>> /\ outbox'[Len(outbox')] = "I_am_ready"
    <3>1. Len(outbox) > 1
      BY <1>1, <1>4, <2>3
    <3> QED
      BY <1>1, <2>3, <3>1
  <2>4. Answered => Answered'
    BY <1>2 DEF Answered
  <2>5. InboxIs(<<>>)' \/ InboxIs(<<"Are_you_ready?">>)'
    BY <1>4 DEF BetweenTasks, InboxIs
  <2>6. BetweenTasks'
    BY <1>2, <1>4, <2>1, <2>2, <2>3, <2>4, <2>5 DEF BetweenTasks, moderator
  <2> QED
    BY <2>6 DEF Conversation
<1> QED
  BY <1>3, <1>4, Judged DEF BetweenTasks, Expected

LEMMA JudgeAfterMission == ASSUME Grounds, MissionOver, Judge PROVE Conversation'
<1>1. UNCHANGED <<inbox, moderator>>
  BY Judged DEF MissionOver
<1>2. UNCHANGED <<step, started, failed>>
  BY ReadsReport, NodeStays
<1> QED
  BY <1>1, <1>2 DEF MissionOver, InboxIs, moderator, Conversation

LEMMA JudgeWhenVerdictDue == ASSUME Grounds, VerdictDue, Judge PROVE Conversation'
<1>1. /\ Len(outbox) \in Nat \ {0} /\ Len(outbox') = Len(outbox) - 1
      /\ \A i \in 1 .. Len(outbox) - 1 : outbox'[i] = outbox[i + 1]
  BY ReadsReport
<1>2. \A i \in 1 .. Len(outbox) : outbox[i] # "I_am_ready"
  BY DEF VerdictDue, Said
<1>3. ~Said("I_am_ready")'
  BY <1>1, <1>2 DEF Said
<1>4. UNCHANGED <<inbox, moderator>>
  BY <1>1, <1>2, Judged DEF VerdictDue
<1>5. UNCHANGED <<step, finished, failed, heard>>
  BY ReadsReport, NodeStays
<1>6. VerdictDue'
  BY <1>3, <1>4, <1>5 DEF VerdictDue, InboxIs, moderator
<1> QED
  BY <1>6 DEF Conversation

\* A report that the moderator does not expect, and the answer to a question
\* that it no longer asks.
LEMMA ReportIgnored ==
  ASSUME Grounds, InTask, ReportsInTask, Judge, UNCHANGED <<inbox, moderator>>,
         outbox[1] \in {"I_am_ready", "Point_it_again"}
  PROVE  (InTask /\ ReportsInTask)'
<1>1. /\ Len(outbox) \in Nat \ {0} /\ Len(outbox') = Len(outbox) - 1
      /\ \A i \in 1 .. Len(outbox) - 1 : outbox'[i] = outbox[i + 1]
      /\ UNCHANGED node
  BY ReadsReport
<1>2. /\ UNCHANGED <<step, started, finished, failed, pickCmd, cleanCmd, heard>>
      /\ UNCHANGED <<pickCue, placeCue, target, dest>> /\ UNCHANGED <<task, phase, repeats>>
      /\ Pointing' = Pointing
  BY <1>1, NodeStays DEF moderator, Pointing
<1>3. (PickAhead => PickAhead') /\ (PickKnown => PickKnown')
      /\ (BothKnown => BothKnown') /\ (AskedAgain => AskedAgain')
  BY <1>2 DEF PickAhead, PickKnown, BothKnown, AskedAgain, Answered
<1>4. InTask'
  BY <1>2, <1>3 DEF InTask, InboxIs
<1>5. \A m : m \notin {"I_am_ready", "Point_it_again"} /\ Said(m) => Said(m)'
  BY ReadsReport
<1>6. \A m : Said(m)' => Said(m)
  BY ReadsReport
<1>7. ASSUME NEW i \in 1 .. Len(outbox')
      PROVE  /\ outbox'[i] \in {"Task_finished", "Give_up"} =>
                  i = Len(outbox') /\ step = "WaitForResult"
             /\ outbox'[i] = "Task_finished" =>
                  phase = "grasped" \/ \E j \in 1 .. i - 1 : outbox'[j] = "Object_grasped"
             /\ \A j \in 1 .. Len(outbox') :
                  outbox'[i] \in {"Point_it_again", "Object_grasped"} /\ outbox'[j] = outbox'[i]
                    => i = j
  <2>1. i + 1 \in 1 .. Len(outbox) /\ outbox'[i] = outbox[i + 1]
    BY <1>1
  <2>2. outbox'[i] \in {"Task_finished", "Give_up"} =>
             i = Len(outbox') /\ step = "WaitForResult"
    BY <1>1, <2>1 DEF ReportsInTask
  <2>3. ASSUME outbox'[i] = "Task_finished", phase # "grasped"
        PROVE  \E j \in 1 .. i - 1 : outbox'[j] = "Object_grasped"
    <3>1. (i + 1) - 1 = i
      OBVIOUS
    <3>2. PICK j \in 1 .. i : outbox[j] = "Object_grasped"
      BY <2>1, <2>3, <3>1 DEF ReportsInTask
    <3>3. j # 1 /\ j - 1 \in 1 .. i - 1 /\ outbox'[j - 1] = outbox[j]
      BY <1>1, <3>2
    <3> QED
      BY <3>2, <3>3
  <2>4. ASSUME NEW j \in 1 .. Len(outbox'),
               outbox'[i] \in {"Point_it_again", "Object_grasped"}, outbox'[j] = outbox'[i]
        PROVE  i = j
    <3>1. j + 1 \in 1 .. Len(outbox) /\ outbox'[j] = outbox[j + 1]
      BY <1>1
    <3>2. i + 1 = j + 1
      BY <2>1, <2>4, <3>1 DEF ReportsInTask
    <3> QED
      BY <3>2
  <2> QED
    BY <2>2, <2>3, <2>4
<1>8. ReportsInTask'
  BY <1>2, <1>3, <1>5, <1>6, <1>7 DEF ReportsInTask, InboxIs
<1> QED
  BY <1>4, <1>8

\* In the middle of a task, what is said next is what the moderator expects.
LEMMA ExpectedInTask ==
  ASSUME Grounds, InTask, ReportsInTask, outbox # <<>>
  PROVE  \/ Expected(outbox[1]) \/ outbox[1] = "I_am_ready"
         \/ outbox[1] = "Point_it_again" /\ repeats = MaxRepeats
<1>1. Len(outbox) \in Nat \ {0} /\ outbox[1] \in Reports
  BY EmptySeq, ElementOfSeq DEF Grounds, ChannelsOK
<1>2. 1 \in 1 .. Len(outbox) /\ 1 .. 1 - 1 = {} /\ Said(outbox[1])
  BY <1>1 DEF Said
<1>3. phase \in {"pointing", "pointed", "grasped"} /\ repeats \in 0 .. MaxRepeats
  BY DEF InTask, Grounds, StateTyped
<1>4. CASE outbox[1] = "Point_it_again"
  BY <1>2, <1>3, <1>4, CleanupAssumption DEF ReportsInTask, Expected
<1>5. CASE outbox[1] = "Object_grasped"
  BY <1>2, <1>5 DEF ReportsInTask, Expected
<1>6. CASE outbox[1] = "Task_finished"
  <2>1. phase = "grasped"
    BY <1>2, <1>6 DEF ReportsInTask
  <2> QED
    BY <1>6, <2>1 DEF Expected
<1>7. CASE outbox[1] = "Give_up"
  BY <1>3, <1>7 DEF Expected
<1> QED
  BY <1>1, <1>4, <1>5, <1>6, <1>7 DEF Reports

LEMMA JudgeInTask == ASSUME Grounds, InTask, ReportsInTask, Judge PROVE Conversation'
<1>1. /\ Len(outbox) \in Nat \ {0} /\ Len(outbox') = Len(outbox) - 1
      /\ outbox[1] \in Reports /\ outbox' = Tail(outbox) /\ outbox \in Seq(Reports)
      /\ \A i \in 1 .. Len(outbox) - 1 : outbox'[i] = outbox[i + 1]
      /\ Said(outbox[1]) /\ UNCHANGED node
  BY ReadsReport DEF Judge, Grounds, ChannelsOK
<1>2. /\ UNCHANGED <<step, started, finished, failed, pickCmd, cleanCmd, heard>>
      /\ UNCHANGED <<pickCue, placeCue, target, dest>>
  BY <1>1, NodeStays
<1>3. phase \in {"pointing", "pointed", "grasped"} /\ ~failed /\ ~finished
  BY DEF InTask
<1>4. CASE outbox[1] \in {"I_am_ready", "Point_it_again"} /\ UNCHANGED <<inbox, moderator>>
  BY <1>4, ReportIgnored DEF Conversation
<1>5. CASE outbox[1] = "Point_it_again" /\ PointAtObject(repeats + 1)
  <2>1. phase = "pointed" /\ InboxIs(<<>>) /\ AskedAgain
    BY <1>1, <1>5 DEF ReportsInTask
  <2>2. repeats \in Nat
    BY DEF Grounds, StateTyped
  <2>3. step \notin Bringing \cup {"WaitForResult"}
    BY <2>1 DEF AskedAgain, Bringing
  <2>4. PickAhead'
    BY <1>2, <1>5, <2>1, <2>2 DEF AskedAgain, PickAhead, Answered, PointAtObject
  <2> DEFINE x == [m |-> "Pick_it_up!", at |-> [task |-> task, round |-> repeats + 1]]
  <2>5. /\ inbox' = Append(inbox, x) /\ x.m = "Pick_it_up!"
        /\ phase' = "pointing" /\ x.at = Pointing'
    BY <1>5 DEF PointAtObject, Pointing
  <2> HIDE DEF x
  <2>6. InboxIs(<<"Pick_it_up!">>)'
    BY <2>1, <2>5, OneMore DEF Grounds
  <2>7. \A i \in 1 .. Len(inbox') :
           inbox'[i].m \in {"Pick_it_up!", "Clean_up!"} => inbox'[i].at = Pointing'
    BY <2>1, <2>5, Appended DEF Grounds, InboxIs
  <2>8. InTask'
    BY <1>2, <1>3, <2>4, <2>5, <2>6, <2>7 DEF InTask
  <2>9. \A i \in 1 .. Len(outbox) : i # 1 =>
           outbox[i] \notin {"Point_it_again", "Object_grasped", "Task_finished", "Give_up"}
    <3>1. ~Said("Object_grasped")
      BY <2>3 DEF ReportsInTask
    <3>2. ASSUME NEW i \in 1 .. Len(outbox), i # 1 PROVE outbox[i] # "Point_it_again"
      <4>1. 1 \in 1 .. Len(outbox) /\ outbox[1] = "Point_it_again"
        BY <1>1, <1>5
      <4> QED
        BY <3>2, <4>1 DEF ReportsInTask
    <3> QED
      BY <2>3, <3>1, <3>2 DEF ReportsInTask, Said
  <2>10. \A i \in 1 .. Len(outbox') :
            outbox'[i] \notin {"Point_it_again", "Object_grasped", "Task_finished", "Give_up"}
    BY <1>1, <2>9
  <2>11. ReportsInTask'
    BY <1>2, <2>3, <2>10 DEF ReportsInTask, Said
  <2> QED
    BY <2>8, <2>11 DEF Conversation
<1>6. CASE outbox[1] = "Object_grasped" /\ phase' = "grasped" /\ UNCHANGED <<inbox, task, repeats>>
  <2>1. /\ phase = "pointed" /\ InboxIs(<<>>) /\ step \in Bringing \cup {"WaitForResult"}
    BY <1>1, <1>6 DEF ReportsInTask
  <2>2. step \in Bringing => target.task = task /\ dest = Pointing
    BY BringingInTask
  <2>3. Pointing' = Pointing /\ InboxIs(<<>>)'
    BY <1>6, <2>1 DEF Pointing, InboxIs
  <2>4. InTask'
    BY <1>2, <1>3, <1>6, <2>1, <2>2, <2>3 DEF InTask, InboxIs
  <2>5. ~AskedAgain
    BY <2>1 DEF AskedAgain, Bringing
  <2>6. \A i \in 1 .. Len(outbox) : i # 1 => outbox[i] \notin {"Point_it_again", "Object_grasped"}
    <3>1. ~Said("Point_it_again")
      BY <2>5 DEF ReportsInTask
    <3>2. ASSUME NEW i \in 1 .. Len(outbox), i # 1 PROVE outbox[i] # "Object_grasped"
      <4>1. 1 \in 1 .. Len(outbox) /\ outbox[1] = "Object_grasped"
        BY <1>1, <1>6
      <4> QED
        BY <3>2, <4>1 DEF ReportsInTask
    <3> QED
      BY <3>1, <3>2 DEF Said
  <2>7. \A i \in 1 .. Len(outbox') : outbox'[i] \notin {"Point_it_again", "Object_grasped"}
    BY <1>1, <2>6
  <2>8. step = "WaitForResult" => Said("Task_finished")' \/ Said("Give_up")'
    BY <1>6, ReadsReport DEF ReportsInTask
  <2>9. \A i \in 1 .. Len(outbox') :
           outbox'[i] \in {"Task_finished", "Give_up"} => i = Len(outbox') /\ step = "WaitForResult"
    <3>1. ASSUME NEW i \in 1 .. Len(outbox')
          PROVE  i + 1 \in 1 .. Len(outbox) /\ outbox'[i] = outbox[i + 1]
      BY <1>1
    <3>2. ASSUME NEW i \in 1 .. Len(outbox'), outbox'[i] \in {"Task_finished", "Give_up"}
          PROVE  i = Len(outbox') /\ step = "WaitForResult"
      <4>1. i + 1 = Len(outbox) /\ step = "WaitForResult"
        BY <3>1, <3>2 DEF ReportsInTask
      <4>2. Len(outbox') = Len(outbox) - 1 /\ i \in Nat
        BY <1>1
      <4> QED
        BY <4>1, <4>2
    <3> QED
      BY <3>2
  <2>10. ReportsInTask'
    BY <1>2, <1>6, <2>7, <2>8, <2>9 DEF ReportsInTask, Said
  <2> QED
    BY <2>4, <2>10 DEF Conversation
<1>7. ASSUME outbox[1] \in {"Task_finished", "Give_up"}
      PROVE  /\ outbox' = <<>> /\ step = "WaitForResult"
             /\ outbox[1] = "Task_finished" => phase = "grasped"
  <2>1. Len(outbox) = 1 /\ step = "WaitForResult"
        /\ (outbox[1] = "Task_finished" => phase = "grasped")
    <3>1. 1 \in 1 .. Len(outbox) /\ 1 .. 1 - 1 = {}
      BY <1>1
    <3> QED
      BY <1>7, <3>1 DEF ReportsInTask
  <2>2. outbox' = <<>>
    <3>1. Len(outbox') = 0
      BY <1>1, <2>1
    <3>2. outbox' \in Seq(Reports)
      BY ChannelsStayTyped DEF Grounds, ChannelsOK, Next
    <3> QED
      BY <3>1, <3>2, EmptySeq
  <2> QED
    BY <2>1, <2>2
<1>8. ASSUME step = "WaitForResult"
      PROVE  InboxIs(<<>>) \/ (phase = "pointed" /\ InboxIs(<<"Clean_up!">>))
  BY <1>8 DEF InTask, PickAhead, Answered
<1>9. CASE /\ outbox[1] = "Task_finished"
           /\ Verdict("Task_succeeded") \/ Verdict("Task_failed")
  BY <1>1, <1>3, <1>7, <1>8, <1>9, VerdictInTime
<1>10. CASE outbox[1] = "Give_up" /\ Verdict("Task_failed")
  BY <1>1, <1>3, <1>7, <1>8, <1>10, VerdictInTime
<1>11. Expected(outbox[1]) \/ outbox[1] \in {"I_am_ready", "Point_it_again"}
  BY <1>1, ExpectedInTask
<1> QED
  BY <1>3, <1>4, <1>5, <1>6, <1>9, <1>10, <1>11, Judged

LEMMA JudgeConversation == ASSUME Grounds, Conversation, Judge PROVE Conversation'
BY JudgeBetweenTasks, JudgeAfterMission, JudgeWhenVerdictDue, JudgeInTask DEF Conversation

-----------------------------------------------------------------------------
(* The invariant, and what follows from it.                                *)

LEMMA InitConversation == Init => ConversationInv
<1> SUFFICES ASSUME Init PROVE ConversationInv
  OBVIOUS
<1>1. inbox = <<[m |-> "Are_you_ready?", at |-> [task |-> 1, round |-> 0]]>> /\ outbox = <<>>
  BY DEF Init, Message, Pointing
<1>2. FlagsTyped
  BY DEF Init, FlagsTyped
<1>3. StateTyped
  BY CleanupAssumption
     DEF Init, StateTyped, Steps, Seen, Tasks, MAX_POINT_AGAIN, MAX_GRASP_RETRIES
<1>4. ChannelsOK
  BY <1>1, CleanupAssumption DEF ChannelsOK, Messages, Orders, Pointings, Tasks
<1>5. StepHasItsCues
  BY DEF Init, StepHasItsCues, Acting
<1>6. BetweenTasks
  BY <1>1 DEF Init, BetweenTasks, InboxIs, Said
<1> QED
  BY <1>2, <1>3, <1>4, <1>5, <1>6, InvParts DEF Grounds, Conversation

LEMMA NextConversation == ASSUME ConversationInv, [Next]_vars PROVE ConversationInv'
<1>1. Grounds /\ Conversation
  BY InvParts
<1>2. Grounds'
  BY <1>1, GroundsHold
<1>3. Conversation'
  <2>1. CASE Pass
    BY <1>1, <2>1, PassConversation
  <2>2. CASE Idle
    BY <1>1, <2>2, IdleConversation
  <2>3. CASE Receive
    BY <1>1, <2>3, ReceiveConversation
  <2>4. CASE AskAgain \/ PointAtPlace \/ TimeUp \/ Judge
    BY <1>1, <2>4, AskAgainConversation, PointAtPlaceConversation, TimeUpConversation,
       JudgeConversation
  <2>5. ASSUME Observe \/ UNCHANGED vars PROVE UNCHANGED talk /\ UNCHANGED heard
    BY <2>5 DEF Observe, vars, talk, told, cues, moderator
  <2>6. ASSUME NEW g \in Slots, NavResult(g) \/ NavAccept(g) \/ NavFinish(g)
        PROVE  UNCHANGED talk /\ UNCHANGED heard
    BY <2>6 DEF NavResult, NavAccept, NavFinish, navFrame, talk, told, cues, moderator
  <2> QED
    BY <1>1, <2>1, <2>2, <2>3, <2>4, <2>5, <2>6, SameConversation DEF Next
<1> QED
  BY <1>2, <1>3, InvParts, PTL

\* Where the robot is in the conversation: in every reachable state the messages
\* under way, the flags of the node and the phase of the moderator fit together.
THEOREM Conversing == Spec => []ConversationInv
<1>1. Init => ConversationInv
  BY InitConversation
<1>2. ConversationInv /\ [Next]_vars => ConversationInv'
  BY NextConversation
<1> QED
  BY <1>1, <1>2, PTL DEF Spec

\* Every variable of the node, of its surroundings and of the moderator keeps
\* its type, whatever comes when.
THEOREM Typed == Spec => []TypeOK
<1>1. ConversationInv => TypeOK
  BY DEF ConversationInv
<1> QED
  BY <1>1, Conversing, PTL

LEMMA ActingOnTheLatest == ConversationInv => ActsOnLatestPointing
<1> SUFFICES ASSUME Conversation, step \in Acting, ~FailureUnderWay
             PROVE  dest = Pointing /\ target.task = task
  BY InvParts DEF ActsOnLatestPointing
<1>1. step \notin {"Initialize", "Ready", "WaitForPickTrackAvatar", "WaitForCleanTrackAvatar",
                   "ResolvePickTarget", "ResolvePlaceDestination", "WaitForResult", "Shutdown"}
  BY DEF Acting
<1>2. ~failed /\ \A i \in 1 .. Len(inbox) : inbox[i].m # "Task_failed"
  BY DEF FailureUnderWay
<1>3. ~VerdictDue
  BY <1>1, <1>2 DEF VerdictDue, InboxIs
<1>4. InTask
  BY <1>1, <1>3 DEF Conversation, BetweenTasks, MissionOver, Answered
<1> QED
  BY <1>1, <1>4 DEF InTask, PickAhead, PickKnown, BothKnown, AskedAgain, Answered

\* The robot acts on the place that the avatar pointed at last, and on an object
\* of the same task: no command, cue or latched target of an earlier pointing
\* outlives runStateMachine's reset() and the repeated pointings.
THEOREM ActingOnLatestPointing == Spec => []ActsOnLatestPointing
BY Conversing, ActingOnTheLatest, PTL

\* Only the node takes a message from the front of its queue.
LEMMA OnlyReceiveReads ==
  ASSUME ChannelsOK, [Next]_vars, Len(inbox') = Len(inbox) - 1
  PROVE  Receive
<1>1. Len(inbox) \in Nat /\ Len(inbox') = Len(inbox) - 1
  BY DEF ChannelsOK
<1>2. inbox' # inbox
  <2>1. Len(inbox') # Len(inbox)
    BY <1>1
  <2> QED
    BY <2>1
<1>3. ASSUME NEW x, inbox' = Append(inbox, x) PROVE FALSE
  <2>1. Len(inbox') = Len(inbox) + 1
    BY <1>3, Appended
  <2> QED
    BY <1>1, <2>1
<1>4. ASSUME NEW x, NEW y, inbox' = inbox \o <<x, y>> PROVE FALSE
  <2>1. inbox \in Seq(Messages)
    BY DEF ChannelsOK
  <2>2. Len(inbox') = Len(inbox) + 2
    BY <1>4, <2>1
  <2> QED
    BY <1>1, <2>2
<1>5. ~Pass /\ ~Idle /\ ~Observe /\ ~AskAgain /\ ~UNCHANGED vars
  BY <1>2 DEF Pass, Idle, Observe, AskAgain, vars
<1>6. \A g \in Slots : ~NavResult(g) /\ ~NavAccept(g) /\ ~NavFinish(g)
  BY <1>2 DEF NavResult, NavAccept, NavFinish, navFrame
<1>7. ~PointAtPlace /\ \A n : ~PointAtObject(n)
  BY <1>3 DEF PointAtPlace, PointAtObject
<1>8. \A m : ~Verdict(m)
  BY <1>4 DEF Verdict
<1>9. ~TimeUp /\ ~Judge
  BY <1>2, <1>7, <1>8 DEF TimeUp, Judge, moderator
<1> QED
  BY <1>5, <1>6, <1>7, <1>9 DEF Next

LEMMA CommandHeard ==
  ASSUME ConversationInv, Receive, inbox[1].m \in {"Pick_it_up!", "Clean_up!"}
  PROVE  \/ Accepts(inbox[1].m)
         \/ step \in {"WaitForResult", "Initialize"} \/ (step = "Ready" /\ ~started)
         \/ inbox[1].m = "Pick_it_up!" /\ step = "WaitForCleanTrackAvatar"
              /\ inbox[1].at.round > 0
<1>1. Grounds /\ Conversation /\ ~heard /\ Len(inbox) \in Nat \ {0}
  BY InvParts, Received DEF Grounds
<1>2. CASE BetweenTasks \/ MissionOver
  BY <1>1, <1>2 DEF BetweenTasks, MissionOver, InboxIs
<1>3. CASE VerdictDue
  BY <1>1, <1>3 DEF VerdictDue, InboxIs
<1>4. CASE InTask /\ ReportsInTask
  <2>1. 1 \in 1 .. Len(inbox) /\ ~InboxIs(<<>>)
    BY <1>1 DEF InboxIs
  <2>2. inbox[1].at.round = repeats
    BY <1>4, <2>1 DEF InTask, Pointing
  <2>3. \/ inbox[1].m = "Pick_it_up!" /\ PickAhead
        \/ inbox[1].m = "Clean_up!" /\ PickKnown
    BY <1>4, <2>1 DEF InTask, InboxIs
  <2> QED
    BY <1>1, <2>2, <2>3 DEF PickAhead, PickKnown, Answered, Accepts
<1> QED
  BY <1>1, <1>2, <1>3, <1>4 DEF Conversation

\* handleIncomingMessage drops a command of the avatar only when the robot has
\* given the task up, or when the object is pointed at again and the place is
\* all that the robot has lost.
THEOREM CommandsAreHeard == Spec => NoCommandLost
<1>1. ASSUME ConversationInv, [Next]_vars, inbox # <<>>, inbox' = Tail(inbox),
             Head(inbox).m \in {"Pick_it_up!", "Clean_up!"}
      PROVE  \/ Accepts(Head(inbox).m)
             \/ step \in {"WaitForResult", "Initialize"} \/ (step = "Ready" /\ ~started)
             \/ Head(inbox).m = "Pick_it_up!" /\ step = "WaitForCleanTrackAvatar"
                  /\ Head(inbox).at.round > 0
  <2>1. ChannelsOK
    BY <1>1 DEF ConversationInv
  <2>2. Receive
    BY <1>1, <2>1, Reading, OnlyReceiveReads
  <2>3. Head(inbox) = inbox[1]
    BY <1>1, <2>1, Reading
  <2> QED
    BY <1>1, <2>2, <2>3, CommandHeard
<1>2. ConversationInv /\ [Next]_vars =>
        [inbox # <<>> /\ inbox' = Tail(inbox) /\ Head(inbox).m \in {"Pick_it_up!", "Clean_up!"} =>
           \/ Accepts(Head(inbox).m)
           \/ step \in {"WaitForResult", "Initialize"} \/ (step = "Ready" /\ ~started)
           \/ Head(inbox).m = "Pick_it_up!" /\ step = "WaitForCleanTrackAvatar"
                /\ Head(inbox).at.round > 0]_vars
  BY <1>1
<1> QED
  BY <1>2, Conversing, PTL DEF Spec, NoCommandLost

\* What the robot reports in the middle of a task is what the moderator expects
\* next: grasps that are retried, pointings that are repeated and sessions that
\* are given up never make runStateMachine report a milestone twice or too late.
THEOREM ReportsComeInOrder == Spec => ReportsAreExpected
<1>1. ASSUME ConversationInv, outbox # <<>>, phase \notin {"waiting", "over"}
      PROVE  \/ Expected(Head(outbox))
             \/ Head(outbox) = "I_am_ready"
             \/ (Head(outbox) = "Point_it_again" /\ repeats = MaxRepeats)
  <2>1. Grounds /\ InTask /\ ReportsInTask
    BY <1>1, InvParts DEF Conversation, BetweenTasks, MissionOver, VerdictDue
  <2>2. Head(outbox) = outbox[1]
    BY <1>1, <2>1 DEF Grounds, ChannelsOK
  <2> QED
    BY <1>1, <2>1, <2>2, ExpectedInTask
<1>2. ConversationInv /\ [Next]_vars =>
        [outbox # <<>> /\ outbox' = Tail(outbox) /\ phase \notin {"waiting", "over"} =>
           \/ Expected(Head(outbox))
           \/ Head(outbox) = "I_am_ready"
           \/ (Head(outbox) = "Point_it_again" /\ repeats = MaxRepeats)]_vars
  BY <1>1
<1> QED
  BY <1>2, Conversing, PTL DEF Spec, ReportsAreExpected
=============================================================================
