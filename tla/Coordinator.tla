---------------------------- MODULE Coordinator ----------------------------
(***************************************************************************)
(* CoordinatorNode with its task state machine, its navigation executor    *)
(* (NavigationExecutor, extended here) and its two cancellation barriers:  *)
(* CancellationBarrier for the goals of its own executor and               *)
(* SearchCancellationBarrier for the external search execution.            *)
(*                                                                         *)
(* External: the moderator, which may send any competition message at any  *)
(* time, and the search execution, which starts a published request, stops *)
(* it once cancelled, and whose status messages may be delayed, repeated   *)
(* or lost: `statuses' holds every message ever sent and any of them may   *)
(* be received at any time, or never.                                      *)
(***************************************************************************)
EXTENDS NavigationExecutor, TaskStateMachine

CONSTANTS
  Requests,     \* search request ids; bounds the requests published
  SearchEnabled \* search_requests_enabled_

ASSUME CoordinatorAssumption ==
  Observed /\ ~SearchOwned /\ SearchEnabled \in BOOLEAN /\ None \notin Requests

VARIABLES
  state,         \* state_ of the task state machine
  environment,   \* task_.environment is not empty
  waiting,       \* CancellationBarrier::waiting_for_handle_
  unconfirmed,   \* CancellationBarrier::pending_
  navFault,      \* CancellationBarrier::fault_
  searchPending, \* SearchCancellationBarrier::pending_
  searchFault,   \* SearchCancellationBarrier::fault_
  cancelledTask, \* SearchCancellationBarrier::task_
  requestId,     \* search_request_id_
  published,     \* requests published so far
  search,        \* external: how far the execution of each request is
  statuses       \* external: execution_status messages sent so far

taskVars   == <<state, environment>>
navBarrier == <<waiting, unconfirmed, navFault>>
searchBarrier == <<searchPending, searchFault, cancelledTask>>
requestVars   == <<requestId, published>>
execution     == <<search, statuses>>
coordinator == <<taskVars, navBarrier, searchBarrier, requestVars>>
allVars == <<vars, coordinator, execution>>

StatusKinds == {"search_stop_requested", "search_worker_fault",
                "cancel_drained", "cancel_failed"}

CoordinatorTypeOK ==
  /\ TypeOK
  /\ state \in TaskStates /\ environment \in BOOLEAN
  /\ waiting \in BOOLEAN /\ unconfirmed \in SUBSET Goals /\ navFault \in BOOLEAN
  /\ searchPending \in BOOLEAN /\ searchFault \in BOOLEAN
  /\ cancelledTask \in Requests \cup {None}
  /\ requestId \in Requests \cup {None}
  /\ published \in SUBSET Requests
  /\ search \in [Requests -> {"idle", "running", "stopped"}]
  /\ statuses \in SUBSET (StatusKinds \X Requests)

\* The node after its constructor, which ends with bootCompleted.
CoordinatorInit ==
  /\ Init
  /\ state = After("bootCompleted", "kBooting") /\ environment = FALSE
  /\ waiting = FALSE /\ unconfirmed = {} /\ navFault = FALSE
  /\ searchPending = FALSE /\ searchFault = FALSE /\ cancelledTask = None
  /\ requestId = None /\ published = {}
  /\ search = [r \in Requests |-> "idle"] /\ statuses = {}

\* After Mission_complete the ROS context is shut down: no callback runs.
Running == state # "kFinished"

-----------------------------------------------------------------------------
(* The barriers.                                                           *)

NavBlocked    == waiting \/ navFault \/ unconfirmed # {}
SearchBlocked == searchPending \/ searchFault

\* Seeded fault: the search barrier is not consulted.
DispatchBlockedByGoals == NavBlocked

DispatchBlocked == SearchBlocked \/ NavBlocked

\* What the cancellation observer was told in this step, read off the change
\* of cancelling_goals_: a goal enters it with cancel_requested and leaves it
\* with cancel_confirmed or with one of the three faults.
CancelRequested == cancelling' \ cancelling
CancelOver      == cancelling \ cancelling'
CancelConfirmed == {g \in CancelOver : g \notin owned' /\ server[g] = "canceled"}

\* CancellationBarrier::event for each notice, after begin() if begun.
Notices(begun) ==
  /\ waiting' = ((waiting \/ begun) /\ CancelRequested = {})
  /\ unconfirmed' = (unconfirmed \cup CancelRequested) \ CancelConfirmed
  /\ navFault' = (navFault \/ \E g \in CancelOver \ CancelConfirmed : g \in unconfirmed)

\* invalidateSearchRequest does something.
Invalidates == SearchEnabled /\ requestId # None

\* invalidateSearchRequest, after latchFault if latched. The search barrier
\* is locked before the cancellation is published.
Invalidate(latched) ==
  IF Invalidates
  THEN /\ searchFault' = (searchFault \/ latched \/ searchPending)
       /\ cancelledTask' = IF searchPending THEN cancelledTask ELSE requestId
       /\ searchPending' = TRUE
       /\ requestId' = None
       /\ UNCHANGED published
  ELSE UNCHANGED <<searchBarrier, requestVars>>

\* publishSearchRequest when the barriers read as blocked says. Its returns for
\* a task without layout, room or search points cannot be taken: it is only
\* called when a room was reached or entered already, and a task with a room was
\* resolved against a catalog whose rooms all have points (TaskPlanning).
PublishSearchRequest(blocked) ==
  IF SearchEnabled /\ ~blocked /\ requestId = None
  THEN \E r \in Requests \ published :
         requestId' = r /\ published' = published \cup {r}
  ELSE UNCHANGED requestVars

-----------------------------------------------------------------------------
(* Navigation.                                                             *)

ExecutorIdle == UNCHANGED vars

\* stopNavigation: the barrier locks only when a plan is active; it is opened
\* again by the notice of the goal that is cancelled.
StopNavigation == OwnerCancel /\ Notices(active)

\* Seeded fault: a failed navigation is logged and not given up.
HandleOutcomeSilently ==
  IF outcome' = "reached" /\ Enabled("roomNavigationSucceeded", state)
  THEN /\ state' = "kSearchingObject"
       /\ PublishSearchRequest(SearchBlocked \/ NavBlocked')
       /\ UNCHANGED environment
  ELSE UNCHANGED <<taskVars, requestVars>>

\* handleNavigationOutcome for the outcome of an executor callback.
HandleOutcome ==
  CASE outcome' = "none" -> UNCHANGED <<taskVars, requestVars>>
    [] outcome' = "failed" ->
         state' = GaveUp(state) /\ UNCHANGED <<environment, requestVars>>
    [] outcome' = "reached" ->
         IF Enabled("roomNavigationSucceeded", state)
         THEN /\ state' = "kSearchingObject"
              /\ PublishSearchRequest(SearchBlocked \/ NavBlocked')
              /\ UNCHANGED environment
         ELSE UNCHANGED <<taskVars, requestVars>>

\* A callback of the executor, with the cancellation observer and the
\* completion it calls.
NavigationCallback ==
  /\ Running
  /\ Callback
  /\ Notices(FALSE)
  /\ HandleOutcome
  /\ UNCHANGED <<searchBarrier, execution>>

\* Seeded fault: a robot that already is in the room searches without a request.
StartRoomNavigationUnrequested ==
  /\ \/ Begin /\ state' = "kNavigatingToRoom"
     \/ AlreadyInside /\ state' = "kSearchingObject"
     \/ sealed /\ ExecutorIdle /\ state' = GaveUp("kNavigatingToRoom")
     \/ ~sealed /\ OwnerCancel /\ state' = GaveUp("kNavigatingToRoom")
  /\ UNCHANGED requestVars
  /\ Notices(FALSE)

\* startRoomNavigation with no barrier locked: a plan is begun, or the robot
\* already is in the room, or the executor refuses (sealed, or no valid plan).
StartRoomNavigation ==
  /\ \/ /\ Begin
        /\ state' = "kNavigatingToRoom" /\ UNCHANGED requestVars
     \/ /\ AlreadyInside
        /\ state' = "kSearchingObject" /\ PublishSearchRequest(FALSE)
     \/ /\ sealed /\ ExecutorIdle
        /\ state' = GaveUp("kNavigatingToRoom") /\ UNCHANGED requestVars
     \/ /\ ~sealed /\ OwnerCancel
        /\ state' = GaveUp("kNavigatingToRoom") /\ UNCHANGED requestVars
  /\ Notices(FALSE)

-----------------------------------------------------------------------------
(* Messages of the moderator (handleEvent).                                *)

Environment ==
  /\ Running /\ ~environment
  /\ environment' = TRUE
  /\ UNCHANGED <<vars, state, navBarrier, searchBarrier, requestVars, execution>>

AreYouReady ==
  /\ Running /\ ~DispatchBlocked
  /\ ReadyAccepted(state, environment)
  /\ state' = "kWaitingInstruction"
  /\ UNCHANGED <<vars, environment, navBarrier, searchBarrier, requestVars, execution>>

\* An instruction, corrected or not, that the task accepts. The active request
\* is invalidated and, for a correction, navigation stopped; then the text is
\* parsed and resolved. A start that a locked barrier refuses leaves the task
\* in kNavigatingToRoom.
Instruction(corrected) ==
  LET stops   == corrected /\ SearchEnabled
      blocked == DispatchBlocked \/ Invalidates \/ (stops /\ active)
      Stop    == IF stops THEN StopNavigation ELSE ExecutorIdle /\ UNCHANGED navBarrier
  IN
  /\ Running /\ InstructionAccepted(state, corrected)
  /\ \/ state' = "kRecovering" /\ Stop /\ Invalidate(FALSE)
     \/ blocked /\ state' = "kNavigatingToRoom" /\ Stop /\ Invalidate(FALSE)
     \/ ~blocked /\ StartRoomNavigation /\ UNCHANGED searchBarrier
  /\ UNCHANGED <<environment, execution>>

TaskSucceeded ==
  /\ Running
  /\ Invalidate(FALSE)
  /\ IF SuccessAccepted(state)
     THEN state' = "kWaitingReady" /\ environment' = FALSE
     ELSE UNCHANGED taskVars
  /\ UNCHANGED <<vars, navBarrier, execution>>

\* Seeded fault: Task_failed does not stop the navigation.
TaskFailedKeepsDriving ==
  /\ Running
  /\ Invalidate(FALSE)
  /\ FailureAccepted(state)
  /\ state' = "kWaitingReady" /\ environment' = FALSE
  /\ UNCHANGED <<vars, navBarrier, execution>>

\* Seeded fault: Task_failed does not cancel the search request.
TaskFailedKeepsSearch ==
  /\ Running
  /\ StopNavigation
  /\ FailureAccepted(state)
  /\ state' = "kWaitingReady" /\ environment' = FALSE
  /\ UNCHANGED <<searchBarrier, requestVars, execution>>

TaskFailed ==
  /\ Running
  /\ Invalidate(FALSE)
  /\ StopNavigation
  /\ IF FailureAccepted(state)
     THEN state' = "kWaitingReady" /\ environment' = FALSE
     ELSE UNCHANGED taskVars
  /\ UNCHANGED execution

MissionComplete ==
  /\ Running
  /\ Invalidate(FALSE)
  /\ StopNavigation
  /\ state' = "kFinished"
  /\ UNCHANGED <<environment, execution>>

-----------------------------------------------------------------------------
(* Messages of the search execution, and the deadline of a cancellation.   *)

SearchStopRequested(r) ==
  /\ Running /\ SearchEnabled
  /\ <<"search_stop_requested", r>> \in statuses /\ r = requestId
  /\ Invalidate(FALSE)
  /\ UNCHANGED <<vars, taskVars, navBarrier, execution>>

\* The fault is latched before the cancellation is published.
SearchWorkerFault(r) ==
  /\ Running /\ SearchEnabled
  /\ <<"search_worker_fault", r>> \in statuses /\ r = requestId
  /\ Invalidate(TRUE)
  /\ UNCHANGED <<vars, taskVars, navBarrier, execution>>

\* Seeded fault: a drained report clears a fault of the same cancellation.
SearchCancelStatusClears(kind, r) ==
  /\ Running /\ SearchEnabled
  /\ <<kind, r>> \in statuses
  /\ searchPending /\ r = cancelledTask
  /\ kind \in {"cancel_drained", "cancel_failed"}
  /\ searchPending' = (kind = "cancel_failed")
  /\ searchFault' = (kind = "cancel_failed")
  /\ UNCHANGED <<vars, taskVars, navBarrier, cancelledTask, requestVars, execution>>

\* SearchCancellationBarrier::event; cancel_received changes nothing.
SearchCancelStatus(kind, r) ==
  /\ Running /\ SearchEnabled
  /\ <<kind, r>> \in statuses
  /\ searchPending /\ r = cancelledTask
  /\ \/ /\ kind = "cancel_drained" /\ ~searchFault
        /\ searchPending' = FALSE /\ UNCHANGED searchFault
     \/ /\ kind = "cancel_failed"
        /\ searchFault' = TRUE /\ UNCHANGED searchPending
  /\ UNCHANGED <<vars, taskVars, navBarrier, cancelledTask, requestVars, execution>>

\* check: three seconds have passed. The code notices it on its next look at
\* the barrier, which no decision precedes.
SearchDeadline ==
  /\ Running /\ searchPending /\ ~searchFault
  /\ searchFault' = TRUE
  /\ UNCHANGED <<vars, taskVars, navBarrier, searchPending, cancelledTask,
                 requestVars, execution>>

-----------------------------------------------------------------------------
(* The search execution, external: what SearchSession (the runtime under   *)
(* training/scripts) shows to the coordinator.                             *)

Revoked(r) == r \in published /\ r # requestId

Tell(kind, r) == statuses' = statuses \cup {<<kind, r>>}

\* A request may be taken up late, even after its cancellation was published.
SearchStarts(r) ==
  /\ r \in published /\ search[r] = "idle"
  /\ search' = [search EXCEPT ![r] = "running"]
  /\ UNCHANGED <<vars, coordinator, statuses>>

\* The observation ended, or the worker broke down and may still be moving.
SearchReports(kind, r) ==
  /\ search[r] = "running"
  /\ kind \in {"search_stop_requested", "search_worker_fault"}
  /\ Tell(kind, r)
  /\ UNCHANGED <<vars, coordinator, search>>

\* The cancellation arrived: everything is drained and nothing will start.
SearchDrains(r) ==
  /\ Revoked(r) /\ search[r] # "stopped"
  /\ search' = [search EXCEPT ![r] = "stopped"]
  /\ Tell("cancel_drained", r)
  /\ UNCHANGED <<vars, coordinator>>

\* The cancellation arrived and the drain failed; a goal may still run.
SearchFails(r) ==
  /\ Revoked(r) /\ search[r] # "stopped"
  /\ Tell("cancel_failed", r)
  /\ UNCHANGED <<vars, coordinator, search>>

-----------------------------------------------------------------------------

ServerStep == Server /\ UNCHANGED <<coordinator, execution>>

Moderator ==
  \/ Environment \/ AreYouReady
  \/ \E corrected \in BOOLEAN : Instruction(corrected)
  \/ TaskSucceeded \/ TaskFailed \/ MissionComplete

SearchMessage ==
  \/ SearchDeadline
  \/ \E r \in Requests :
       \/ SearchStopRequested(r) \/ SearchWorkerFault(r)
       \/ \E kind \in StatusKinds : SearchCancelStatus(kind, r)

SearchExecution ==
  \E r \in Requests :
    \/ SearchStarts(r) \/ SearchDrains(r) \/ SearchFails(r)
    \/ \E kind \in StatusKinds : SearchReports(kind, r)

CoordinatorNext ==
  Moderator \/ SearchMessage \/ SearchExecution \/ NavigationCallback \/ ServerStep

CoordinatorSpec == CoordinatorInit /\ [][CoordinatorNext]_allVars

-----------------------------------------------------------------------------
(* Properties.                                                             *)

\* Goals of the coordinator that run or can still be accepted, and requests
\* that run or can still be taken up.
Driving   == {g \in Goals : InFlight(g) \/ Live(g)}
Searching == {r \in published : search[r] # "stopped"}

Drive == INSTANCE RobotDrive WITH driving <- Driving, searching <- Searching

\* The coordinator hands the robot over: it sends a goal only when no search
\* runs or can still start, and requests a search only when no goal of its own
\* runs or can still be accepted. All it has for that are the two barriers, the
\* notices of its executor and status messages that may be late or repeated.
HandsOver == Drive!Spec

\* Among the goals that run at the server at most one has not been asked to
\* cancel: a new task is never begun over the goal of an old one.
OneUncancelledGoal ==
  Cardinality({g \in Goals : server[g] = "executing" /\ cancel[g] = "none"}) <= 1

\* A barrier fault is final, and blocks every dispatch and every handshake.
FaultIsFinal ==
  [][(navFault => navFault') /\ (searchFault => searchFault')
     /\ (navFault \/ searchFault =>
           /\ ~(state = "kWaitingReady" /\ state' = "kWaitingInstruction")
           /\ ~(state # "kNavigatingToRoom" /\ active' /\ ~active)
           /\ ~(requestId = None /\ requestId' # None))]_allVars

\* The plan of the executor and the task agree: a plan runs only for a task
\* that navigates.
PlanMatchesTask == active => state = "kNavigatingToRoom"

\* A task gets to navigate without a plan, or loses its plan and goes on
\* navigating, only if a locked barrier or a sealed executor is the reason.
StallsOnlyWhenBlocked ==
  [][state' = "kNavigatingToRoom" /\ ~active' /\ (active \/ state # "kNavigatingToRoom")
       => DispatchBlocked' \/ sealed']_allVars

\* A search request is active only for a task that searches, and never together
\* with a cancellation still to be confirmed.
RequestMatchesTask ==
  requestId # None =>
    state = "kSearchingObject" /\ ~searchPending /\ ~searchFault

\* The search of the task and the request agree, in both directions: a request
\* is only active for a task that searches, and a task gets to search without a
\* request, or loses its request and goes on searching, only behind a locked
\* barrier (COORDINATOR_SEARCH_REQUEST.md: refused then, and not sent again).
SearchHasRequest ==
  [][/\ RequestMatchesTask'
     /\ SearchEnabled /\ state' = "kSearchingObject" /\ requestId' = None
          /\ (state # "kSearchingObject" \/ requestId # None)
        => DispatchBlocked']_allVars

\* What these rest on, as an inductive invariant over the executor, the two
\* barriers and the execution.

\* At most one request is in flight; without the plan that waits for it the
\* barrier does, or the executor is sealed. A tracked cancellation locks the
\* barrier, and the fault of the executor is the fault of the barrier.
GoalsAreGuarded ==
  /\ Held = {} /\ (active => ~waiting) /\ (fault => navFault)
  /\ cancelling \subseteq owned \cap unconfirmed
  /\ \A g \in Goals : InFlight(g) =>
       /\ (active /\ g = current) \/ waiting \/ sealed
       /\ \A h \in Goals : InFlight(h) => h = g

\* A request that runs or can still be taken up is the active one, or the one
\* the barrier waits for, or the barrier is at fault; none is while a plan
\* runs. cancel_drained is only said of an execution that is over.
SearchesAreGuarded ==
  /\ SearchEnabled \/ (published = {} /\ requestId = None)
  /\ active => Searching = {}
  /\ \A r \in Searching :
       r = requestId \/ (searchPending /\ r = cancelledTask) \/ searchFault
  /\ \A r \in Requests :
       /\ <<"cancel_drained", r>> \in statuses => search[r] = "stopped"
       /\ r \notin published => search[r] = "idle"

CInv ==
  /\ CoordinatorTypeOK /\ IInv /\ PlanMatchesTask /\ RequestMatchesTask
  /\ GoalsAreGuarded /\ SearchesAreGuarded

\* A locked barrier is waiting for something that can still come, or for the
\* confirmation of a cancellation; it is never locked for nothing.
BlockedHasCause ==
  NavBlocked => navFault \/ unconfirmed # {} \/ \E g \in Goals : InFlight(g)

\* No handshake of the next task before the goals of the last one are over.
ReadyOnlyWhenStill ==
  [][state = "kWaitingReady" /\ state' = "kWaitingInstruction" =>
       \A g \in Goals : ~InFlight(g) /\ ~Live(g)]_allVars
=============================================================================
