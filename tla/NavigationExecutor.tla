------------------------- MODULE NavigationExecutor -------------------------
(***************************************************************************)
(* The navigation executor of handyman_rebuild_ros2 together with the      *)
(* action client it submits through and, as an external environment, the   *)
(* Nav2 NavigateToPose server.                                             *)
(*                                                                         *)
(* The code runs in one single-threaded ROS executor, so every callback is *)
(* one atomic action: a timer, a goal response, a result, a cancel reply.  *)
(* What interleaves with it are the server and the messages in flight.     *)
(*                                                                         *)
(* generation_ is only ever compared for equality with the token a goal    *)
(* was sent with, so it is kept as `current': the goal whose token is the  *)
(* current generation, None after an increment that sends no goal.         *)
(***************************************************************************)
EXTENDS Naturals, FiniteSets

CONSTANTS
  Goals,         \* goal UUIDs; a finite set, which bounds the goals sent
  None,          \* no goal
  MaxAttempts,   \* settings_.maximum_attempts
  Candidates,    \* candidates_.size()
  RouteLength,   \* route_waypoints.size() of candidates 0 .. Candidates - 1
  StartupWindow, \* timer ticks before server_wait_timeout_sec has passed
  Observed,      \* setCancellationObserver was called
  SearchOwned    \* goals wait for the dispatch intent (kSearchPoint target)

ASSUME GoalsAssumption == IsFiniteSet(Goals) /\ None \notin Goals
ASSUME PlanAssumption ==
  /\ MaxAttempts \in Nat /\ MaxAttempts > 0
  /\ Candidates \in Nat /\ Candidates > 0
  /\ RouteLength \in [0 .. (Candidates - 1) -> Nat]
  /\ StartupWindow \in Nat
ASSUME ModeAssumption == Observed \in BOOLEAN /\ SearchOwned \in BOOLEAN

VARIABLES
  active,     \* plan_.has_value()
  attempted,  \* plan_->attempted_
  waypoint,   \* route_waypoint_index_
  window,     \* ticks left of the server wait started by begin
  current,    \* goal sent with token = generation_, or None
  handle,     \* goal_handle_
  armed,      \* timers that exist: "server", "goal", "retry"
  sealed,     \* sealed_
  pending,    \* pending_goal_responses_
  owned,      \* owned_goals_
  cancelling, \* cancelling_goals_
  fault,      \* cancellation_fault_
  outcome,    \* what this step handed to completion_
  request,    \* where each send-goal request and its response are
  server,     \* each goal at the Nav2 server
  cancel      \* each cancel-goal request and its reply

planVars   == <<active, attempted, waypoint, window>>
tokenVars  == <<current, handle, armed>>
cancelVars == <<cancelling, fault, cancel>>
goalVars   == <<request, pending, owned>>
vars == <<planVars, tokenVars, sealed, cancelVars, goalVars, outcome, server>>

RequestStates == {"unsent", "held", "sent", "accepting", "rejecting",
                  "known", "refused"}
Terminal      == {"succeeded", "aborted", "canceled"}
ServerStates  == {"idle", "executing", "canceling"} \cup Terminal
CancelStates  == {"none", "asked", "granting", "denying", "granted", "denied"}
Timers        == {"server", "goal", "retry"}
Outcomes      == {"none", "reached", "failed"}

TypeOK ==
  /\ active \in BOOLEAN
  /\ attempted \in 0 .. (MaxAttempts - 1)
  /\ waypoint \in Nat
  /\ window \in 0 .. StartupWindow
  /\ current \in Goals \cup {None}
  /\ handle \in Goals \cup {None}
  /\ armed \in SUBSET Timers
  /\ sealed \in BOOLEAN
  /\ pending \in Nat
  /\ owned \in SUBSET Goals
  /\ cancelling \in SUBSET Goals
  /\ fault \in BOOLEAN
  /\ outcome \in Outcomes
  /\ request \in [Goals -> RequestStates]
  /\ server \in [Goals -> ServerStates]
  /\ cancel \in [Goals -> CancelStates]

Init ==
  /\ active = FALSE /\ attempted = 0 /\ waypoint = 0 /\ window = StartupWindow
  /\ current = None /\ handle = None /\ armed = {}
  /\ sealed = FALSE /\ pending = 0 /\ owned = {}
  /\ cancelling = {} /\ fault = FALSE /\ outcome = "none"
  /\ request = [g \in Goals |-> "unsent"]
  /\ server = [g \in Goals |-> "idle"]
  /\ cancel = [g \in Goals |-> "none"]

-----------------------------------------------------------------------------
(* Pieces of the callbacks.                                                *)

\* Requests held back by the deferred client until their intent is decided.
Held == {g \in Goals : request[g] = "held"}

\* discardPending answers every held request with a rejection, whose response
\* callback only counts it down: the generation was incremented before.
Discarded == [g \in Goals |-> IF g \in Held THEN "refused" ELSE request[g]]

\* cancelGoalTracked for each goal of S. Without an observer nothing is
\* tracked; with one, a goal already being cancelled is not asked again.
CancelTracked(S) ==
  LET asked == IF Observed THEN S \ cancelling ELSE S IN
  /\ cancel' = [g \in Goals |-> IF g \in asked THEN "asked" ELSE cancel[g]]
  /\ cancelling' = IF Observed THEN cancelling \cup S ELSE cancelling

\* What finish and cancel have in common: the plan is gone and nothing that
\* was started for it is current any more.
DropPlan ==
  /\ active' = FALSE /\ attempted' = 0 /\ waypoint' = 0
  /\ current' = None /\ handle' = None /\ armed' = {}

Finish(result) == DropPlan /\ outcome' = result /\ UNCHANGED window

\* cancel(), which also asks to cancel the goals of extra.
Cancel(extra) ==
  /\ DropPlan
  /\ request' = Discarded
  /\ pending' = pending - Cardinality(Held)
  /\ CancelTracked(extra \cup ({handle} \ {None}))
  /\ outcome' = "none"
  /\ UNCHANGED <<window, owned, fault, server>>

SealAndCancel == sealed' = TRUE /\ Cancel(owned)

\* Seeded fault: the goal is sent without its goal_timer_.
SubmitUntimed(g, req) ==
  /\ request[g] = "unsent"
  /\ request' = [req EXCEPT ![g] = IF SearchOwned THEN "held" ELSE "sent"]
  /\ current' = g /\ armed' = {}

\* sendCurrentGoal after the requests were left as in req.
Submit(g, req) ==
  /\ request[g] = "unsent"
  /\ request' = [req EXCEPT ![g] = IF SearchOwned THEN "held" ELSE "sent"]
  /\ current' = g
  /\ armed' = {"goal"}

\* failAttempt: another candidate after a pause, or the end of the plan.
FailAttempt ==
  IF attempted + 1 < MaxAttempts
  THEN /\ attempted' = attempted + 1
       /\ current' = None /\ handle' = None /\ armed' = {"retry"}
       /\ outcome' = "none"
       /\ UNCHANGED <<active, waypoint, window>>
  ELSE Finish("failed")

\* handleGoalRejected: inside the startup window the same candidate is tried
\* again, later a rejection is a failed attempt.
GoalRejected ==
  IF window > 0
  THEN /\ window' = window - 1
       /\ current' = None /\ armed' = {"retry"} /\ outcome' = "none"
       /\ UNCHANGED <<active, attempted, waypoint, handle>>
  ELSE FailAttempt

\* plan_->current()->route_waypoints.size()
Route == RouteLength[attempted % Candidates]

\* Seeded fault: a callback looks at the plan and not at its generation.
CurrentAnyGeneration(g) == active /\ g \in Goals

Current(g) == active /\ g = current

-----------------------------------------------------------------------------
(* Calls of the owner.                                                     *)

\* Seeded fault: begin does not look at sealed_.
BeginSealed ==
  /\ active' = TRUE /\ attempted' = 0 /\ waypoint' = 0
  /\ window' = StartupWindow
  /\ handle' = None
  /\ CancelTracked({handle} \ {None})
  /\ outcome' = "none"
  /\ \E g \in Goals : Submit(g, Discarded)
  /\ pending' = pending - Cardinality(Held) + 1
  /\ UNCHANGED <<sealed, owned, fault, server>>

\* begin with a valid plan: the previous plan is cancelled, then the first
\* goal is sent, or the server timer started when the server is not ready.
Begin ==
  /\ ~sealed
  /\ active' = TRUE /\ attempted' = 0 /\ waypoint' = 0
  /\ window' = StartupWindow
  /\ handle' = None
  /\ CancelTracked({handle} \ {None})
  /\ outcome' = "none"
  /\ \/ /\ \E g \in Goals : Submit(g, Discarded)
        /\ pending' = pending - Cardinality(Held) + 1
     \/ /\ request' = Discarded
        /\ pending' = pending - Cardinality(Held)
        /\ current' = None /\ armed' = {"server"}
  /\ UNCHANGED <<sealed, owned, fault, server>>

\* navigateToRoom when the robot already stands in the room: the completion
\* runs at once and a plan that was running is left alone.
AlreadyInside ==
  /\ ~sealed
  /\ outcome' = "reached"
  /\ UNCHANGED <<planVars, tokenVars, sealed, cancelVars, goalVars, server>>

OwnerCancel == Cancel({}) /\ UNCHANGED sealed

OwnerSeal == SealAndCancel

-----------------------------------------------------------------------------
(* Timers.                                                                 *)

\* waitForServer
ServerTimer ==
  /\ "server" \in armed
  /\ \/ /\ \E g \in Goals : Submit(g, request)
        /\ pending' = pending + 1
        /\ outcome' = "none"
        /\ UNCHANGED <<planVars, handle>>
     \/ /\ window > 0
        /\ window' = window - 1 /\ outcome' = "none"
        /\ UNCHANGED <<active, attempted, waypoint, tokenVars, request, pending>>
     \/ window = 0 /\ Finish("failed") /\ UNCHANGED <<request, pending>>
  /\ UNCHANGED <<sealed, owned, cancelVars, server>>

\* The pause after a failed attempt, a rejection or a reached waypoint ends.
RetryTimer ==
  /\ "retry" \in armed
  /\ \E g \in Goals : Submit(g, request)
  /\ pending' = pending + 1
  /\ outcome' = "none"
  /\ UNCHANGED <<planVars, handle, sealed, owned, cancelVars, server>>

\* Seeded fault: the timeout starts the next attempt and leaves the goal alone.
GoalTimerLeavesGoal ==
  /\ "goal" \in armed
  /\ IF handle # None
     THEN FailAttempt /\ UNCHANGED <<sealed, goalVars, cancelVars, server>>
     ELSE SealAndCancel

\* The goal has run for goal_timeout_sec. Without a handle its acceptance may
\* still be in flight: the executor seals itself for good.
GoalTimer ==
  /\ "goal" \in armed
  /\ IF handle # None
     THEN /\ CancelTracked({handle})
          /\ FailAttempt
          /\ UNCHANGED <<sealed, goalVars, fault, server>>
     ELSE SealAndCancel

\* The confirmation of a tracked cancellation did not come within a second.
CancelDeadline(g) ==
  /\ g \in cancelling
  /\ fault' = TRUE
  /\ cancelling' = cancelling \ {g}
  /\ outcome' = "none"
  /\ UNCHANGED <<planVars, tokenVars, sealed, cancel, goalVars, server>>

-----------------------------------------------------------------------------
(* Responses, results and replies of the server.                           *)

\* The dispatch intent of a held request is acknowledged and permitted.
Release(g) ==
  /\ request[g] = "held" /\ ~sealed /\ Current(g)
  /\ request' = [request EXCEPT ![g] = "sent"]
  /\ outcome' = "none"
  /\ UNCHANGED <<planVars, tokenVars, sealed, pending, owned, cancelVars, server>>

\* Seeded fault: a late acceptance is dropped without a cancellation.
AcceptResponseDropsLate(g) ==
  /\ request[g] = "accepting"
  /\ request' = [request EXCEPT ![g] = "known"]
  /\ pending' = pending - 1
  /\ owned' = owned \cup {g}
  /\ outcome' = "none"
  /\ handle' = (IF Current(g) THEN g ELSE handle)
  /\ UNCHANGED <<planVars, current, armed, sealed, cancelVars, server>>

\* goal_response_callback with a handle; a goal of an older generation is
\* cancelled, that one only.
AcceptResponse(g) ==
  /\ request[g] = "accepting"
  /\ request' = [request EXCEPT ![g] = "known"]
  /\ pending' = pending - 1
  /\ owned' = owned \cup {g}
  /\ outcome' = "none"
  /\ IF Current(g)
     THEN handle' = g /\ UNCHANGED <<cancel, cancelling>>
     ELSE CancelTracked({g}) /\ UNCHANGED handle
  /\ UNCHANGED <<planVars, current, armed, sealed, fault, server>>

\* Seeded fault: a rejection is not counted.
RejectResponseUncounted(g) ==
  /\ request[g] = "rejecting"
  /\ request' = [request EXCEPT ![g] = "refused"]
  /\ IF Current(g)
     THEN GoalRejected
     ELSE outcome' = "none" /\ UNCHANGED <<planVars, tokenVars>>
  /\ UNCHANGED <<sealed, pending, owned, cancelVars, server>>

\* goal_response_callback without a handle.
RejectResponse(g) ==
  /\ request[g] = "rejecting"
  /\ request' = [request EXCEPT ![g] = "refused"]
  /\ pending' = pending - 1
  /\ IF Current(g)
     THEN GoalRejected
     ELSE outcome' = "none" /\ UNCHANGED <<planVars, tokenVars>>
  /\ UNCHANGED <<sealed, owned, cancelVars, server>>

\* The part of result_callback that drives the plan: the next waypoint, the
\* verification of the robot pose (which may fail), or a failed attempt.
PlanAdvances(code) ==
  \/ /\ code = "succeeded" /\ waypoint < Route
     /\ waypoint' = waypoint + 1
     /\ handle' = None /\ armed' = {"retry"} /\ outcome' = "none"
     /\ UNCHANGED <<active, attempted, window, current>>
  \/ code = "succeeded" /\ waypoint >= Route /\ Finish("reached")
  \/ code = "succeeded" /\ waypoint >= Route /\ FailAttempt
  \/ code # "succeeded" /\ FailAttempt

\* result_callback
ResultCallback(g) ==
  /\ g \in owned /\ server[g] \in Terminal
  /\ owned' = owned \ {g}
  /\ cancelling' = cancelling \ {g}
  /\ fault' = (fault \/ (g \in cancelling /\ server[g] # "canceled"))
  /\ IF Current(g)
     THEN PlanAdvances(server[g])
     ELSE outcome' = "none" /\ UNCHANGED <<planVars, tokenVars>>
  /\ UNCHANGED <<sealed, cancel, request, pending, server>>

\* The reply to async_cancel_goal; only a tracked goal looks at it.
CancelReply(g) ==
  /\ cancel[g] \in {"granting", "denying"}
  /\ cancel' = [cancel EXCEPT ![g] = IF @ = "granting" THEN "granted" ELSE "denied"]
  /\ fault' = (fault \/ (cancel[g] = "denying" /\ g \in cancelling))
  /\ cancelling' = IF cancel[g] = "denying" THEN cancelling \ {g} ELSE cancelling
  /\ outcome' = "none"
  /\ UNCHANGED <<planVars, tokenVars, sealed, goalVars, server>>

-----------------------------------------------------------------------------
(* The Nav2 server, external: it accepts or rejects a request, ends a goal *)
(* in any of the terminal states open to it, and answers a cancel request. *)

ServerDecides(g) ==
  /\ request[g] = "sent"
  /\ \/ /\ request' = [request EXCEPT ![g] = "accepting"]
        /\ server' = [server EXCEPT ![g] = "executing"]
     \/ /\ request' = [request EXCEPT ![g] = "rejecting"]
        /\ UNCHANGED server
  /\ outcome' = "none"
  /\ UNCHANGED <<planVars, tokenVars, sealed, pending, owned, cancelVars>>

ServerEnds(g) ==
  /\ server[g] \in {"executing", "canceling"}
  /\ \E code \in Terminal :
       /\ code = "canceled" => server[g] = "canceling"
       /\ server' = [server EXCEPT ![g] = code]
  /\ outcome' = "none"
  /\ UNCHANGED <<planVars, tokenVars, sealed, goalVars, cancelVars>>

ServerCancels(g) ==
  /\ cancel[g] = "asked"
  /\ \/ /\ server[g] \in {"executing", "canceling"}
        /\ server' = [server EXCEPT ![g] = "canceling"]
        /\ cancel' = [cancel EXCEPT ![g] = "granting"]
     \/ cancel' = [cancel EXCEPT ![g] = "denying"] /\ UNCHANGED server
  /\ outcome' = "none"
  /\ UNCHANGED <<planVars, tokenVars, sealed, goalVars, cancelling, fault>>

-----------------------------------------------------------------------------

Owner == Begin \/ AlreadyInside \/ OwnerCancel \/ OwnerSeal

Callback ==
  \/ ServerTimer \/ RetryTimer \/ GoalTimer
  \/ \E g \in Goals :
       \/ CancelDeadline(g) \/ Release(g)
       \/ AcceptResponse(g) \/ RejectResponse(g)
       \/ ResultCallback(g) \/ CancelReply(g)

Server == \E g \in Goals : ServerDecides(g) \/ ServerEnds(g) \/ ServerCancels(g)

Next == Owner \/ Callback \/ Server

Spec == Init /\ [][Next]_vars

-----------------------------------------------------------------------------
(* Properties.                                                             *)

InFlight(g) == request[g] \in {"held", "sent", "accepting", "rejecting"}
Live(g)     == server[g] \in {"executing", "canceling"}

\* Seeded fault: goals whose acceptance is still in flight are not counted.
DrainStateOfOwned ==
  IF fault THEN "cancel_failed"
  ELSE IF ~sealed \/ active \/ owned # {} \/ cancelling # {}
       THEN "cancel_received"
       ELSE "cancel_drained"

\* cancellationDrainState()
DrainState ==
  IF fault THEN "cancel_failed"
  ELSE IF \/ ~sealed \/ active \/ pending > 0
          \/ owned # {} \/ cancelling # {}
       THEN "cancel_received"
       ELSE "cancel_drained"

\* When the executor reports cancel_drained, no goal it ever submitted runs at
\* the server and none is in flight that still could: the report is a counter
\* and two maps of the client, the promise is about the server.
DrainedMeansQuiet ==
  DrainState = "cancel_drained" =>
    \A g \in Goals : ~InFlight(g) /\ ~Live(g)

\* A goal that runs at the server is the one the plan is waiting for, or it
\* has been asked to cancel, or its acceptance is still on the way to the
\* callback that will ask: no retry, timeout, waypoint, seal or late
\* acceptance leaves a goal behind that nobody stops.
NoGoalAbandoned ==
  \A g \in Goals :
    server[g] = "executing" =>
      Current(g) \/ cancel[g] # "none" \/ request[g] = "accepting"

\* A running plan always has a timer that will move it on: whatever the
\* server does or fails to do, the executor does not wait without a limit.
ActivePlanHasTimer == active => armed # {}

\* A tracked cancellation the server refused keeps the executor from ever
\* reporting cancel_drained, whether the refusal or the result came first.
RefusalNeverDrains ==
  (\E g \in Goals : cancel[g] = "denied") => DrainState # "cancel_drained"

\* What the invariants above rest on, as an inductive invariant.

\* The counter of pending responses counts exactly the requests in flight.
Flying == {g \in Goals : InFlight(g)}
PendingCounts == pending = Cardinality(Flying)

\* Without a plan nothing of one is left; a sealed executor has no plan and no
\* held request.
NothingLeft ==
  /\ ~active => current = None /\ handle = None /\ armed = {}
  /\ sealed => ~active /\ Held = {}

\* The handle is that of the current goal, it is known and its result is still
\* to come; no timer that sends a goal runs meanwhile, nor while the current
\* goal is in flight.
HandleIsCurrent ==
  /\ handle # None => handle = current /\ handle \in owned
  /\ armed \cap {"server", "retry"} # {} =>
       handle = None /\ (current = None \/ ~InFlight(current))

\* What the client knows of the goals: one that runs is accepted and, once the
\* response was seen, owned; one being cancelled was asked to.
GoalsAreOwned ==
  \A g \in Goals :
    /\ server[g] # "idle" => request[g] \in {"accepting", "known"}
    /\ Live(g) => request[g] = "accepting" \/ g \in owned
    /\ g \in owned => request[g] = "known"
    /\ cancel[g] # "none" => request[g] = "known"
    /\ g \in cancelling => cancel[g] # "none"

\* The goal that runs without a cancellation is the one of the handle.
RunningIsHandled ==
  \A g \in Goals :
    server[g] = "executing" =>
      (active /\ handle = g) \/ cancel[g] # "none" \/ request[g] = "accepting"

\* With an observer, a cancellation not confirmed is tracked or has left the
\* fault; only a granted one ends a goal as canceled.
CancelsAreTracked ==
  Observed =>
    \A g \in Goals :
      /\ cancel[g] \in {"asked", "denying"} => fault \/ g \in cancelling
      /\ cancel[g] \in {"granting", "granted"} => fault \/ g \in cancelling \/ g \notin owned
      /\ cancel[g] = "denied" => fault
      /\ server[g] \in {"canceling", "canceled"} =>
           fault \/ cancel[g] \in {"granting", "granted"}

IInv ==
  /\ TypeOK /\ PendingCounts /\ NothingLeft /\ HandleIsCurrent
  /\ GoalsAreOwned /\ RunningIsHandled /\ CancelsAreTracked /\ ActivePlanHasTimer

\* A sealed executor sends nothing: a request not yet at the server when the
\* seal falls never gets there, and cancel_drained is never taken back.
SealedSendsNothing ==
  [][sealed => /\ sealed'
               /\ DrainState = "cancel_drained" => DrainState' = "cancel_drained"
               /\ \A g \in Goals : request[g] \in {"unsent", "held"} =>
                                    request'[g] \in {"unsent", "refused"}]_vars

\* The completion runs once per plan: an outcome is reported only while a plan
\* runs, and ends it, and success only after the goal this plan sent last
\* succeeded, whatever results of older goals arrive. (The shortcut of a robot
\* already in the room reports success of its own.)
OutcomeIsOfPlan ==
  [][outcome' # "none" =>
       \/ AlreadyInside
       \/ /\ active /\ ~active'
          /\ outcome' = "reached" => current # None /\ server[current] = "succeeded"]_vars

Fairness ==
  /\ WF_vars(ServerTimer) /\ WF_vars(RetryTimer) /\ WF_vars(GoalTimer)
  /\ \A g \in Goals :
       /\ WF_vars(CancelDeadline(g)) /\ WF_vars(Release(g))
       /\ WF_vars(AcceptResponse(g)) /\ WF_vars(RejectResponse(g))
       /\ WF_vars(ResultCallback(g)) /\ WF_vars(CancelReply(g))
       /\ WF_vars(ServerDecides(g))

FairSpec == Spec /\ Fairness

\* Once sealed the executor answers: cancel_drained or cancel_failed, provided
\* the server answers each send-goal request. It need not end any goal.
SealSettles == sealed ~> DrainState # "cancel_received"

\* Every plan ends, by its outcome, its owner or the seal.
PlanEnds == active ~> ~active
=============================================================================
