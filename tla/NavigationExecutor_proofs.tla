---------------------- MODULE NavigationExecutor_proofs ----------------------
(***************************************************************************)
(* What MCNavigationExecutor checks for three goals, proved for every      *)
(* finite set of goals and every plan, startup window and mode: IInv is    *)
(* inductive, one lemma per action, and implies the invariants.            *)
(***************************************************************************)
EXTENDS NavigationExecutor, FiniteSetTheorems, TLAPS

\* The cardinality of a set of goals is a number, and changes by one with a goal.
LEMMA Count ==
  ASSUME NEW S \in SUBSET Goals, NEW g \in Goals
  PROVE  /\ Cardinality(S) \in Nat
         /\ g \notin S => Cardinality(S \cup {g}) = Cardinality(S) + 1
         /\ g \in S => Cardinality(S \ {g}) = Cardinality(S) - 1
<1>1. IsFiniteSet(S)
  BY GoalsAssumption, FS_Subset
<1> QED
  BY <1>1, FS_CardinalityType, FS_AddElement, FS_RemoveElement

\* Discarding a part of a set of goals discards its cardinality.
LEMMA CountWithout ==
  ASSUME NEW S \in SUBSET Goals, NEW T \in SUBSET S
  PROVE  /\ Cardinality(S \ T) = Cardinality(S) - Cardinality(T)
         /\ Cardinality(S \ T) \in Nat
<1>1. IsFiniteSet(S) /\ IsFiniteSet(S \ T) /\ S \cap T = T
  BY GoalsAssumption, FS_Subset
<1> QED
  BY <1>1, FS_Difference, FS_CardinalityType

\* The types of the part of the state a plan changes.
PlanTypeOK ==
  /\ active \in BOOLEAN /\ attempted \in 0 .. (MaxAttempts - 1)
  /\ waypoint \in Nat /\ window \in 0 .. StartupWindow
  /\ current \in Goals \cup {None} /\ handle \in Goals \cup {None}
  /\ armed \in SUBSET Timers /\ outcome \in Outcomes

\* finish leaves a plan of the right type.
LEMMA FinishTypes ==
  ASSUME PlanTypeOK, NEW result \in {"reached", "failed"}, Finish(result)
  PROVE  PlanTypeOK'
<1> USE PlanAssumption DEF PlanTypeOK, Timers, Outcomes
<1>1. active' = FALSE /\ attempted' = 0 /\ waypoint' = 0 /\ window' = window
      /\ current' = None /\ handle' = None /\ armed' = {} /\ outcome' = result
  BY DEF Finish, DropPlan
<1>2. 0 \in 0 .. (MaxAttempts - 1)
  OBVIOUS
<1> QED
  BY <1>1, <1>2

\* So do failAttempt, handleGoalRejected and the rest of the result callback.
LEMMA PlanTypes ==
  ASSUME PlanTypeOK,
         \/ FailAttempt \/ GoalRejected
         \/ \E code : PlanAdvances(code)
         \/ UNCHANGED <<planVars, tokenVars>> /\ outcome' = "none"
  PROVE  PlanTypeOK'
<1>1. \A result \in {"reached", "failed"} : Finish(result) => PlanTypeOK'
  BY FinishTypes
<1> USE PlanAssumption DEF PlanTypeOK, Timers, Outcomes
<1>2. FailAttempt => PlanTypeOK'
  BY <1>1 DEF FailAttempt
<1>3. GoalRejected => PlanTypeOK'
  BY <1>2 DEF GoalRejected
<1>4. \A code : PlanAdvances(code) => PlanTypeOK'
  BY <1>1, <1>2 DEF PlanAdvances
<1> QED
  BY <1>2, <1>3, <1>4 DEF planVars, tokenVars

\* cancel(), sealing or not, that also cancels owned goals.
LEMMA CancelKeeps ==
  ASSUME IInv, NEW S \in SUBSET owned, Cancel(S), sealed' \in BOOLEAN
  PROVE  IInv'
<1> USE GoalsAssumption DEF IInv, Cancel, DropPlan, CancelTracked, Discarded
<1> USE DEF TypeOK, RequestStates, ServerStates, CancelStates, Terminal, Timers, Outcomes
<1> USE DEF InFlight, Live, Current, vars, planVars, tokenVars, cancelVars, goalVars
<1>1. Flying' = Flying \ Held /\ Held \in SUBSET Flying /\ Flying \in SUBSET Goals
  BY DEF Flying, Held
<1>2. PendingCounts' /\ pending' \in Nat
  BY <1>1, CountWithout DEF PendingCounts
<1>3. TypeOK'
  <2>1. 0 \in 0 .. (MaxAttempts - 1)
    BY PlanAssumption
  <2>2. request' \in [Goals -> RequestStates] /\ cancel' \in [Goals -> CancelStates]
        /\ cancelling' \in SUBSET Goals
    BY DEF Held
  <2> QED
    BY <1>2, <2>1, <2>2
<1>4. NothingLeft'
  BY DEF NothingLeft, Held
<1>5. HandleIsCurrent'
  BY DEF NothingLeft, HandleIsCurrent, GoalsAreOwned, Held
<1>6. GoalsAreOwned'
  BY DEF HandleIsCurrent, GoalsAreOwned, Held
<1>7. RunningIsHandled'
  BY DEF HandleIsCurrent, GoalsAreOwned, RunningIsHandled, Held
<1>8. CancelsAreTracked'
  BY DEF HandleIsCurrent, GoalsAreOwned, CancelsAreTracked, Held
<1>9. ActivePlanHasTimer'
  BY DEF NothingLeft, ActivePlanHasTimer
<1> QED
  BY <1>2, <1>3, <1>4, <1>5, <1>6, <1>7, <1>8, <1>9

\* A held request goes to the server: it stays in flight.
LEMMA ReleaseKeeps ==
  ASSUME IInv, NEW g \in Goals, Release(g)
  PROVE  IInv'
<1> USE GoalsAssumption DEF IInv, Release
<1> USE DEF TypeOK, RequestStates, ServerStates, CancelStates, Terminal, Timers, Outcomes
<1> USE DEF InFlight, Live, Current, vars, planVars, tokenVars, cancelVars, goalVars
<1>1. Flying' = Flying /\ Flying \in SUBSET Goals
  BY DEF Flying
<1>2. PendingCounts' /\ pending' \in Nat
  BY <1>1 DEF PendingCounts
<1>3. TypeOK'
  BY <1>2
<1>4. NothingLeft'
  BY DEF NothingLeft, Held
<1>5. HandleIsCurrent'
  BY DEF NothingLeft, HandleIsCurrent, GoalsAreOwned
<1>6. GoalsAreOwned'
  BY DEF HandleIsCurrent, GoalsAreOwned
<1>7. RunningIsHandled'
  BY DEF HandleIsCurrent, GoalsAreOwned, RunningIsHandled
<1>8. CancelsAreTracked'
  BY DEF HandleIsCurrent, GoalsAreOwned, CancelsAreTracked
<1>9. ActivePlanHasTimer'
  BY DEF NothingLeft, ActivePlanHasTimer
<1> QED
  BY <1>2, <1>3, <1>4, <1>5, <1>6, <1>7, <1>8, <1>9

\* The response with a handle.
LEMMA AcceptKeeps ==
  ASSUME IInv, NEW g \in Goals, AcceptResponse(g)
  PROVE  IInv'
<1> USE GoalsAssumption DEF IInv, AcceptResponse, CancelTracked
<1> USE DEF TypeOK, RequestStates, ServerStates, CancelStates, Terminal, Timers, Outcomes
<1> USE DEF InFlight, Live, Current, vars, planVars, tokenVars, cancelVars, goalVars
<1>1. Flying' = Flying \ {g} /\ g \in Flying /\ Flying \in SUBSET Goals
  BY DEF Flying
<1>2. PendingCounts' /\ pending' \in Nat
  BY <1>1, Count DEF PendingCounts
<1>3. TypeOK'
  BY <1>2
<1>4. NothingLeft'
  BY DEF NothingLeft, Held
<1>5. HandleIsCurrent'
  BY DEF NothingLeft, HandleIsCurrent, GoalsAreOwned
<1>6. GoalsAreOwned'
  BY DEF HandleIsCurrent, GoalsAreOwned
<1>7. RunningIsHandled'
  BY DEF HandleIsCurrent, GoalsAreOwned, RunningIsHandled
<1>8. CancelsAreTracked'
  BY DEF HandleIsCurrent, GoalsAreOwned, CancelsAreTracked
<1>9. ActivePlanHasTimer'
  BY DEF NothingLeft, ActivePlanHasTimer
<1> QED
  BY <1>2, <1>3, <1>4, <1>5, <1>6, <1>7, <1>8, <1>9

\* The response without a handle.
LEMMA RejectKeeps ==
  ASSUME IInv, NEW g \in Goals, RejectResponse(g)
  PROVE  IInv'
<1> USE GoalsAssumption DEF IInv, RejectResponse, GoalRejected, FailAttempt, Finish, DropPlan
<1> USE DEF TypeOK, RequestStates, ServerStates, CancelStates, Terminal, Timers, Outcomes
<1> USE DEF InFlight, Live, Current, vars, planVars, tokenVars, cancelVars, goalVars
<1>1. Flying' = Flying \ {g} /\ g \in Flying /\ Flying \in SUBSET Goals
  BY DEF Flying
<1>2. PendingCounts' /\ pending' \in Nat
  BY <1>1, Count DEF PendingCounts
<1>3. TypeOK'
  <2>1. PlanTypeOK'
    BY PlanTypes DEF PlanTypeOK
  <2> QED
    BY <1>2, <2>1 DEF PlanTypeOK
<1>4. NothingLeft'
  BY DEF NothingLeft, Held
<1>5. HandleIsCurrent'
  BY DEF NothingLeft, HandleIsCurrent, GoalsAreOwned
<1>6. GoalsAreOwned'
  BY DEF HandleIsCurrent, GoalsAreOwned
<1>7. RunningIsHandled'
  BY DEF HandleIsCurrent, GoalsAreOwned, RunningIsHandled
<1>8. CancelsAreTracked'
  BY DEF HandleIsCurrent, GoalsAreOwned, CancelsAreTracked
<1>9. ActivePlanHasTimer'
  BY DEF NothingLeft, ActivePlanHasTimer
<1> QED
  BY <1>2, <1>3, <1>4, <1>5, <1>6, <1>7, <1>8, <1>9

\* The result of an owned goal.
LEMMA ResultKeeps ==
  ASSUME IInv, NEW g \in Goals, ResultCallback(g)
  PROVE  IInv'
<1> USE GoalsAssumption DEF IInv, ResultCallback, PlanAdvances, FailAttempt, Finish, DropPlan
<1> USE DEF TypeOK, RequestStates, ServerStates, CancelStates, Terminal, Timers, Outcomes
<1> USE DEF InFlight, Live, Current, vars, planVars, tokenVars, cancelVars, goalVars
<1>1. Flying' = Flying /\ Flying \in SUBSET Goals
  BY DEF Flying
<1>2. PendingCounts' /\ pending' \in Nat
  BY <1>1 DEF PendingCounts
<1>3. TypeOK'
  <2>1. PlanTypeOK'
    BY PlanTypes DEF PlanTypeOK
  <2> QED
    BY <1>2, <2>1 DEF PlanTypeOK
<1>4. NothingLeft'
  BY DEF NothingLeft, Held
<1>5. HandleIsCurrent'
  BY DEF NothingLeft, HandleIsCurrent, GoalsAreOwned
<1>6. GoalsAreOwned'
  BY DEF HandleIsCurrent, GoalsAreOwned
<1>7. RunningIsHandled'
  BY DEF HandleIsCurrent, GoalsAreOwned, RunningIsHandled
<1>8. CancelsAreTracked'
  BY DEF HandleIsCurrent, GoalsAreOwned, CancelsAreTracked
<1>9. ActivePlanHasTimer'
  BY DEF NothingLeft, ActivePlanHasTimer
<1> QED
  BY <1>2, <1>3, <1>4, <1>5, <1>6, <1>7, <1>8, <1>9

\* The reply to a cancel request.
LEMMA ReplyKeeps ==
  ASSUME IInv, NEW g \in Goals, CancelReply(g)
  PROVE  IInv'
<1> USE GoalsAssumption DEF IInv, CancelReply
<1> USE DEF TypeOK, RequestStates, ServerStates, CancelStates, Terminal, Timers, Outcomes
<1> USE DEF InFlight, Live, Current, vars, planVars, tokenVars, cancelVars, goalVars
<1>1. Flying' = Flying /\ Flying \in SUBSET Goals
  BY DEF Flying
<1>2. PendingCounts' /\ pending' \in Nat
  BY <1>1 DEF PendingCounts
<1>3. TypeOK'
  BY <1>2
<1>4. NothingLeft'
  BY DEF NothingLeft, Held
<1>5. HandleIsCurrent'
  BY DEF NothingLeft, HandleIsCurrent, GoalsAreOwned
<1>6. GoalsAreOwned'
  BY DEF HandleIsCurrent, GoalsAreOwned
<1>7. RunningIsHandled'
  BY DEF HandleIsCurrent, GoalsAreOwned, RunningIsHandled
<1>8. CancelsAreTracked'
  BY DEF HandleIsCurrent, GoalsAreOwned, CancelsAreTracked
<1>9. ActivePlanHasTimer'
  BY DEF NothingLeft, ActivePlanHasTimer
<1> QED
  BY <1>2, <1>3, <1>4, <1>5, <1>6, <1>7, <1>8, <1>9

\* A cancellation is not confirmed in time.
LEMMA DeadlineKeeps ==
  ASSUME IInv, NEW g \in Goals, CancelDeadline(g)
  PROVE  IInv'
<1> USE GoalsAssumption DEF IInv, CancelDeadline
<1> USE DEF TypeOK, RequestStates, ServerStates, CancelStates, Terminal, Timers, Outcomes
<1> USE DEF InFlight, Live, Current, vars, planVars, tokenVars, cancelVars, goalVars
<1>1. Flying' = Flying /\ Flying \in SUBSET Goals
  BY DEF Flying
<1>2. PendingCounts' /\ pending' \in Nat
  BY <1>1 DEF PendingCounts
<1>3. TypeOK'
  BY <1>2
<1>4. NothingLeft'
  BY DEF NothingLeft, Held
<1>5. HandleIsCurrent'
  BY DEF NothingLeft, HandleIsCurrent, GoalsAreOwned
<1>6. GoalsAreOwned'
  BY DEF HandleIsCurrent, GoalsAreOwned
<1>7. RunningIsHandled'
  BY DEF HandleIsCurrent, GoalsAreOwned, RunningIsHandled
<1>8. CancelsAreTracked'
  BY DEF HandleIsCurrent, GoalsAreOwned, CancelsAreTracked
<1>9. ActivePlanHasTimer'
  BY DEF NothingLeft, ActivePlanHasTimer
<1> QED
  BY <1>2, <1>3, <1>4, <1>5, <1>6, <1>7, <1>8, <1>9

\* The server decides, ends or cancels a goal.
LEMMA ServerKeeps ==
  ASSUME IInv, NEW g \in Goals, ServerDecides(g) \/ ServerEnds(g) \/ ServerCancels(g)
  PROVE  IInv'
<1> USE GoalsAssumption DEF IInv, ServerDecides, ServerEnds, ServerCancels
<1> USE DEF TypeOK, RequestStates, ServerStates, CancelStates, Terminal, Timers, Outcomes
<1> USE DEF InFlight, Live, Current, vars, planVars, tokenVars, cancelVars, goalVars
<1>1. Flying' = Flying /\ Flying \in SUBSET Goals
  BY DEF Flying
<1>2. PendingCounts' /\ pending' \in Nat
  BY <1>1 DEF PendingCounts
<1>3. TypeOK'
  <2>1. CASE ServerDecides(g)
    BY <1>2, <2>1
  <2>2. CASE ServerEnds(g)
    BY <1>2, <2>2
  <2>3. CASE ServerCancels(g)
    BY <1>2, <2>3
  <2> QED
    BY <2>1, <2>2, <2>3
<1>4. NothingLeft'
  <2>1. Held' = Held
    BY DEF Held
  <2>2. UNCHANGED <<active, current, handle, armed, sealed>>
    OBVIOUS
  <2> QED
    BY <2>1, <2>2 DEF NothingLeft
<1>5. HandleIsCurrent'
  BY DEF NothingLeft, HandleIsCurrent, GoalsAreOwned
<1>6. GoalsAreOwned'
  BY DEF HandleIsCurrent, GoalsAreOwned
<1>7. RunningIsHandled'
  BY DEF HandleIsCurrent, GoalsAreOwned, RunningIsHandled
<1>8. CancelsAreTracked'
  BY DEF HandleIsCurrent, GoalsAreOwned, CancelsAreTracked
<1>9. ActivePlanHasTimer'
  BY DEF NothingLeft, ActivePlanHasTimer
<1> QED
  BY <1>2, <1>3, <1>4, <1>5, <1>6, <1>7, <1>8, <1>9

\* No change.
LEMMA StutterKeeps ==
  ASSUME IInv, UNCHANGED vars \/ AlreadyInside
  PROVE  IInv'
<1> USE GoalsAssumption DEF IInv, AlreadyInside
<1> USE DEF TypeOK, RequestStates, ServerStates, CancelStates, Terminal, Timers, Outcomes
<1> USE DEF InFlight, Live, Current, vars, planVars, tokenVars, cancelVars, goalVars
<1>1. Flying' = Flying /\ Flying \in SUBSET Goals
  BY DEF Flying
<1>2. PendingCounts' /\ pending' \in Nat
  BY <1>1 DEF PendingCounts
<1>3. TypeOK'
  BY <1>2
<1>4. NothingLeft'
  <2>1. Held' = Held
    BY DEF Held
  <2>2. UNCHANGED <<active, current, handle, armed, sealed>>
    OBVIOUS
  <2> QED
    BY <2>1, <2>2 DEF NothingLeft
<1>5. HandleIsCurrent'
  BY DEF NothingLeft, HandleIsCurrent, GoalsAreOwned
<1>6. GoalsAreOwned'
  BY DEF HandleIsCurrent, GoalsAreOwned
<1>7. RunningIsHandled'
  BY DEF HandleIsCurrent, GoalsAreOwned, RunningIsHandled
<1>8. CancelsAreTracked'
  BY DEF HandleIsCurrent, GoalsAreOwned, CancelsAreTracked
<1>9. ActivePlanHasTimer'
  BY DEF NothingLeft, ActivePlanHasTimer
<1> QED
  BY <1>2, <1>3, <1>4, <1>5, <1>6, <1>7, <1>8, <1>9

\* The pause or the wait for the server ends and a goal is sent.
LEMMA SendKeeps ==
  ASSUME IInv, NEW g \in Goals, armed \cap {"server", "retry"} # {}, Submit(g, request), pending' = pending + 1,
         outcome' = "none", UNCHANGED <<planVars, handle, sealed, owned, cancelVars, server>>
  PROVE  IInv'
<1> USE GoalsAssumption DEF IInv, Submit
<1> USE DEF TypeOK, RequestStates, ServerStates, CancelStates, Terminal, Timers, Outcomes
<1> USE DEF InFlight, Live, Current, vars, planVars, tokenVars, cancelVars, goalVars
<1>1. Flying' = Flying \cup {g} /\ g \notin Flying /\ Flying \in SUBSET Goals
  BY DEF Flying
<1>2. PendingCounts' /\ pending' \in Nat
  BY <1>1, Count DEF PendingCounts
<1>3. TypeOK'
  BY <1>2
<1>4. NothingLeft'
  BY DEF NothingLeft, Held
<1>5. HandleIsCurrent'
  BY DEF NothingLeft, HandleIsCurrent, GoalsAreOwned
<1>6. GoalsAreOwned'
  BY DEF HandleIsCurrent, GoalsAreOwned
<1>7. RunningIsHandled'
  BY DEF HandleIsCurrent, GoalsAreOwned, RunningIsHandled
<1>8. CancelsAreTracked'
  BY DEF HandleIsCurrent, GoalsAreOwned, CancelsAreTracked
<1>9. ActivePlanHasTimer'
  BY DEF NothingLeft, ActivePlanHasTimer
<1> QED
  BY <1>2, <1>3, <1>4, <1>5, <1>6, <1>7, <1>8, <1>9

\* The server is not ready: another tick of the window, or the end of the plan.
LEMMA WaitKeeps ==
  ASSUME IInv, "server" \in armed, UNCHANGED <<sealed, owned, cancelVars, server, request, pending>>,
         \/ /\ window > 0 /\ window' = window - 1 /\ outcome' = "none"
            /\ UNCHANGED <<active, attempted, waypoint, tokenVars>>
         \/ Finish("failed")
  PROVE  IInv'
<1> USE GoalsAssumption DEF IInv, Finish, DropPlan
<1> USE DEF TypeOK, RequestStates, ServerStates, CancelStates, Terminal, Timers, Outcomes
<1> USE DEF InFlight, Live, Current, vars, planVars, tokenVars, cancelVars, goalVars
<1>1. Flying' = Flying /\ Flying \in SUBSET Goals
  BY DEF Flying
<1>2. PendingCounts' /\ pending' \in Nat
  BY <1>1 DEF PendingCounts
<1>3. TypeOK'
  <2>1. CASE Finish("failed")
    <3>1. PlanTypeOK'
      BY <2>1, FinishTypes DEF PlanTypeOK
    <3> QED
      BY <1>2, <3>1 DEF PlanTypeOK
  <2>2. CASE window > 0 /\ window' = window - 1 /\ outcome' = "none"
             /\ UNCHANGED <<active, attempted, waypoint, tokenVars>>
    BY <1>2, <2>2, PlanAssumption
  <2> QED
    BY <2>1, <2>2
<1>4. NothingLeft'
  BY DEF NothingLeft, Held
<1>5. HandleIsCurrent'
  BY DEF NothingLeft, HandleIsCurrent, GoalsAreOwned
<1>6. GoalsAreOwned'
  BY DEF HandleIsCurrent, GoalsAreOwned
<1>7. RunningIsHandled'
  BY DEF HandleIsCurrent, GoalsAreOwned, RunningIsHandled
<1>8. CancelsAreTracked'
  BY DEF HandleIsCurrent, GoalsAreOwned, CancelsAreTracked
<1>9. ActivePlanHasTimer'
  BY DEF NothingLeft, ActivePlanHasTimer
<1> QED
  BY <1>2, <1>3, <1>4, <1>5, <1>6, <1>7, <1>8, <1>9

\* The goal of the handle runs too long.
LEMMA TimeoutKeeps ==
  ASSUME IInv, "goal" \in armed, handle # None, CancelTracked({handle}), FailAttempt,
         UNCHANGED <<sealed, goalVars, fault, server>>
  PROVE  IInv'
<1> USE GoalsAssumption DEF IInv, CancelTracked, FailAttempt, Finish, DropPlan
<1> USE DEF TypeOK, RequestStates, ServerStates, CancelStates, Terminal, Timers, Outcomes
<1> USE DEF InFlight, Live, Current, vars, planVars, tokenVars, cancelVars, goalVars
<1>1. Flying' = Flying /\ Flying \in SUBSET Goals
  BY DEF Flying
<1>2. PendingCounts' /\ pending' \in Nat
  BY <1>1 DEF PendingCounts
<1>3. TypeOK'
  <2>1. PlanTypeOK'
    BY PlanTypes DEF PlanTypeOK
  <2>2. cancel' \in [Goals -> CancelStates] /\ cancelling' \in SUBSET Goals
    OBVIOUS
  <2> QED
    BY <1>2, <2>1, <2>2 DEF PlanTypeOK
<1>4. NothingLeft'
  BY DEF NothingLeft, Held
<1>5. HandleIsCurrent'
  BY DEF NothingLeft, HandleIsCurrent, GoalsAreOwned
<1>6. GoalsAreOwned'
  BY DEF HandleIsCurrent, GoalsAreOwned
<1>7. RunningIsHandled'
  BY DEF HandleIsCurrent, GoalsAreOwned, RunningIsHandled
<1>8. CancelsAreTracked'
  BY DEF HandleIsCurrent, GoalsAreOwned, CancelsAreTracked
<1>9. ActivePlanHasTimer'
  BY DEF NothingLeft, ActivePlanHasTimer
<1> QED
  BY <1>2, <1>3, <1>4, <1>5, <1>6, <1>7, <1>8, <1>9

\* A new plan cancels the old one and waits for the server.
LEMMA BeginWaitsKeeps ==
  ASSUME IInv, ~sealed, active' = TRUE, attempted' = 0, waypoint' = 0, window' = StartupWindow, handle' = None,
         CancelTracked({handle} \ {None}), outcome' = "none", UNCHANGED <<sealed, owned, fault, server>>,
         request' = Discarded, pending' = pending - Cardinality(Held), current' = None, armed' = {"server"}
  PROVE  IInv'
<1> USE GoalsAssumption DEF IInv, CancelTracked, Discarded
<1> USE DEF TypeOK, RequestStates, ServerStates, CancelStates, Terminal, Timers, Outcomes
<1> USE DEF InFlight, Live, Current, vars, planVars, tokenVars, cancelVars, goalVars
<1>1. Flying' = Flying \ Held /\ Held \in SUBSET Flying /\ Flying \in SUBSET Goals
  BY DEF Flying, Held
<1>2. PendingCounts' /\ pending' \in Nat
  BY <1>1, CountWithout DEF PendingCounts
<1>3. TypeOK'
  <2>1. 0 \in 0 .. (MaxAttempts - 1) /\ StartupWindow \in 0 .. StartupWindow
    BY PlanAssumption
  <2>2. request' \in [Goals -> RequestStates] /\ cancel' \in [Goals -> CancelStates]
        /\ cancelling' \in SUBSET Goals
    BY DEF Held
  <2> QED
    BY <1>2, <2>1, <2>2
<1>4. NothingLeft'
  BY DEF NothingLeft, Held
<1>5. HandleIsCurrent'
  BY DEF NothingLeft, HandleIsCurrent, GoalsAreOwned, Held
<1>6. GoalsAreOwned'
  BY DEF HandleIsCurrent, GoalsAreOwned, Held
<1>7. RunningIsHandled'
  BY DEF HandleIsCurrent, GoalsAreOwned, RunningIsHandled, Held
<1>8. CancelsAreTracked'
  BY DEF HandleIsCurrent, GoalsAreOwned, CancelsAreTracked, Held
<1>9. ActivePlanHasTimer'
  BY DEF NothingLeft, ActivePlanHasTimer
<1> QED
  BY <1>2, <1>3, <1>4, <1>5, <1>6, <1>7, <1>8, <1>9

\* A new plan cancels the old one and sends its first goal.
LEMMA BeginSendsKeeps ==
  ASSUME IInv, NEW g \in Goals, ~sealed, active' = TRUE, attempted' = 0, waypoint' = 0, window' = StartupWindow, handle' = None,
         CancelTracked({handle} \ {None}), outcome' = "none", UNCHANGED <<sealed, owned, fault, server>>,
         Submit(g, Discarded), pending' = pending - Cardinality(Held) + 1
  PROVE  IInv'
<1> USE GoalsAssumption DEF IInv, Submit, CancelTracked, Discarded
<1> USE DEF TypeOK, RequestStates, ServerStates, CancelStates, Terminal, Timers, Outcomes
<1> USE DEF InFlight, Live, Current, vars, planVars, tokenVars, cancelVars, goalVars
<1>1. Flying' = (Flying \ Held) \cup {g} /\ g \notin Flying /\ Held \in SUBSET Flying /\ Flying \in SUBSET Goals
  BY DEF Flying, Held
<1>2. PendingCounts' /\ pending' \in Nat
  <2>1. /\ Cardinality(Flying \ Held) = Cardinality(Flying) - Cardinality(Held)
        /\ Cardinality(Flying \ Held) \in Nat
    BY <1>1, CountWithout
  <2>2. Cardinality(Flying') = Cardinality(Flying \ Held) + 1
    BY <1>1, Count
  <2>3. Cardinality(Held) \in Nat
    BY <1>1, Count
  <2> QED
    BY <2>1, <2>2, <2>3 DEF PendingCounts
<1>3. TypeOK'
  <2>1. 0 \in 0 .. (MaxAttempts - 1) /\ StartupWindow \in 0 .. StartupWindow
    BY PlanAssumption
  <2>2. request' \in [Goals -> RequestStates] /\ cancel' \in [Goals -> CancelStates]
        /\ cancelling' \in SUBSET Goals
    BY DEF Held
  <2> QED
    BY <1>2, <2>1, <2>2
<1>4. NothingLeft'
  BY DEF NothingLeft, Held
<1>5. HandleIsCurrent'
  BY DEF NothingLeft, HandleIsCurrent, GoalsAreOwned, Held
<1>6. GoalsAreOwned'
  BY DEF HandleIsCurrent, GoalsAreOwned, Held
<1>7. RunningIsHandled'
  BY DEF HandleIsCurrent, GoalsAreOwned, RunningIsHandled, Held
<1>8. CancelsAreTracked'
  BY DEF HandleIsCurrent, GoalsAreOwned, CancelsAreTracked, Held
<1>9. ActivePlanHasTimer'
  BY DEF NothingLeft, ActivePlanHasTimer
<1> QED
  BY <1>2, <1>3, <1>4, <1>5, <1>6, <1>7, <1>8, <1>9

\* IInv holds initially.
LEMMA InitHolds == ASSUME Init PROVE IInv
<1> USE PlanAssumption DEF Init, InFlight, Live
<1>1. Flying = {}
  BY DEF Flying
<1>2. PendingCounts
  BY <1>1, FS_EmptySet DEF PendingCounts
<1>3. 0 \in 0 .. (MaxAttempts - 1) /\ StartupWindow \in 0 .. StartupWindow
  OBVIOUS
<1>4. TypeOK
  BY <1>3 DEF TypeOK, RequestStates, ServerStates, CancelStates, Terminal, Timers, Outcomes
<1>5. NothingLeft /\ HandleIsCurrent /\ ActivePlanHasTimer
  BY DEF NothingLeft, HandleIsCurrent, ActivePlanHasTimer
<1>6. GoalsAreOwned /\ RunningIsHandled /\ CancelsAreTracked
  BY DEF GoalsAreOwned, RunningIsHandled, CancelsAreTracked
<1> QED
  BY <1>2, <1>4, <1>5, <1>6 DEF IInv

\* Every step of the executor, its owner and the server keeps IInv.
LEMMA NextKeeps == ASSUME IInv, [Next]_vars PROVE IInv'
<1>1. CASE UNCHANGED vars \/ AlreadyInside
  BY <1>1, StutterKeeps
<1>2. CASE Begin
  <2>1. CASE \E g \in Goals : Submit(g, Discarded)
    BY <1>2, <2>1, BeginSendsKeeps DEF Begin, Submit
  <2>2. CASE request' = Discarded /\ current' = None /\ armed' = {"server"}
             /\ pending' = pending - Cardinality(Held)
    BY <1>2, <2>2, BeginWaitsKeeps DEF Begin
  <2> QED
    BY <1>2, <2>1, <2>2 DEF Begin
<1>3. CASE OwnerCancel \/ OwnerSeal
  <2>1. sealed' \in BOOLEAN /\ \E S \in SUBSET owned : Cancel(S)
    BY <1>3 DEF OwnerCancel, OwnerSeal, SealAndCancel, IInv, TypeOK
  <2> QED
    BY <2>1, CancelKeeps
<1>4. CASE ServerTimer
  <2>1. CASE \E g \in Goals : Submit(g, request) /\ pending' = pending + 1 /\ outcome' = "none"
                            /\ UNCHANGED <<planVars, handle>>
    BY <1>4, <2>1, SendKeeps DEF ServerTimer
  <2>2. CASE ~\E g \in Goals : Submit(g, request) /\ pending' = pending + 1 /\ outcome' = "none"
                             /\ UNCHANGED <<planVars, handle>>
    BY <1>4, <2>2, WaitKeeps DEF ServerTimer, cancelVars
  <2> QED
    BY <2>1, <2>2
<1>5. CASE RetryTimer
  BY <1>5, SendKeeps DEF RetryTimer
<1>6. CASE GoalTimer
  <2>1. CASE handle # None
    BY <1>6, <2>1, TimeoutKeeps DEF GoalTimer
  <2>2. CASE handle = None
    BY <1>6, <2>2, CancelKeeps DEF GoalTimer, SealAndCancel
  <2> QED
    BY <2>1, <2>2
<1>7. ASSUME NEW g \in Goals,
             \/ CancelDeadline(g) \/ Release(g) \/ AcceptResponse(g)
             \/ RejectResponse(g) \/ ResultCallback(g) \/ CancelReply(g)
      PROVE  IInv'
  BY <1>7, DeadlineKeeps, ReleaseKeeps, AcceptKeeps, RejectKeeps, ResultKeeps, ReplyKeeps
<1>8. CASE Server
  BY <1>8, ServerKeeps DEF Server
<1> QED
  BY <1>1, <1>2, <1>3, <1>4, <1>5, <1>6, <1>7, <1>8 DEF Next, Owner, Callback

\* IInv holds in every reachable state.
THEOREM Inductive == Spec => []IInv
<1>1. Init => IInv
  BY InitHolds
<1>2. IInv /\ [Next]_vars => IInv'
  BY NextKeeps
<1> QED
  BY <1>1, <1>2, PTL DEF Spec

\* The executor's state has its types; in particular the count of pending
\* responses, an unsigned integer in the code, never wraps below zero.
THEOREM TypeCorrect == Spec => []TypeOK
<1>1. IInv => TypeOK
  BY DEF IInv
<1> QED
  BY <1>1, Inductive, PTL

\* A goal that runs at the server is awaited, asked to cancel, or its
\* acceptance is on the way.
THEOREM NoneAbandoned == Spec => []NoGoalAbandoned
<1>1. IInv => NoGoalAbandoned
  <2> SUFFICES ASSUME IInv, NEW g \in Goals, server[g] = "executing"
               PROVE  Current(g) \/ cancel[g] # "none" \/ request[g] = "accepting"
    BY DEF NoGoalAbandoned
  <2>1. g # None
    BY GoalsAssumption
  <2> QED
    BY <2>1 DEF IInv, RunningIsHandled, HandleIsCurrent, Current
<1> QED
  BY <1>1, Inductive, PTL

\* A counter of zero and no owned goal leave nothing in flight or running.
LEMMA DrainedStates == ASSUME IInv PROVE DrainedMeansQuiet
<1> SUFFICES ASSUME DrainState = "cancel_drained", NEW g \in Goals
             PROVE  ~InFlight(g) /\ ~Live(g)
  BY DEF DrainedMeansQuiet
<1>1. ~(pending > 0) /\ owned = {}
  BY DEF DrainState
<1>2. pending = 0
  BY <1>1 DEF IInv, TypeOK
<1>3. Flying \in SUBSET Goals /\ Cardinality(Flying) = 0
  BY <1>2 DEF Flying, IInv, PendingCounts
<1>4. Flying = {}
  BY <1>3, GoalsAssumption, FS_Subset, FS_EmptySet
<1>5. ~InFlight(g)
  BY <1>4 DEF Flying
<1> QED
  BY <1>1, <1>5 DEF IInv, GoalsAreOwned, InFlight

\* cancel_drained means that no goal is in flight and none runs.
THEOREM DrainedIsQuiet == Spec => []DrainedMeansQuiet
<1>1. IInv => DrainedMeansQuiet
  BY DrainedStates
<1> QED
  BY <1>1, Inductive, PTL

\* With a cancellation observer, a refused cancellation is never drained.
THEOREM RefusalIsKept == Observed => (Spec => []RefusalNeverDrains)
<1>1. Observed /\ IInv => RefusalNeverDrains
  BY DEF IInv, CancelsAreTracked, RefusalNeverDrains, DrainState
<1>2. CASE Observed
  <2>1. IInv => RefusalNeverDrains
    BY <1>1, <1>2
  <2>2. Spec => []RefusalNeverDrains
    BY <2>1, Inductive, PTL
  <2> QED
    BY <2>2
<1> QED
  BY <1>2

\* A plan that runs has a timer that will move it on.
THEOREM PlanHasTimer == Spec => []ActivePlanHasTimer
<1>1. IInv => ActivePlanHasTimer
  BY DEF IInv
<1> QED
  BY <1>1, Inductive, PTL

\* A step of a sealed executor: what it held is discarded, its timers are gone
\* and begin refuses.
LEMMA SealedStep ==
  ASSUME IInv, Next, sealed
  PROVE  /\ sealed'
         /\ DrainState = "cancel_drained" => DrainState' = "cancel_drained"
         /\ \A g \in Goals : request[g] \in {"unsent", "held"} =>
                              request'[g] \in {"unsent", "refused"}
<1>1. ~active /\ armed = {} /\ Held = {} /\ handle = None
  BY DEF IInv, NothingLeft
<1>2. ~Begin /\ ~AlreadyInside /\ ~ServerTimer /\ ~RetryTimer /\ ~GoalTimer
  BY <1>1 DEF Begin, AlreadyInside, ServerTimer, RetryTimer, GoalTimer
<1>3. Cardinality(Held) = 0
  BY <1>1, FS_EmptySet
<1>4. CASE \E S \in SUBSET owned : Cancel(S) /\ sealed'
  <2> PICK S \in SUBSET owned : Cancel(S) /\ sealed'
    BY <1>4
  <2>1. ~active' /\ owned' = owned /\ fault' = fault /\ pending' = pending
    BY <1>3 DEF Cancel, DropPlan, IInv, TypeOK
  <2>2. request' = request
    BY <1>1 DEF Cancel, Discarded, IInv, TypeOK
  <2>3. owned = {} /\ cancelling = {} => cancelling' = {}
    BY <1>1 DEF Cancel, CancelTracked
  <2>4. DrainState = "cancel_drained" => DrainState' = "cancel_drained"
    BY <1>4, <2>1, <2>3 DEF DrainState
  <2>5. \A g \in Goals : request[g] # "held"
    BY <1>1 DEF Held
  <2> QED
    BY <1>4, <2>2, <2>4, <2>5
<1>5. ASSUME NEW g \in Goals,
             \/ CancelDeadline(g) \/ AcceptResponse(g) \/ RejectResponse(g)
             \/ ResultCallback(g) \/ CancelReply(g)
             \/ ServerDecides(g) \/ ServerEnds(g) \/ ServerCancels(g)
      PROVE  /\ sealed'
             /\ DrainState = "cancel_drained" => DrainState' = "cancel_drained"
             /\ \A h \in Goals : request[h] \in {"unsent", "held"} =>
                                  request'[h] \in {"unsent", "refused"}
  <2> USE DEF vars, planVars, tokenVars, cancelVars, goalVars, Current
  <2>1. sealed'
    BY <1>1, <1>5 DEF CancelDeadline, AcceptResponse, RejectResponse, ResultCallback,
                CancelReply, ServerDecides, ServerEnds, ServerCancels
  <2>2. \A h \in Goals : request[h] # "held"
    BY <1>1 DEF Held
  <2>3. \A h \in Goals : request[h] = "unsent" => request'[h] = "unsent"
    BY <1>5 DEF CancelDeadline, AcceptResponse, RejectResponse, ResultCallback, CancelReply,
                ServerDecides, ServerEnds, ServerCancels, IInv, TypeOK
  <2>4. DrainState = "cancel_drained" => DrainState' = "cancel_drained"
    <3> SUFFICES ASSUME DrainState = "cancel_drained"
                 PROVE  DrainState' = "cancel_drained"
      OBVIOUS
    <3>1. ~fault /\ ~(pending > 0) /\ owned = {} /\ cancelling = {}
      BY DEF DrainState
    <3>2. Flying = {}
      BY <3>1, GoalsAssumption, FS_Subset, FS_EmptySet
         DEF Flying, IInv, TypeOK, PendingCounts
    <3>3. request[g] \notin {"sent", "accepting", "rejecting"}
      BY <3>2 DEF Flying, InFlight
    <3>4. ~active' /\ ~fault'
      <4>1. CASE ServerDecides(g) \/ ServerEnds(g) \/ ServerCancels(g)
        <5>1. UNCHANGED <<active, fault>>
          BY <4>1 DEF ServerDecides, ServerEnds, ServerCancels
        <5> QED
          BY <1>1, <3>1, <5>1
      <4>2. CASE CancelDeadline(g)
        BY <3>1, <4>2 DEF CancelDeadline
      <4>3. CASE AcceptResponse(g) \/ RejectResponse(g)
        BY <3>3, <4>3 DEF AcceptResponse, RejectResponse
      <4>4. CASE ResultCallback(g)
        BY <3>1, <4>4 DEF ResultCallback
      <4>5. CASE CancelReply(g)
        <5>1. fault' = (fault \/ (cancel[g] = "denying" /\ g \in cancelling)) /\ active' = active
          BY <4>5 DEF CancelReply
        <5> QED
          BY <1>1, <3>1, <5>1
      <4> QED
        BY <1>5, <4>1, <4>2, <4>3, <4>4, <4>5
    <3>5. pending' = pending /\ owned' = {} /\ cancelling' = {}
      BY <1>1, <1>5, <3>1, <3>3
         DEF CancelDeadline, AcceptResponse, RejectResponse, ResultCallback, CancelReply,
             ServerDecides, ServerEnds, ServerCancels
    <3> QED
      BY <1>1, <2>1, <3>1, <3>4, <3>5 DEF DrainState
  <2> QED
    BY <2>1, <2>2, <2>3, <2>4
<1>6. CASE \E g \in Goals : Release(g)
  BY <1>6 DEF Release
<1> QED
  BY <1>2, <1>4, <1>5, <1>6
     DEF Next, Owner, Callback, Server, OwnerCancel, OwnerSeal, SealAndCancel

\* A sealed executor stays sealed, sends nothing more and does not take
\* cancel_drained back.
THEOREM SealedIsSilent == Spec => SealedSendsNothing
<1>1. IInv /\ [Next]_vars =>
        [sealed => /\ sealed'
                   /\ DrainState = "cancel_drained" => DrainState' = "cancel_drained"
                   /\ \A g \in Goals : request[g] \in {"unsent", "held"} =>
                                        request'[g] \in {"unsent", "refused"}]_vars
  BY SealedStep
<1> QED
  BY <1>1, Inductive, PTL DEF Spec, SealedSendsNothing

\* A plan that fails an attempt goes on or ends as failed.
LEMMA FailOutcome ==
  ASSUME active, FailAttempt, outcome' # "none"
  PROVE  ~active' /\ outcome' = "failed"
BY DEF FailAttempt, Finish, DropPlan

\* Only a callback of the plan itself, or the owner of a robot that is already
\* there, reports an outcome.
LEMMA OutcomeStep ==
  ASSUME IInv, Next, outcome' # "none"
  PROVE  \/ AlreadyInside
         \/ /\ active /\ ~active'
            /\ outcome' = "reached" => current # None /\ server[current] = "succeeded"
<1>1. armed # {} => active
  BY DEF IInv, NothingLeft
<1>2. CASE Begin \/ OwnerCancel \/ OwnerSeal
  BY <1>2 DEF Begin, OwnerCancel, OwnerSeal, SealAndCancel, Cancel
<1>3. CASE AlreadyInside
  BY <1>3
<1>4. CASE ServerTimer
  BY <1>1, <1>4 DEF ServerTimer, Finish, DropPlan
<1>5. CASE RetryTimer
  BY <1>5 DEF RetryTimer
<1>6. CASE GoalTimer
  BY <1>1, <1>6, FailOutcome DEF GoalTimer, SealAndCancel, Cancel
<1>7. CASE Server
  BY <1>7 DEF Server, ServerDecides, ServerEnds, ServerCancels
<1>8. CASE \E g \in Goals : CancelDeadline(g) \/ Release(g) \/ AcceptResponse(g) \/ CancelReply(g)
  BY <1>8 DEF CancelDeadline, Release, AcceptResponse, CancelReply
<1>9. CASE \E g \in Goals : RejectResponse(g)
  <2> PICK g \in Goals : RejectResponse(g)
    BY <1>9
  <2>1. active /\ GoalRejected
    BY DEF RejectResponse, Current
  <2> QED
    BY <2>1, FailOutcome DEF GoalRejected
<1>10. CASE \E g \in Goals : ResultCallback(g)
  <2> PICK g \in Goals : ResultCallback(g)
    BY <1>10
  <2>1. active /\ g = current /\ g # None /\ PlanAdvances(server[g])
    BY GoalsAssumption DEF ResultCallback, Current
  <2> QED
    BY <2>1, FailOutcome DEF PlanAdvances, Finish, DropPlan
<1> QED
  BY <1>2, <1>3, <1>4, <1>5, <1>6, <1>7, <1>8, <1>9, <1>10 DEF Next, Owner, Callback

\* The completion runs once for a plan, and success follows the success of the
\* goal the plan sent last.
THEOREM OutcomeOfPlan == Spec => OutcomeIsOfPlan
<1>1. IInv /\ [Next]_vars =>
        [outcome' # "none" =>
           \/ AlreadyInside
           \/ /\ active /\ ~active'
              /\ outcome' = "reached" => current # None /\ server[current] = "succeeded"]_vars
  BY OutcomeStep
<1> QED
  BY <1>1, Inductive, PTL DEF Spec, OutcomeIsOfPlan
=============================================================================
