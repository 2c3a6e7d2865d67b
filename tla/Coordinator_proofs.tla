------------------------- MODULE Coordinator_proofs -------------------------
(***************************************************************************)
(* What MCCoordinator checks for two goals and two search requests, proved *)
(* for every number of both, every plan and every startup window, with and *)
(* without search requests: CInv is inductive, one lemma per action, and   *)
(* the coordinator implements the handover of RobotDrive.                  *)
(***************************************************************************)
EXTENDS Coordinator, NavigationExecutor_proofs

\* With nothing held by the deferred client there is nothing to discard.
LEMMA NothingDiscarded ==
  ASSUME TypeOK, Held = {}
  PROVE  Discarded = request /\ Cardinality(Held) = 0
<1>1. \A g \in Goals : g \notin Held
  OBVIOUS
<1>2. Discarded = [g \in Goals |-> request[g]]
  BY <1>1 DEF Discarded
<1>3. request = [g \in Goals |-> request[g]]
  BY DEF TypeOK
<1> QED
  BY <1>2, <1>3, FS_EmptySet

\* A step in which no cancellation begins or ends tells the barrier nothing.
LEMMA NothingNoticed ==
  ASSUME CoordinatorTypeOK, cancelling' = cancelling, NEW begun \in BOOLEAN, Notices(begun)
  PROVE  waiting' = (waiting \/ begun) /\ unconfirmed' = unconfirmed /\ navFault' = navFault
<1>1. CancelRequested = {} /\ CancelOver = {} /\ CancelConfirmed = {}
  BY DEF CancelRequested, CancelOver, CancelConfirmed
<1> QED
  BY <1>1 DEF Notices, CoordinatorTypeOK

\* With no plan, no locked barrier and no seal, no goal of the coordinator
\* runs or can still be accepted.
LEMMA Still == CInv /\ ~active /\ ~NavBlocked /\ ~sealed => Driving = {}
<1> SUFFICES ASSUME CInv, ~active, ~NavBlocked, ~sealed
             PROVE  Driving = {}
  OBVIOUS
<1>1. \A g \in Goals : ~InFlight(g)
  BY DEF CInv, GoalsAreGuarded, NavBlocked
<1>2. ASSUME NEW g \in Goals, Live(g) PROVE FALSE
  <2>1. g \in owned /\ g \notin cancelling /\ ~fault
    BY <1>1, <1>2 DEF CInv, GoalsAreGuarded, NavBlocked, IInv, GoalsAreOwned, InFlight
  <2>2. CASE server[g] = "executing"
    <3>1. cancel[g] # "none" /\ cancel[g] \in CancelStates
      BY <1>1, <2>2 DEF CInv, IInv, RunningIsHandled, InFlight, TypeOK
    <3> QED
      BY <2>1, <3>1, CoordinatorAssumption DEF CInv, IInv, CancelsAreTracked, CancelStates
  <2>3. CASE server[g] = "canceling"
    BY <2>1, <2>3, CoordinatorAssumption DEF CInv, IInv, CancelsAreTracked
  <2> QED
    BY <1>2, <2>2, <2>3 DEF Live
<1> QED
  BY <1>1, <1>2 DEF Driving

\* What a callback does to the plan: none begins one, only one that runs
\* reports an outcome, which ends it, and without an outcome only the seal
\* ends it.
LEMMA CallbackPlan ==
  ASSUME IInv, Callback
  PROVE  /\ active' => active /\ outcome' = "none"
         /\ ~active => outcome' = "none"
         /\ active /\ ~active' /\ outcome' = "none" => sealed'
         /\ sealed => sealed'
         /\ outcome' = "reached" => request' = request /\ ~sealed'
         /\ server' = server
<1> USE DEF planVars, tokenVars, goalVars, cancelVars
<1>1. armed # {} => active /\ ~sealed
  BY DEF IInv, NothingLeft
<1>2. CASE ServerTimer \/ RetryTimer
  BY <1>1, <1>2 DEF ServerTimer, RetryTimer, Finish, DropPlan, Submit
<1>3. CASE GoalTimer
  BY <1>1, <1>3 DEF GoalTimer, FailAttempt, Finish, DropPlan, SealAndCancel, Cancel, CancelTracked
<1>4. CASE \E g \in Goals : CancelDeadline(g) \/ Release(g) \/ AcceptResponse(g) \/ CancelReply(g)
  BY <1>4 DEF CancelDeadline, Release, AcceptResponse, CancelReply
<1>5. CASE \E g \in Goals : RejectResponse(g)
  BY <1>5 DEF RejectResponse, GoalRejected, FailAttempt, Finish, DropPlan, Current
<1>6. CASE \E g \in Goals : ResultCallback(g)
  <2>1. active => ~sealed
    BY DEF IInv, NothingLeft
  <2> QED
    BY <1>6, <2>1 DEF ResultCallback, PlanAdvances, FailAttempt, Finish, DropPlan, Current
<1> QED
  BY <1>2, <1>3, <1>4, <1>5, <1>6 DEF Callback

\* How a callback changes what is in flight: nothing is added, or the goal of
\* a running plan when nothing was in flight.
LEMMA CallbackFlight ==
  ASSUME CInv, Callback
  PROVE  /\ \A g \in Goals : request'[g] # "held"
         /\ \/ \A g \in Goals : InFlight(g)' => InFlight(g)
            \/ /\ active /\ active' /\ \A g \in Goals : ~InFlight(g)
               /\ \E g \in Goals : /\ current' = g
                                   /\ request' = [request EXCEPT ![g] = "sent"]
<1> USE DEF CInv, CoordinatorTypeOK, TypeOK, InFlight
<1> USE DEF planVars, tokenVars, goalVars, cancelVars
<1>0. \A g \in Goals : request[g] # "held"
  BY DEF GoalsAreGuarded, Held
<1>1. CASE ServerTimer \/ RetryTimer
  <2>1. active /\ ~waiting /\ ~sealed
    BY <1>1 DEF ServerTimer, RetryTimer, IInv, NothingLeft, GoalsAreGuarded
  <2>2. \A g \in Goals : ~InFlight(g)
    <3>1. armed \cap {"server", "retry"} # {}
      BY <1>1 DEF ServerTimer, RetryTimer
    <3> QED
      BY <2>1, <3>1, GoalsAssumption DEF IInv, HandleIsCurrent, GoalsAreGuarded
  <2>3. CASE \E g \in Goals : Submit(g, request)
    <3>1. active' = active
      BY <1>1, <2>3 DEF ServerTimer, RetryTimer, Submit, Finish, DropPlan
    <3> QED
      BY <1>0, <2>1, <2>2, <2>3, <3>1, CoordinatorAssumption DEF Submit
  <2>4. CASE request' = request
    BY <1>0, <2>4
  <2> QED
    BY <1>1, <2>3, <2>4 DEF ServerTimer, RetryTimer
<1>2. CASE GoalTimer
  <2>1. Discarded = request
    BY NothingDiscarded DEF GoalsAreGuarded
  <2>2. request' = request
    BY <1>2, <2>1 DEF GoalTimer, SealAndCancel, Cancel
  <2> QED
    BY <1>0, <2>2
<1>3. CASE \E g \in Goals : CancelDeadline(g) \/ CancelReply(g) \/ ResultCallback(g)
  BY <1>0, <1>3 DEF CancelDeadline, CancelReply, ResultCallback
<1>4. CASE \E g \in Goals : Release(g)
  BY <1>0, <1>4 DEF Release
<1>5. CASE \E g \in Goals : AcceptResponse(g) \/ RejectResponse(g)
  BY <1>0, <1>5 DEF AcceptResponse, RejectResponse
<1> QED
  BY <1>1, <1>2, <1>3, <1>4, <1>5 DEF Callback

\* What a callback does to the cancellations: each tracked goal stays owned
\* until its result, and one that is given up leaves the fault.
LEMMA CallbackCancels ==
  ASSUME CInv, Callback
  PROVE  /\ cancelling' \subseteq owned'
         /\ fault' => fault \/ \E g \in CancelOver \ CancelConfirmed : g \in unconfirmed
         /\ CancelOver \ CancelConfirmed # {} => fault'
<1> USE DEF CInv, CoordinatorTypeOK, TypeOK, GoalsAreGuarded
<1> USE DEF CancelOver, CancelConfirmed, planVars, tokenVars, goalVars, cancelVars
<1>1. CASE ServerTimer \/ RetryTimer
  BY <1>1 DEF ServerTimer, RetryTimer
<1>2. CASE GoalTimer
  <2>1. cancelling' = cancelling \cup (IF handle # None THEN {handle} ELSE owned)
        /\ fault' = fault /\ owned' = owned
    BY <1>2, CoordinatorAssumption DEF GoalTimer, SealAndCancel, Cancel, CancelTracked
  <2> QED
    BY <2>1 DEF IInv, HandleIsCurrent
<1>3. CASE \E g \in Goals : CancelDeadline(g)
  <2> PICK g \in Goals : CancelDeadline(g)
    BY <1>3
  <2>1. g \in owned /\ g \in unconfirmed
    BY DEF CancelDeadline
  <2> QED
    BY <2>1 DEF CancelDeadline
<1>4. CASE \E g \in Goals : CancelReply(g)
  <2> PICK g \in Goals : CancelReply(g)
    BY <1>4
  <2>1. owned' = owned
    BY DEF CancelReply
  <2>2. CASE cancel[g] = "denying" /\ g \in cancelling
    <3>1. fault' = TRUE /\ cancelling' = cancelling \ {g}
      BY <2>2 DEF CancelReply
    <3>2. g \in owned /\ g \in unconfirmed
      BY <2>2
    <3>3. g \in CancelOver \ CancelConfirmed
      BY <2>1, <2>2, <3>1, <3>2
    <3>4. cancelling' \subseteq owned'
      BY <2>1, <3>1
    <3> QED
      BY <3>1, <3>2, <3>3, <3>4
  <2>3. CASE ~(cancel[g] = "denying" /\ g \in cancelling)
    <3>1. cancelling' = cancelling
      BY <2>3 DEF CancelReply
    <3>2. fault' = (fault \/ (cancel[g] = "denying" /\ g \in cancelling))
      BY DEF CancelReply
    <3>3. fault' => fault
      BY <2>3, <3>2
    <3>4. CancelOver = {}
      BY <3>1
    <3> QED
      BY <2>1, <3>1, <3>3, <3>4
  <2> QED
    BY <2>2, <2>3
<1>5. CASE \E g \in Goals : Release(g)
  BY <1>5 DEF Release
<1>6. CASE \E g \in Goals : AcceptResponse(g)
  BY <1>6, CoordinatorAssumption DEF AcceptResponse, CancelTracked
<1>7. CASE \E g \in Goals : RejectResponse(g)
  BY <1>7 DEF RejectResponse
<1>8. CASE \E g \in Goals : ResultCallback(g)
  BY <1>8 DEF ResultCallback
<1> QED
  BY <1>1, <1>2, <1>3, <1>4, <1>5, <1>6, <1>7, <1>8 DEF Callback

\* A request that stays in flight through a callback is still guarded: by the
\* plan that waits for it, the barrier or the seal.
LEMMA CallbackGuards ==
  ASSUME CInv, Callback, Notices(FALSE), NEW g \in Goals, InFlight(g), InFlight(g)'
  PROVE  (active' /\ g = current') \/ waiting' \/ sealed'
<1> USE DEF CInv, CoordinatorTypeOK, TypeOK, InFlight
<1> USE DEF planVars, tokenVars, goalVars, cancelVars
<1>1. ~sealed => ~ServerTimer /\ ~RetryTimer /\ (active /\ g = current => handle = None)
  <2>1. CASE armed \cap {"server", "retry"} # {}
    BY <2>1, GoalsAssumption DEF IInv, NothingLeft, HandleIsCurrent, GoalsAreGuarded
  <2>2. CASE armed \cap {"server", "retry"} = {}
    BY <2>2 DEF IInv, HandleIsCurrent, GoalsAreOwned, ServerTimer, RetryTimer
  <2> QED
    BY <2>1, <2>2
<1>2. CASE sealed
  BY <1>2, CallbackPlan
<1>3. CASE ~sealed /\ active /\ g = current
  <2>1. CASE GoalTimer
    BY <1>1, <1>3, <2>1 DEF GoalTimer, SealAndCancel
  <2>2. CASE \E h \in Goals : CancelDeadline(h) \/ CancelReply(h) \/ Release(h) \/ AcceptResponse(h)
    BY <1>3, <2>2 DEF CancelDeadline, CancelReply, Release, AcceptResponse
  <2>3. ASSUME NEW h \in Goals, RejectResponse(h) \/ ResultCallback(h)
        PROVE  active' /\ current' = current
    <3>1. h # g
      BY <2>3 DEF RejectResponse, ResultCallback, IInv, GoalsAreOwned
    <3> QED
      BY <1>3, <2>3, <3>1 DEF RejectResponse, ResultCallback, Current
  <2> QED
    BY <1>1, <1>3, <2>1, <2>2, <2>3 DEF Callback
<1>4. CASE ~sealed /\ waiting
  <2>1. ~active /\ ~GoalTimer
    BY <1>4 DEF GoalsAreGuarded, IInv, NothingLeft, GoalTimer
  <2>2. CASE \E h \in Goals : CancelDeadline(h) \/ CancelReply(h) \/ Release(h)
                                \/ RejectResponse(h) \/ ResultCallback(h)
    <3>1. CancelRequested = {}
      BY <2>2 DEF CancelDeadline, CancelReply, Release, RejectResponse, ResultCallback,
                  CancelRequested
    <3> QED
      BY <1>4, <3>1 DEF Notices
  <2>3. CASE \E h \in Goals : AcceptResponse(h)
    BY <2>3 DEF AcceptResponse, GoalsAreGuarded
  <2> QED
    BY <1>1, <1>4, <2>1, <2>2, <2>3 DEF Callback
<1> QED
  BY <1>2, <1>3, <1>4 DEF GoalsAreGuarded

\* A callback keeps the goals guarded.
LEMMA CallbackKeepsGoals ==
  ASSUME CInv, Callback, Notices(FALSE), TypeOK'
  PROVE  GoalsAreGuarded'
<1> USE DEF CInv, CoordinatorTypeOK
<1>1. Held' = {}
  BY CallbackFlight DEF Held, InFlight, GoalsAreGuarded, TypeOK
<1>2. active' => ~waiting'
  BY CallbackPlan DEF GoalsAreGuarded, Notices
<1>3. fault' => navFault'
  BY CallbackCancels DEF GoalsAreGuarded, Notices
<1>4. cancelling' \subseteq owned' \cap unconfirmed'
  <2>1. cancelling' \cap CancelConfirmed = {} /\ cancelling' \subseteq unconfirmed \cup CancelRequested
    BY DEF CancelConfirmed, CancelOver, CancelRequested, GoalsAreGuarded
  <2> QED
    BY <2>1, CallbackCancels DEF Notices
<1>5. ASSUME NEW g \in Goals, InFlight(g)'
      PROVE  /\ (active' /\ g = current') \/ waiting' \/ sealed'
             /\ \A h \in Goals : InFlight(h)' => h = g
  <2>1. CASE \A h \in Goals : InFlight(h)' => InFlight(h)
    BY <1>5, <2>1, CallbackGuards DEF GoalsAreGuarded
  <2>2. CASE active' /\ \E h \in Goals : /\ current' = h /\ \A k \in Goals : ~InFlight(k)
                                         /\ request' = [request EXCEPT ![h] = "sent"]
    BY <1>5, <2>2 DEF InFlight, TypeOK
  <2> QED
    BY <2>1, <2>2, CallbackFlight
<1> QED
  BY <1>1, <1>2, <1>3, <1>4, <1>5 DEF GoalsAreGuarded

\* stopNavigation keeps the goals guarded: a goal in flight passes from the
\* plan to the barrier.
LEMMA StopKeepsGoals ==
  ASSUME CInv, StopNavigation
  PROVE  /\ GoalsAreGuarded' /\ IInv'
         /\ ~active' /\ request' = request /\ server' = server /\ sealed' = sealed
<1> USE DEF CInv, CoordinatorTypeOK
<1> USE DEF planVars, tokenVars, goalVars, cancelVars
<1>1. IInv'
  BY NextKeeps DEF StopNavigation, Next, Owner
<1>2. Discarded = request
  BY NothingDiscarded DEF GoalsAreGuarded
<1>3. /\ ~active' /\ request' = request /\ server' = server /\ sealed' = sealed
      /\ fault' = fault /\ owned' = owned
      /\ cancelling' = cancelling \cup ({handle} \ {None})
  BY <1>2, CoordinatorAssumption DEF StopNavigation, OwnerCancel, Cancel, DropPlan, CancelTracked
<1>4. CancelOver = {} /\ CancelConfirmed = {} /\ CancelRequested = ({handle} \ {None}) \ cancelling
  BY <1>3 DEF CancelOver, CancelConfirmed, CancelRequested
<1>5. /\ waiting' = ((waiting \/ active) /\ CancelRequested = {})
      /\ unconfirmed' = unconfirmed \cup CancelRequested
      /\ navFault' = navFault
  BY <1>4 DEF StopNavigation, Notices
<1>6. handle # None => handle \in owned
  BY DEF IInv, HandleIsCurrent
<1>7. ASSUME NEW g \in Goals, InFlight(g)' PROVE waiting' \/ sealed'
  <2>1. InFlight(g)
    BY <1>3, <1>7 DEF InFlight
  <2>2. CASE active /\ g = current
    <3>1. handle = None
      BY <2>1, <2>2 DEF IInv, HandleIsCurrent, GoalsAreOwned, InFlight
    <3> QED
      BY <1>4, <1>5, <2>2, <3>1
  <2>3. CASE waiting
    <3>1. handle = None
      BY <2>3 DEF GoalsAreGuarded, IInv, NothingLeft
    <3> QED
      BY <1>4, <1>5, <2>3, <3>1
  <2>4. CASE sealed
    BY <1>3, <2>4
  <2> QED
    BY <2>1, <2>2, <2>3, <2>4 DEF GoalsAreGuarded
<1>8. GoalsAreGuarded'
  BY <1>3, <1>4, <1>5, <1>6, <1>7 DEF GoalsAreGuarded, Held, InFlight
<1> QED
  BY <1>1, <1>3, <1>8

\* begin with no barrier locked, no plan and no seal sends at most one goal,
\* and nothing else is in flight.
LEMMA BeginKeepsGoals ==
  ASSUME CInv, Begin, Notices(FALSE), ~active, ~NavBlocked
  PROVE  /\ GoalsAreGuarded' /\ IInv' /\ server' = server
         /\ \A h \in Goals : InFlight(h)' => h = current'
         /\ \A h \in Goals : ~InFlight(h)
<1> USE DEF CInv, CoordinatorTypeOK
<1>1. IInv'
  BY NextKeeps DEF Next, Owner
<1>2. Discarded = request /\ handle = None
  BY NothingDiscarded DEF GoalsAreGuarded, IInv, NothingLeft
<1>3. /\ ~sealed /\ sealed' = sealed /\ active' /\ server' = server
      /\ fault' = fault /\ owned' = owned /\ cancelling' = cancelling
  BY <1>2, CoordinatorAssumption DEF Begin, CancelTracked
<1>4. waiting' = waiting /\ unconfirmed' = unconfirmed /\ navFault' = navFault
  BY <1>3, NothingNoticed
<1>5. \A h \in Goals : ~InFlight(h)
  BY <1>3 DEF GoalsAreGuarded, NavBlocked
<1>6. \/ request' = request
      \/ \E g \in Goals : current' = g /\ request' = [request EXCEPT ![g] = "sent"]
  BY <1>2, CoordinatorAssumption DEF Begin, Submit
<1>7. \/ \A h \in Goals : ~InFlight(h)'
      \/ current' \in Goals /\ \A h \in Goals : InFlight(h)' => h = current' /\ request'[h] = "sent"
  BY <1>5, <1>6 DEF InFlight, TypeOK
<1>8. GoalsAreGuarded'
  BY <1>3, <1>4, <1>7 DEF GoalsAreGuarded, Held, InFlight, NavBlocked
<1> QED
  BY <1>1, <1>3, <1>5, <1>7, <1>8

\* The server keeps the goals guarded: what it decides stays in flight.
LEMMA ServerKeepsGoals ==
  ASSUME CInv, Server, UNCHANGED navBarrier
  PROVE  /\ GoalsAreGuarded' /\ IInv' /\ active' = active
         /\ \A g \in Goals : InFlight(g)' = InFlight(g) /\ (Live(g)' => InFlight(g) \/ Live(g))
<1> USE DEF CInv, CoordinatorTypeOK, TypeOK, Server, ServerDecides, ServerEnds, ServerCancels
<1> USE DEF planVars, tokenVars, goalVars, cancelVars
<1>1. IInv'
  BY NextKeeps DEF Next
<1>2. /\ active' = active /\ current' = current /\ sealed' = sealed
      /\ cancelling' = cancelling /\ owned' = owned /\ fault' = fault
  OBVIOUS
<1>3. \A g \in Goals : InFlight(g)' = InFlight(g)
  BY DEF InFlight
<1>4. \A g \in Goals : request'[g] = "held" => request[g] = "held"
  OBVIOUS
<1>5. \A g \in Goals : Live(g)' => InFlight(g) \/ Live(g)
  BY DEF InFlight, Live, Terminal
<1>6. GoalsAreGuarded'
  BY <1>2, <1>3, <1>4 DEF GoalsAreGuarded, Held, navBarrier
<1> QED
  BY <1>1, <1>2, <1>3, <1>5, <1>6

\* A step of the coordinator that leaves the executor alone keeps its goals
\* guarded.
LEMMA IdleKeepsGoals ==
  ASSUME CInv, UNCHANGED <<vars, navBarrier>>
  PROVE  /\ GoalsAreGuarded' /\ IInv' /\ active' = active
         /\ request' = request /\ server' = server
<1>1. IInv'
  BY NextKeeps DEF CInv
<1> QED
  BY <1>1 DEF CInv, GoalsAreGuarded, Held, InFlight, navBarrier,
              vars, planVars, tokenVars, goalVars, cancelVars

SearchTypeOK ==
  /\ searchPending \in BOOLEAN /\ searchFault \in BOOLEAN
  /\ cancelledTask \in Requests \cup {None} /\ requestId \in Requests \cup {None}
  /\ published \in SUBSET Requests

\* invalidateSearchRequest leaves no active request, and the barrier waits
\* for the one that was.
LEMMA InvalidateKeepsSearches ==
  ASSUME CInv, NEW latched \in BOOLEAN, Invalidate(latched), UNCHANGED execution,
         active' => active
  PROVE  /\ SearchesAreGuarded' /\ SearchTypeOK' /\ requestId' = None
         /\ Searching' = Searching
<1> USE DEF CInv, CoordinatorTypeOK, SearchTypeOK, execution
<1>1. /\ requestId' = None /\ published' = published /\ search' = search
      /\ statuses' = statuses
  BY DEF Invalidate, Invalidates, SearchesAreGuarded, searchBarrier, requestVars
<1>2. Searching' = Searching
  BY <1>1 DEF Searching
<1>3. SearchTypeOK'
  BY DEF Invalidate, searchBarrier, requestVars
<1>4. CASE Invalidates
  <2>1. ~searchPending /\ ~searchFault
    BY <1>4 DEF Invalidates, RequestMatchesTask
  <2>2. cancelledTask' = requestId /\ searchPending' = TRUE
    BY <1>4, <2>1 DEF Invalidate
  <2> QED
    BY <1>1, <1>2, <1>3, <2>1, <2>2 DEF SearchesAreGuarded
<1>5. CASE ~Invalidates
  <2>1. requestId' = requestId /\ UNCHANGED searchBarrier
    BY <1>5 DEF Invalidate, requestVars
  <2> QED
    BY <1>1, <1>2, <1>3, <2>1 DEF SearchesAreGuarded, searchBarrier
<1> QED
  BY <1>4, <1>5

\* publishSearchRequest, with the search barrier open if anything is
\* published: then no other request runs or can still be taken up.
LEMMA PublishKeepsSearches ==
  ASSUME CInv, NEW blocked \in BOOLEAN, PublishSearchRequest(blocked),
         ~blocked => ~SearchBlocked, UNCHANGED <<searchBarrier, execution>>, ~active'
  PROVE  /\ SearchesAreGuarded' /\ SearchTypeOK'
         /\ \/ requestId' = requestId /\ Searching' = Searching
            \/ /\ ~blocked /\ requestId = None /\ requestId' \in Requests
               /\ Searching = {} /\ Searching' = {requestId'}
<1> USE DEF CInv, CoordinatorTypeOK, SearchTypeOK, execution, searchBarrier
<1>1. CASE UNCHANGED requestVars
  BY <1>1 DEF SearchesAreGuarded, Searching, requestVars
<1>2. CASE SearchEnabled /\ ~blocked /\ requestId = None
           /\ \E r \in Requests \ published : requestId' = r /\ published' = published \cup {r}
  <2> PICK r \in Requests \ published : requestId' = r /\ published' = published \cup {r}
    BY <1>2
  <2>1. Searching = {}
    BY <1>2, CoordinatorAssumption DEF SearchesAreGuarded, SearchBlocked, Searching
  <2>2. search[r] = "idle"
    BY DEF SearchesAreGuarded
  <2>3. Searching' = {r}
    BY <2>1, <2>2 DEF Searching
  <2> QED
    BY <1>2, <2>1, <2>3 DEF SearchesAreGuarded
<1> QED
  BY <1>1, <1>2 DEF PublishSearchRequest

BarrierTypeOK ==
  waiting \in BOOLEAN /\ unconfirmed \in SUBSET Goals /\ navFault \in BOOLEAN

\* The barrier keeps its types whatever it is told.
LEMMA NoticeTypes ==
  ASSUME CInv, TypeOK', \/ \E begun \in BOOLEAN : Notices(begun)
                        \/ UNCHANGED navBarrier
  PROVE  BarrierTypeOK'
BY DEF CInv, CoordinatorTypeOK, BarrierTypeOK, TypeOK, Notices, CancelRequested, navBarrier

\* The types of the coordinator, part by part.
LEMMA TypesOfParts ==
  ASSUME CInv, TypeOK', BarrierTypeOK', SearchTypeOK', UNCHANGED execution,
         state' \in TaskStates, environment' \in BOOLEAN
  PROVE  CoordinatorTypeOK'
BY DEF CInv, CoordinatorTypeOK, BarrierTypeOK, SearchTypeOK, execution

\* A message that ends or changes the task: the request is invalidated, and
\* either the executor is stopped or no plan runs.
LEMMA EndingKeeps ==
  ASSUME CInv, NEW latched \in BOOLEAN, Invalidate(latched), UNCHANGED execution,
         StopNavigation \/ (UNCHANGED <<vars, navBarrier>>
                            /\ (active => state' = "kNavigatingToRoom")),
         state' \in TaskStates, environment' \in BOOLEAN
  PROVE  /\ CInv' /\ requestId' = None /\ Searching' = Searching
         /\ request' = request /\ server' = server /\ (active' => active)
<1>1. /\ GoalsAreGuarded' /\ IInv' /\ request' = request /\ server' = server
      /\ active' => active /\ state' = "kNavigatingToRoom"
  BY StopKeepsGoals, IdleKeepsGoals
<1>2. SearchesAreGuarded' /\ SearchTypeOK' /\ requestId' = None /\ Searching' = Searching
  BY <1>1, InvalidateKeepsSearches
<1>3. \/ \E begun \in BOOLEAN : Notices(begun)
      \/ UNCHANGED navBarrier
  BY DEF StopNavigation, CInv, CoordinatorTypeOK, TypeOK
<1>4. CoordinatorTypeOK'
  BY <1>1, <1>2, <1>3, NoticeTypes, TypesOfParts DEF IInv
<1> QED
  BY <1>1, <1>2, <1>4 DEF CInv, PlanMatchesTask, RequestMatchesTask

\* The end of a navigation, reported by a callback, gives up the task or
\* searches the room, and may publish a request.
LEMMA CallbackKeeps ==
  ASSUME CInv, NavigationCallback
  PROVE  CInv'
<1> USE DEF NavigationCallback
<1>1. IInv' /\ TypeOK'
  BY NextKeeps DEF Next, CInv, IInv
<1>2. GoalsAreGuarded'
  BY <1>1, CallbackKeepsGoals
<1>3. BarrierTypeOK'
  BY <1>1, NoticeTypes
<1>4. CASE outcome' = "none"
  <2>1. UNCHANGED <<taskVars, requestVars, searchBarrier, execution>> /\ (active' => active)
    BY <1>4, CallbackPlan DEF HandleOutcome, CInv
  <2>2. SearchesAreGuarded' /\ SearchTypeOK' /\ PlanMatchesTask' /\ RequestMatchesTask'
    BY <2>1 DEF CInv, SearchesAreGuarded, Searching, SearchTypeOK, PlanMatchesTask,
                RequestMatchesTask, CoordinatorTypeOK,
                taskVars, requestVars, searchBarrier, execution
  <2>3. state' \in TaskStates /\ environment' \in BOOLEAN
    BY <2>1 DEF CInv, CoordinatorTypeOK, taskVars
  <2> QED
    BY <1>1, <1>2, <1>3, <2>1, <2>2, <2>3, TypesOfParts DEF CInv
<1>5. CASE outcome' # "none"
  <2>1. active /\ ~active' /\ state = "kNavigatingToRoom" /\ requestId = None
    BY <1>5, CallbackPlan DEF CInv, PlanMatchesTask, RequestMatchesTask
  <2>2. CASE outcome' = "failed"
    <3>1. state' = "kWaitingModeratorResult" /\ environment' = environment
          /\ UNCHANGED <<requestVars, searchBarrier, execution>>
      BY <2>1, <2>2 DEF HandleOutcome, GaveUp, GiveUpStates, TaskStates
    <3>2. SearchesAreGuarded' /\ SearchTypeOK' /\ PlanMatchesTask' /\ RequestMatchesTask'
      BY <2>1, <3>1 DEF CInv, SearchesAreGuarded, Searching, SearchTypeOK, PlanMatchesTask,
                  RequestMatchesTask, CoordinatorTypeOK,
                  requestVars, searchBarrier, execution
    <3>3. state' \in TaskStates /\ environment' \in BOOLEAN
      BY <3>1 DEF CInv, CoordinatorTypeOK, TaskStates
    <3> QED
      BY <1>1, <1>2, <1>3, <3>1, <3>2, <3>3, TypesOfParts DEF CInv
  <2>3. CASE outcome' = "reached"
    <3>1. state' = "kSearchingObject" /\ environment' = environment
          /\ PublishSearchRequest(SearchBlocked \/ NavBlocked')
      BY <2>1, <2>3 DEF HandleOutcome, Enabled, Step
    <3>2. SearchesAreGuarded' /\ SearchTypeOK' /\ (requestId' # None => ~SearchBlocked)
      <4>1. (SearchBlocked \/ NavBlocked') \in BOOLEAN
        BY DEF SearchBlocked, NavBlocked, CInv, CoordinatorTypeOK
      <4> QED
        BY <2>1, <3>1, <4>1, PublishKeepsSearches
    <3>3. PlanMatchesTask' /\ RequestMatchesTask'
      BY <2>1, <3>1, <3>2 DEF PlanMatchesTask, RequestMatchesTask, SearchBlocked, searchBarrier
    <3>4. state' \in TaskStates /\ environment' \in BOOLEAN
      BY <3>1 DEF CInv, CoordinatorTypeOK, TaskStates
    <3> QED
      BY <1>1, <1>2, <1>3, <3>2, <3>3, <3>4, TypesOfParts DEF CInv
  <2>4. outcome' \in Outcomes
    BY <1>1 DEF TypeOK
  <2> QED
    BY <1>5, <2>2, <2>3, <2>4 DEF Outcomes
<1> QED
  BY <1>4, <1>5

\* An accepted instruction finds no plan running; one that is corrected and
\* stops the navigation changes nothing of the executor's goals.
LEMMA InstructionState ==
  ASSUME CInv, NEW corrected \in BOOLEAN, InstructionAccepted(state, corrected)
  PROVE  ~active
BY DEF CInv, PlanMatchesTask, InstructionAccepted

\* startRoomNavigation with no barrier locked.
LEMMA StartKeeps ==
  ASSUME CInv, StartRoomNavigation, ~active, ~DispatchBlocked, ~Invalidates,
         UNCHANGED <<environment, searchBarrier, execution>>
  PROVE  CInv'
<1> USE DEF StartRoomNavigation
<1>1. requestId = None /\ Searching = {} /\ ~SearchBlocked /\ ~NavBlocked
  BY CoordinatorAssumption
     DEF CInv, CoordinatorTypeOK, DispatchBlocked, SearchBlocked, Invalidates,
         SearchesAreGuarded, Searching
<1>2. environment' \in BOOLEAN
  BY DEF CInv, CoordinatorTypeOK
<1>3. CASE Begin /\ state' = "kNavigatingToRoom" /\ UNCHANGED requestVars
  <2>1. GoalsAreGuarded' /\ IInv'
    BY <1>1, <1>3, BeginKeepsGoals
  <2>2. SearchesAreGuarded' /\ SearchTypeOK'
    BY <1>1, <1>3 DEF CInv, CoordinatorTypeOK, SearchesAreGuarded, Searching, SearchTypeOK,
                searchBarrier, requestVars, execution
  <2>3. requestId' = None
    BY <1>1, <1>3 DEF requestVars
  <2>4. CoordinatorTypeOK'
    BY <1>2, <1>3, <2>1, <2>2, NoticeTypes, TypesOfParts DEF IInv, TaskStates
  <2> QED
    BY <1>3, <2>1, <2>2, <2>3, <2>4 DEF CInv, PlanMatchesTask, RequestMatchesTask
<1>4. CASE AlreadyInside /\ state' = "kSearchingObject" /\ PublishSearchRequest(FALSE)
  <2>1. IInv' /\ ~active'
    BY <1>4, NextKeeps DEF CInv, Next, Owner, AlreadyInside, planVars
  <2>2. UNCHANGED navBarrier
    BY <1>4, NothingNoticed DEF CInv, AlreadyInside, cancelVars, navBarrier, CoordinatorTypeOK
  <2>3. GoalsAreGuarded'
    BY <1>4, <2>2 DEF CInv, AlreadyInside, GoalsAreGuarded, Held, InFlight, navBarrier,
                planVars, tokenVars, goalVars, cancelVars
  <2>4. SearchesAreGuarded' /\ SearchTypeOK'
    BY <1>1, <1>4, <2>1, PublishKeepsSearches
  <2>5. CoordinatorTypeOK'
    BY <1>2, <1>4, <2>1, <2>4, NoticeTypes, TypesOfParts DEF IInv, TaskStates
  <2> QED
    BY <1>1, <1>4, <2>1, <2>3, <2>4, <2>5
       DEF CInv, PlanMatchesTask, RequestMatchesTask, SearchBlocked, searchBarrier
<1>5. CASE /\ state' = GaveUp("kNavigatingToRoom") /\ UNCHANGED requestVars
           /\ (sealed /\ ExecutorIdle) \/ (~sealed /\ OwnerCancel)
  <2>1. state' = "kWaitingModeratorResult"
    BY <1>5 DEF GaveUp, GiveUpStates, TaskStates
  <2>2. Invalidate(FALSE)
    BY <1>5 DEF Invalidate
  <2>3. StopNavigation \/ UNCHANGED <<vars, navBarrier>>
    <3>1. CASE ExecutorIdle
      BY <3>1, NothingNoticed DEF CInv, CoordinatorTypeOK, ExecutorIdle, vars, cancelVars, navBarrier
    <3>2. active = FALSE
      BY DEF CInv, CoordinatorTypeOK, TypeOK
    <3> QED
      BY <1>5, <3>1, <3>2 DEF StopNavigation
  <2> QED
    BY <1>2, <2>1, <2>2, <2>3, EndingKeeps DEF TaskStates
<1> QED
  BY <1>3, <1>4, <1>5

\* An instruction.
LEMMA InstructionKeeps ==
  ASSUME CInv, NEW corrected \in BOOLEAN, Instruction(corrected)
  PROVE  CInv'
<1> DEFINE stops   == corrected /\ SearchEnabled
           blocked == DispatchBlocked \/ Invalidates \/ (stops /\ active)
           Stop    == IF stops THEN StopNavigation ELSE ExecutorIdle /\ UNCHANGED navBarrier
<1>1. ~active /\ environment' = environment /\ UNCHANGED execution
  BY InstructionState DEF Instruction
<1>2. environment' \in BOOLEAN
  BY <1>1 DEF CInv, CoordinatorTypeOK
<1>3. CASE state' \in {"kRecovering", "kNavigatingToRoom"} /\ Stop /\ Invalidate(FALSE)
  <2>1. StopNavigation \/ UNCHANGED <<vars, navBarrier>>
    BY <1>3 DEF ExecutorIdle
  <2> QED
    BY <1>1, <1>2, <1>3, <2>1, EndingKeeps DEF TaskStates
<1>4. CASE ~blocked /\ StartRoomNavigation /\ UNCHANGED searchBarrier
  BY <1>1, <1>4, StartKeeps
<1> QED
  BY <1>3, <1>4 DEF Instruction

\* The other messages of the moderator.
LEMMA ModeratorKeeps ==
  ASSUME CInv, Environment \/ AreYouReady \/ TaskSucceeded \/ TaskFailed \/ MissionComplete
  PROVE  CInv'
<1> USE DEF Environment, AreYouReady, TaskSucceeded, TaskFailed, MissionComplete
<1>1. state \in TaskStates /\ environment \in BOOLEAN
  BY DEF CInv, CoordinatorTypeOK
<1>2. CASE Environment \/ AreYouReady
  <2>1. GoalsAreGuarded' /\ IInv' /\ active' = active
    BY <1>2, IdleKeepsGoals
  <2>2. CoordinatorTypeOK'
    <3>1. state' \in TaskStates /\ environment' \in BOOLEAN
      BY <1>1, <1>2 DEF TaskStates
    <3>2. SearchTypeOK' /\ BarrierTypeOK'
      BY <1>2 DEF CInv, CoordinatorTypeOK, SearchTypeOK, BarrierTypeOK,
                  navBarrier, searchBarrier, requestVars
    <3> QED
      BY <1>2, <2>1, <3>1, <3>2, TypesOfParts DEF IInv
  <2>3. SearchesAreGuarded' /\ PlanMatchesTask' /\ RequestMatchesTask'
    BY <1>2, <2>1 DEF CInv, SearchesAreGuarded, Searching, PlanMatchesTask, RequestMatchesTask,
                ReadyAccepted, searchBarrier, requestVars, execution
  <2> QED
    BY <2>1, <2>2, <2>3 DEF CInv
<1>3. CASE TaskSucceeded
  <2>1. active => state' = "kNavigatingToRoom"
    BY <1>3 DEF CInv, PlanMatchesTask, SuccessAccepted, taskVars
  <2>2. state' \in TaskStates /\ environment' \in BOOLEAN
    BY <1>1, <1>3 DEF TaskStates, taskVars
  <2> QED
    BY <1>3, <2>1, <2>2, EndingKeeps
<1>4. CASE TaskFailed \/ MissionComplete
  <2>1. state' \in TaskStates /\ environment' \in BOOLEAN
    BY <1>1, <1>4 DEF TaskStates, taskVars
  <2> QED
    BY <1>4, <2>1, EndingKeeps
<1> QED
  BY <1>2, <1>3, <1>4

\* The messages of the search execution and the deadline of a cancellation.
LEMMA SearchMessageKeeps ==
  ASSUME CInv, SearchMessage
  PROVE  CInv'
<1>1. CASE \E r \in Requests : SearchStopRequested(r) \/ SearchWorkerFault(r)
  <2>1. /\ UNCHANGED <<vars, taskVars, navBarrier, execution>>
        /\ \E latched \in BOOLEAN : Invalidate(latched)
    BY <1>1 DEF SearchStopRequested, SearchWorkerFault
  <2>2. state' \in TaskStates /\ environment' \in BOOLEAN
        /\ (active => state' = "kNavigatingToRoom")
    BY <2>1 DEF CInv, CoordinatorTypeOK, PlanMatchesTask, taskVars
  <2> QED
    BY <2>1, <2>2, EndingKeeps
<1>2. CASE SearchDeadline \/ \E r \in Requests, kind \in StatusKinds : SearchCancelStatus(kind, r)
  <2>1. /\ UNCHANGED <<vars, taskVars, navBarrier, cancelledTask, requestVars, execution>>
        /\ searchPending /\ searchPending' \in BOOLEAN /\ searchFault' \in BOOLEAN
        /\ searchFault => searchFault'
        /\ searchPending' \/ (~searchFault' /\ <<"cancel_drained", cancelledTask>> \in statuses)
    <3>1. CASE SearchDeadline
      BY <3>1 DEF SearchDeadline, CInv, CoordinatorTypeOK
    <3>2. ASSUME NEW r \in Requests, NEW kind \in StatusKinds, SearchCancelStatus(kind, r)
          PROVE  /\ searchPending /\ searchPending' \in BOOLEAN /\ searchFault' \in BOOLEAN
                 /\ searchFault => searchFault'
                 /\ searchPending' \/ (~searchFault' /\ <<"cancel_drained", cancelledTask>> \in statuses)
      <4>1. searchPending /\ searchPending \in BOOLEAN /\ searchFault \in BOOLEAN
        BY <3>2 DEF SearchCancelStatus, CInv, CoordinatorTypeOK
      <4>2. CASE kind = "cancel_failed" /\ searchFault' = TRUE /\ UNCHANGED searchPending
        BY <4>1, <4>2, Zenon
      <4>3. CASE kind = "cancel_drained" /\ ~searchFault
                 /\ searchPending' = FALSE /\ UNCHANGED searchFault
        <5>1. <<"cancel_drained", cancelledTask>> \in statuses
          BY <3>2, <4>3 DEF SearchCancelStatus
        <5> QED
          BY <4>1, <4>3, <5>1, Zenon
      <4> QED
        BY <3>2, <4>2, <4>3 DEF SearchCancelStatus
    <3> QED
      BY <1>2, <3>1, <3>2 DEF SearchCancelStatus
  <2>2. requestId = None
    BY <2>1 DEF CInv, RequestMatchesTask
  <2>3. GoalsAreGuarded' /\ IInv' /\ active' = active
    BY <2>1, IdleKeepsGoals
  <2>4. CoordinatorTypeOK'
    <3>1. state' \in TaskStates /\ environment' \in BOOLEAN /\ SearchTypeOK' /\ BarrierTypeOK'
      BY <2>1 DEF CInv, CoordinatorTypeOK, SearchTypeOK, BarrierTypeOK,
                  taskVars, navBarrier, requestVars
    <3> QED
      BY <2>1, <2>3, <3>1, TypesOfParts DEF IInv
  <2>5. SearchesAreGuarded'
    <3>1. Searching' = Searching
      BY <2>1 DEF Searching, requestVars, execution
    <3>2. ASSUME NEW r \in Searching, r # requestId'
          PROVE  (searchPending' /\ r = cancelledTask') \/ searchFault'
      <4>1. r \in Requests /\ search[r] # "stopped"
        BY DEF Searching, CInv, CoordinatorTypeOK
      <4>2. <<"cancel_drained", r>> \notin statuses
        BY <4>1 DEF CInv, SearchesAreGuarded
      <4>3. r = cancelledTask \/ searchFault
        BY <2>1, <3>2 DEF CInv, SearchesAreGuarded, requestVars
      <4> QED
        BY <2>1, <4>2, <4>3
    <3> QED
      BY <2>1, <2>3, <3>1, <3>2 DEF CInv, SearchesAreGuarded, requestVars, execution
  <2> QED
    BY <2>1, <2>2, <2>3, <2>4, <2>5
       DEF CInv, PlanMatchesTask, RequestMatchesTask, taskVars, requestVars
<1> QED
  BY <1>1, <1>2 DEF SearchMessage

\* A step of the search execution.
LEMMA SearchExecutionKeeps ==
  ASSUME CInv, SearchExecution
  PROVE  CInv' /\ Searching' \in SUBSET Searching
<1> USE DEF CInv, CoordinatorTypeOK
<1>1. /\ UNCHANGED <<vars, coordinator>>
      /\ search' \in [Requests -> {"idle", "running", "stopped"}]
      /\ statuses' \in SUBSET (StatusKinds \X Requests)
      /\ \A r \in Requests : /\ search[r] = "stopped" => search'[r] = "stopped"
                             /\ r \notin published => search'[r] = "idle"
                             /\ <<"cancel_drained", r>> \in statuses' => search'[r] = "stopped"
  <2>1. CASE \E r \in Requests : SearchStarts(r)
    BY <2>1 DEF SearchStarts, SearchesAreGuarded
  <2>2. CASE \E r \in Requests : SearchDrains(r)
    BY <2>2 DEF SearchDrains, Tell, Revoked, StatusKinds, SearchesAreGuarded
  <2>3. CASE \E r \in Requests : SearchFails(r) \/ \E kind \in StatusKinds : SearchReports(kind, r)
    BY <2>3 DEF SearchFails, SearchReports, Tell, StatusKinds, SearchesAreGuarded
  <2> QED
    BY <2>1, <2>2, <2>3 DEF SearchExecution
<1>2. GoalsAreGuarded' /\ IInv' /\ active' = active
  BY <1>1, IdleKeepsGoals DEF coordinator
<1>3. Searching' \in SUBSET Searching
  BY <1>1 DEF Searching, coordinator, requestVars
<1>4. CoordinatorTypeOK'
  BY <1>1, <1>2 DEF IInv, coordinator, taskVars, navBarrier, searchBarrier, requestVars
<1>5. SearchesAreGuarded'
  BY <1>1, <1>2, <1>3 DEF SearchesAreGuarded, coordinator, searchBarrier, requestVars
<1> QED
  BY <1>1, <1>2, <1>3, <1>4, <1>5
     DEF PlanMatchesTask, RequestMatchesTask, coordinator, taskVars, searchBarrier, requestVars

\* A step of the Nav2 server.
LEMMA ServerStepKeeps ==
  ASSUME CInv, ServerStep
  PROVE  CInv'
<1> USE DEF CInv, CoordinatorTypeOK
<1>1. GoalsAreGuarded' /\ IInv' /\ active' = active /\ UNCHANGED <<coordinator, execution>>
  BY ServerKeepsGoals DEF ServerStep, coordinator
<1> QED
  BY <1>1 DEF IInv, SearchesAreGuarded, Searching, PlanMatchesTask, RequestMatchesTask,
              coordinator, execution, taskVars, navBarrier, searchBarrier, requestVars

\* CInv is inductive.
LEMMA CoordinatorKeeps ==
  ASSUME CInv, [CoordinatorNext]_allVars
  PROVE  CInv'
<1>1. CASE CoordinatorNext
  BY <1>1, InstructionKeeps, ModeratorKeeps, SearchMessageKeeps, SearchExecutionKeeps,
     CallbackKeeps, ServerStepKeeps
     DEF CoordinatorNext, Moderator
<1>2. CASE UNCHANGED allVars
  BY <1>2, IdleKeepsGoals
     DEF CInv, CoordinatorTypeOK, IInv, SearchesAreGuarded, Searching, PlanMatchesTask,
         RequestMatchesTask, allVars, coordinator, taskVars, navBarrier, searchBarrier,
         requestVars, execution
<1> QED
  BY <1>1, <1>2

LEMMA CoordinatorStarts == CoordinatorInit => CInv
<1> SUFFICES ASSUME CoordinatorInit PROVE CInv
  OBVIOUS
<1> USE DEF CoordinatorInit
<1>1. IInv
  BY InitHolds
<1>2. CoordinatorTypeOK
  BY <1>1 DEF CoordinatorTypeOK, IInv, After, Enabled, Step, TaskStates
<1>3. GoalsAreGuarded
  BY DEF Init, GoalsAreGuarded, Held, InFlight
<1>4. SearchesAreGuarded
  BY CoordinatorAssumption DEF Init, SearchesAreGuarded, Searching
<1> QED
  BY <1>1, <1>2, <1>3, <1>4 DEF CInv, Init, PlanMatchesTask, RequestMatchesTask

LEMMA CoordinatorInductive == CoordinatorSpec => []CInv
BY CoordinatorStarts, CoordinatorKeeps, PTL DEF CoordinatorSpec

\* The state of the node keeps its types: the task state machine is in one of
\* its states and the barriers speak of known goals and requests.
THEOREM CoordinatorTypes == CoordinatorSpec => []CoordinatorTypeOK
<1>1. CInv => CoordinatorTypeOK
  BY DEF CInv
<1> QED
  BY <1>1, CoordinatorInductive, PTL

\* A plan of the executor runs only for a task that navigates.
THEOREM PlansAreOfTheTask == CoordinatorSpec => []PlanMatchesTask
<1>1. CInv => PlanMatchesTask
  BY DEF CInv
<1> QED
  BY <1>1, CoordinatorInductive, PTL

\* Of all goals that run at the server at most one has not been asked to
\* cancel, however late the acceptances and cancellations of older ones come.
THEOREM OneGoalUncancelled == CoordinatorSpec => []OneUncancelledGoal
<1>1. CInv => OneUncancelledGoal
  <2> SUFFICES ASSUME CInv PROVE OneUncancelledGoal
    OBVIOUS
  <2> DEFINE Uncancelled == {g \in Goals : server[g] = "executing" /\ cancel[g] = "none"}
  <2>1. ASSUME NEW g \in Uncancelled, NEW h \in Uncancelled PROVE g = h
    <3>1. \A k \in Uncancelled : (active /\ handle = k) \/ InFlight(k)
      BY DEF CInv, IInv, RunningIsHandled, InFlight
    <3>2. ASSUME NEW k \in Goals, InFlight(k), active, handle # None PROVE FALSE
      BY <3>2 DEF CInv, GoalsAreGuarded, IInv, NothingLeft, HandleIsCurrent, GoalsAreOwned,
                  InFlight
    <3>3. g # None /\ h # None
      BY GoalsAssumption
    <3> QED
      BY <3>1, <3>2, <3>3 DEF CInv, GoalsAreGuarded
  <2>2. CASE Uncancelled = {}
    BY <2>2, FS_EmptySet DEF OneUncancelledGoal
  <2>3. CASE \E g \in Uncancelled : TRUE
    <3> PICK g \in Uncancelled : TRUE
      BY <2>3
    <3>1. Uncancelled = {g}
      BY <2>1
    <3> QED
      BY <3>1, FS_Singleton DEF OneUncancelledGoal
  <2> QED
    BY <2>2, <2>3
<1> QED
  BY <1>1, CoordinatorInductive, PTL

-----------------------------------------------------------------------------
(* The handover.                                                           *)

\* What drives the robot for the coordinator depends on the requests and on
\* the server only.
LEMMA SameDriving ==
  ASSUME request' = request, server' = server
  PROVE  Driving' = Driving
BY DEF Driving, InFlight, Live

\* A callback submits a goal only for a running plan, and a request follows
\* only a goal that has ended.
LEMMA CallbackHandsOver ==
  ASSUME CInv, CInv', NavigationCallback
  PROVE  [Drive!Next]_<<Driving, Searching>>
<1> USE DEF NavigationCallback
<1>1. server' = server
  BY CallbackPlan DEF CInv
<1>2. CASE outcome' = "none"
  <2>1. Searching' = Searching
    BY <1>2 DEF HandleOutcome, Searching, requestVars, execution
  <2>2. CASE \A g \in Goals : InFlight(g)' => InFlight(g)
    <3>1. Driving' \in SUBSET Driving
      BY <1>1, <2>2 DEF Driving, Live
    <3> QED
      BY <2>1, <3>1 DEF Drive!Next, Drive!GoalsEnd
  <2>3. CASE active /\ \E g \in Goals : request' = [request EXCEPT ![g] = "sent"]
    <3> PICK g \in Goals : request' = [request EXCEPT ![g] = "sent"]
      BY <2>3
    <3>1. Driving' = Driving \cup {g}
      BY <1>1 DEF Driving, Live, InFlight, CInv, CoordinatorTypeOK, TypeOK
    <3>2. Searching = {}
      BY <2>3 DEF CInv, SearchesAreGuarded
    <3> QED
      BY <2>1, <3>1, <3>2 DEF Drive!Next, Drive!Drive
  <2> QED
    BY <2>2, <2>3, CallbackFlight
<1>3. CASE outcome' = "failed"
  <2>1. ~active' /\ Searching' = Searching
    BY <1>3, CallbackPlan DEF CInv, HandleOutcome, Searching, requestVars, execution
  <2>2. Driving' \in SUBSET Driving
    BY <1>1, <2>1, CallbackFlight DEF Driving, Live
  <2> QED
    BY <2>1, <2>2 DEF Drive!Next, Drive!GoalsEnd
<1>4. CASE outcome' = "reached"
  <2>1. ~active' /\ active /\ state = "kNavigatingToRoom" /\ Driving' = Driving
    BY <1>1, <1>4, CallbackPlan, SameDriving DEF CInv, PlanMatchesTask
  <2>2. PublishSearchRequest(SearchBlocked \/ NavBlocked')
    BY <1>4, <2>1 DEF HandleOutcome, Enabled, Step
  <2>3. (SearchBlocked \/ NavBlocked') \in BOOLEAN
    BY DEF SearchBlocked, NavBlocked, CInv, CoordinatorTypeOK
  <2>4. \/ Searching' = Searching
        \/ ~NavBlocked' /\ Searching = {} /\ \E r \in Requests : Searching' = {r}
    BY <2>1, <2>2, <2>3, PublishKeepsSearches
  <2>5. CASE ~NavBlocked' /\ Searching = {} /\ \E r \in Requests : Searching' = {r}
    <3>1. ~sealed'
      BY <1>4, CallbackPlan DEF CInv
    <3>2. (CInv /\ ~active /\ ~NavBlocked /\ ~sealed => Driving = {})'
      BY Still, PTL
    <3>3. Driving' = {}
      BY <2>1, <2>5, <3>1, <3>2
    <3> QED
      BY <2>1, <2>5, <3>3 DEF Drive!Next, Drive!Search
  <2> QED
    BY <2>1, <2>4, <2>5
<1>5. outcome' \in Outcomes
  BY DEF CInv, CoordinatorTypeOK, TypeOK
<1> QED
  BY <1>2, <1>3, <1>4, <1>5 DEF Outcomes

\* A start of the navigation sends a goal over a quiet search, or, in the room
\* already, requests a search over a quiet robot.
LEMMA StartHandsOver ==
  ASSUME CInv, StartRoomNavigation, ~active, ~DispatchBlocked, ~Invalidates,
         UNCHANGED <<environment, searchBarrier, execution>>
  PROVE  [Drive!Next]_<<Driving, Searching>>
<1> USE DEF StartRoomNavigation
<1>1. Searching = {} /\ ~SearchBlocked /\ ~NavBlocked
  BY CoordinatorAssumption
     DEF CInv, CoordinatorTypeOK, DispatchBlocked, SearchBlocked, Invalidates,
         SearchesAreGuarded, Searching
<1>2. CASE Begin /\ UNCHANGED requestVars
  <2>1. server' = server /\ (\A h \in Goals : InFlight(h)' => h = current')
    BY <1>1, <1>2, BeginKeepsGoals
  <2>2. Searching' = Searching
    BY <1>2 DEF Searching, requestVars, execution
  <2>3. ~sealed
    BY <1>2 DEF Begin
  <2>4. Driving = {}
    BY <1>1, <2>3, Still
  <2>5. Driving' = {} \/ (current' \in Goals /\ Driving' = {current'})
    BY <2>1, <2>4 DEF Driving, Live
  <2> QED
    BY <1>1, <2>2, <2>4, <2>5 DEF Drive!Next, Drive!Drive
<1>3. CASE AlreadyInside /\ PublishSearchRequest(FALSE)
  <2>1. ~active' /\ ~sealed /\ Driving' = Driving
    BY <1>3, SameDriving DEF AlreadyInside, planVars, goalVars
  <2>2. Driving = {}
    BY <1>1, <2>1, Still
  <2>3. \/ Searching' = Searching
        \/ \E r \in Requests : Searching' = {r}
    BY <1>1, <1>3, <2>1, PublishKeepsSearches
  <2> QED
    BY <1>1, <2>1, <2>2, <2>3 DEF Drive!Next, Drive!Search
<1>4. CASE /\ UNCHANGED requestVars
           /\ (sealed /\ ExecutorIdle) \/ (~sealed /\ OwnerCancel)
  <2>1. Discarded = request
    BY NothingDiscarded DEF CInv, CoordinatorTypeOK, GoalsAreGuarded
  <2>2. request' = request /\ server' = server
    BY <1>4, <2>1 DEF ExecutorIdle, vars, goalVars, OwnerCancel, Cancel
  <2>3. Driving' = Driving /\ Searching' = Searching
    BY <1>4, <2>2, SameDriving DEF Searching, requestVars, execution
  <2> QED
    BY <2>3
<1> QED
  BY <1>2, <1>3, <1>4

\* What the other messages do to the task's end: they invalidate the request
\* or leave both sides alone.
LEMMA MessageHandsOver ==
  ASSUME CInv, Moderator \/ SearchMessage
  PROVE  [Drive!Next]_<<Driving, Searching>>
<1>1. CASE \E corrected \in BOOLEAN : Instruction(corrected)
  <2> PICK corrected \in BOOLEAN : Instruction(corrected)
    BY <1>1
  <2>1. ~active /\ UNCHANGED <<environment, execution>>
    BY InstructionState DEF Instruction
  <2>2. CASE Invalidate(FALSE) /\ (StopNavigation \/ UNCHANGED <<vars, navBarrier>>)
    <3>1. request' = request /\ server' = server /\ (active' => active)
      BY <2>2, StopKeepsGoals, IdleKeepsGoals
    <3>2. Searching' = Searching
      BY <2>1, <2>2, <3>1, InvalidateKeepsSearches
    <3> QED
      BY <3>1, <3>2, SameDriving
  <2>3. CASE ~DispatchBlocked /\ ~Invalidates /\ StartRoomNavigation /\ UNCHANGED searchBarrier
    BY <2>1, <2>3, StartHandsOver
  <2> QED
    BY <2>2, <2>3 DEF Instruction, ExecutorIdle
<1>2. CASE \/ Environment \/ AreYouReady \/ SearchDeadline
           \/ \E r \in Requests, kind \in StatusKinds : SearchCancelStatus(kind, r)
  <2>1. UNCHANGED <<vars, requestVars, execution>>
    BY <1>2 DEF Environment, AreYouReady, SearchDeadline, SearchCancelStatus
  <2>2. Driving' = Driving /\ Searching' = Searching
    BY <2>1, SameDriving DEF Searching, requestVars, execution, vars, goalVars
  <2> QED
    BY <2>2
<1>3. CASE \/ TaskSucceeded \/ TaskFailed \/ MissionComplete
           \/ \E r \in Requests : SearchStopRequested(r) \/ SearchWorkerFault(r)
  <2>1. /\ \E latched \in BOOLEAN : Invalidate(latched)
        /\ UNCHANGED execution
        /\ StopNavigation \/ UNCHANGED <<vars, navBarrier>>
    BY <1>3 DEF TaskSucceeded, TaskFailed, MissionComplete, SearchStopRequested, SearchWorkerFault
  <2>2. request' = request /\ server' = server /\ (active' => active)
    BY <2>1, StopKeepsGoals, IdleKeepsGoals
  <2>3. Searching' = Searching
    BY <2>1, <2>2, InvalidateKeepsSearches
  <2> QED
    BY <2>2, <2>3, SameDriving
<1> QED
  BY <1>1, <1>2, <1>3 DEF Moderator, SearchMessage

\* The coordinator implements the handover: with nothing but its two barriers,
\* the notices of its executor and status messages that come late or again, it
\* sends a goal only over a quiet search and requests a search only over a
\* quiet robot.
THEOREM CoordinatorHandsOver == CoordinatorSpec => HandsOver
<1>1. CoordinatorInit => Drive!Init
  BY DEF CoordinatorInit, Init, Drive!Init, Driving, Searching, InFlight, Live
<1>2. CInv /\ CInv' /\ [CoordinatorNext]_allVars => [Drive!Next]_<<Driving, Searching>>
  <2> SUFFICES ASSUME CInv, CInv', [CoordinatorNext]_allVars
               PROVE  [Drive!Next]_<<Driving, Searching>>
    OBVIOUS
  <2>1. CASE Moderator \/ SearchMessage
    BY <2>1, MessageHandsOver
  <2>2. CASE SearchExecution
    <3>1. UNCHANGED <<vars, coordinator>>
      BY <2>2 DEF SearchExecution, SearchStarts, SearchDrains, SearchFails, SearchReports
    <3>2. Driving' = Driving
      BY <3>1, SameDriving DEF vars, goalVars
    <3>3. Searching' \in SUBSET Searching
      BY <2>2, SearchExecutionKeeps
    <3> QED
      BY <3>2, <3>3 DEF Drive!Next, Drive!SearchEnds
  <2>3. CASE NavigationCallback
    BY <2>3, CallbackHandsOver
  <2>4. CASE ServerStep
    <3>1. Driving' \in SUBSET Driving
      BY <2>4, ServerKeepsGoals DEF ServerStep, coordinator, Driving
    <3>2. Searching' = Searching
      BY <2>4 DEF ServerStep, coordinator, requestVars, execution, Searching
    <3> QED
      BY <3>1, <3>2 DEF Drive!Next, Drive!GoalsEnd
  <2>5. CASE UNCHANGED allVars
    <3>1. Driving' = Driving /\ Searching' = Searching
      BY <2>5, SameDriving DEF allVars, vars, goalVars, coordinator, requestVars, execution, Searching
    <3> QED
      BY <3>1
  <2> QED
    BY <2>1, <2>2, <2>3, <2>4, <2>5 DEF CoordinatorNext
<1> QED
  BY <1>1, <1>2, CoordinatorInductive, PTL DEF CoordinatorSpec, HandsOver, Drive!Spec

\* What the abstract handover promises, for whatever it is that drives and
\* searches.
LEMMA HandoverIsExclusive == Drive!Spec => []Drive!OneDriver
<1>1. Drive!Init => Drive!OneDriver
  BY DEF Drive!Init, Drive!OneDriver
<1>2. Drive!OneDriver /\ [Drive!Next]_<<Driving, Searching>> => Drive!OneDriver'
  <2> USE DEF Drive!OneDriver
  <2> SUFFICES ASSUME Drive!OneDriver, [Drive!Next]_<<Driving, Searching>>
               PROVE  Drive!OneDriver'
    OBVIOUS
  <2>1. CASE \E g \in Goals : Drive!Drive(g)
    BY <2>1 DEF Drive!Drive
  <2>2. CASE \E r \in Requests : Drive!Search(r)
    BY <2>2 DEF Drive!Search
  <2>3. CASE Drive!GoalsEnd
    BY <2>3 DEF Drive!GoalsEnd
  <2>4. CASE Drive!SearchEnds
    BY <2>4 DEF Drive!SearchEnds
  <2>5. CASE UNCHANGED <<Driving, Searching>>
    BY <2>5
  <2> QED
    BY <2>1, <2>2, <2>3, <2>4, <2>5 DEF Drive!Next
<1> QED
  BY <1>1, <1>2, PTL DEF Drive!Spec

\* Goals of the coordinator and a search execution never drive the robot at
\* the same time: what the handover promises, inherited.
THEOREM NeverBothDrive == CoordinatorSpec => [](Driving = {} \/ Searching = {})
<1>1. Drive!OneDriver <=> (Driving = {} \/ Searching = {})
  BY DEF Drive!OneDriver
<1> QED
  BY <1>1, HandoverIsExclusive, CoordinatorHandsOver, PTL DEF HandsOver

-----------------------------------------------------------------------------
(* What a step may never do.                                               *)

\* A notice never takes a fault of the barrier back, nor does any step.
LEMMA FaultsStay ==
  ASSUME CInv, CoordinatorNext
  PROVE  (navFault => navFault') /\ (searchFault => searchFault')
<1>1. CASE Moderator
  <2>1. \/ \E begun \in BOOLEAN : Notices(begun)
        \/ UNCHANGED navBarrier
    BY <1>1 DEF Moderator, Environment, AreYouReady, Instruction, TaskSucceeded, TaskFailed,
                MissionComplete, StopNavigation, StartRoomNavigation, CInv, CoordinatorTypeOK,
                TypeOK
  <2>2. Invalidate(FALSE) \/ UNCHANGED searchBarrier
    BY <1>1 DEF Moderator, Environment, AreYouReady, Instruction, TaskSucceeded, TaskFailed,
                MissionComplete
  <2>3. navFault => navFault'
    BY <2>1 DEF Notices, navBarrier
  <2>4. searchFault => searchFault'
    BY <2>2 DEF Invalidate, searchBarrier
  <2> QED
    BY <2>3, <2>4
<1>2. CASE SearchMessage
  <2>1. navFault' = navFault
    BY <1>2 DEF SearchMessage, SearchDeadline, SearchStopRequested, SearchWorkerFault,
                SearchCancelStatus, navBarrier
  <2>2. ASSUME \E r \in Requests : SearchStopRequested(r) \/ SearchWorkerFault(r)
        PROVE  searchFault => searchFault'
    BY <2>2 DEF SearchStopRequested, SearchWorkerFault, Invalidate, searchBarrier
  <2>3. ASSUME \/ SearchDeadline
               \/ \E r \in Requests, kind \in StatusKinds : SearchCancelStatus(kind, r)
        PROVE  searchFault => searchFault'
    BY <2>3 DEF SearchDeadline, SearchCancelStatus
  <2> QED
    BY <1>2, <2>1, <2>2, <2>3 DEF SearchMessage
<1>3. CASE SearchExecution \/ ServerStep
  BY <1>3 DEF SearchExecution, SearchStarts, SearchDrains, SearchFails, SearchReports,
              ServerStep, coordinator, navBarrier, searchBarrier
<1>4. CASE NavigationCallback
  BY <1>4 DEF NavigationCallback, Notices, searchBarrier
<1> QED
  BY <1>1, <1>2, <1>3, <1>4 DEF CoordinatorNext

\* A plan is begun and a request published only past both barriers.
LEMMA FaultsBlock ==
  ASSUME CInv, CoordinatorNext, navFault \/ searchFault
  PROVE  /\ ~(state = "kWaitingReady" /\ state' = "kWaitingInstruction")
         /\ active' => active
         /\ requestId = None => requestId' = None
<1>1. DispatchBlocked
  BY DEF DispatchBlocked, SearchBlocked, NavBlocked
<1>2. CASE \E corrected \in BOOLEAN : Instruction(corrected)
  <2>1. /\ Invalidate(FALSE)
        /\ StopNavigation \/ UNCHANGED <<vars, navBarrier>>
        /\ state' \in {"kRecovering", "kNavigatingToRoom"}
    BY <1>1, <1>2 DEF Instruction, ExecutorIdle
  <2>2. active' => active
    BY <2>1, StopKeepsGoals, IdleKeepsGoals
  <2> QED
    BY <2>1, <2>2 DEF Invalidate, requestVars
<1>3. CASE \/ TaskSucceeded \/ TaskFailed \/ MissionComplete
           \/ \E r \in Requests : SearchStopRequested(r) \/ SearchWorkerFault(r)
  <2>1. /\ \E latched \in BOOLEAN : Invalidate(latched)
        /\ StopNavigation \/ UNCHANGED <<vars, navBarrier>>
        /\ state' \in {state, "kWaitingReady", "kFinished"}
    BY <1>3 DEF TaskSucceeded, TaskFailed, MissionComplete, SearchStopRequested,
                SearchWorkerFault, taskVars
  <2>2. active' => active
    BY <2>1, StopKeepsGoals, IdleKeepsGoals
  <2> QED
    BY <2>1, <2>2 DEF Invalidate, requestVars
<1>4. CASE \/ Environment \/ SearchDeadline \/ SearchExecution \/ ServerStep
           \/ \E r \in Requests, kind \in StatusKinds : SearchCancelStatus(kind, r)
  <2>1. state' = state /\ requestId' = requestId
    BY <1>4 DEF Environment, SearchDeadline, SearchCancelStatus, SearchExecution, SearchStarts,
                SearchDrains, SearchFails, SearchReports, ServerStep, coordinator, taskVars,
                requestVars
  <2>2. active' = active
    BY <1>4 DEF Environment, SearchDeadline, SearchCancelStatus, SearchExecution, SearchStarts,
                SearchDrains, SearchFails, SearchReports, ServerStep, Server, ServerDecides,
                ServerEnds, ServerCancels, vars, planVars
  <2> QED
    BY <2>1, <2>2
<1>5. CASE AreYouReady
  BY <1>1, <1>5 DEF AreYouReady
<1>6. CASE NavigationCallback
  <2>1. active' => active
    BY <1>6, CallbackPlan DEF NavigationCallback, CInv
  <2>2. (SearchBlocked \/ NavBlocked') = TRUE
    BY <1>6 DEF SearchBlocked, NavBlocked, NavigationCallback, Notices
  <2>3. outcome' \in Outcomes
    BY <1>6, NextKeeps DEF NavigationCallback, CInv, IInv, TypeOK, Next
  <2>4. requestId = None => requestId' = None
    BY <1>6, <2>2, <2>3 DEF Outcomes, NavigationCallback, HandleOutcome, PublishSearchRequest, requestVars
  <2>5. state' \in {state, GaveUp(state), "kSearchingObject"}
    BY <1>6, <2>3 DEF Outcomes, NavigationCallback, HandleOutcome, taskVars
  <2> QED
    BY <2>1, <2>4, <2>5 DEF GaveUp
<1> QED
  BY <1>2, <1>3, <1>4, <1>5, <1>6 DEF CoordinatorNext, Moderator, SearchMessage

\* A barrier fault is final, and with one no handshake is answered, no plan
\* begun and no search requested.
THEOREM FaultsAreFinal == CoordinatorSpec => FaultIsFinal
<1>1. CInv /\ [CoordinatorNext]_allVars =>
        [(navFault => navFault') /\ (searchFault => searchFault')
         /\ (navFault \/ searchFault =>
               /\ ~(state = "kWaitingReady" /\ state' = "kWaitingInstruction")
               /\ ~(state # "kNavigatingToRoom" /\ active' /\ ~active)
               /\ ~(requestId = None /\ requestId' # None))]_allVars
  BY FaultsStay, FaultsBlock
<1> QED
  BY <1>1, CoordinatorInductive, PTL DEF CoordinatorSpec, FaultIsFinal

\* A step into kNavigatingToRoom without a plan, and a plan lost in it.
LEMMA StallStep ==
  ASSUME CInv, CoordinatorNext, state' = "kNavigatingToRoom", ~active',
         active \/ state # "kNavigatingToRoom"
  PROVE  DispatchBlocked' \/ sealed'
<1>1. CASE \E corrected \in BOOLEAN : Instruction(corrected)
  <2> PICK corrected \in BOOLEAN : Instruction(corrected)
    BY <1>1
  <2>1. ~active
    BY InstructionState DEF Instruction
  <2>2. CASE Invalidate(FALSE) /\ (DispatchBlocked \/ Invalidates)
             /\ (StopNavigation \/ UNCHANGED <<vars, navBarrier>>)
    <3>1. CASE Invalidates
      BY <2>2, <3>1 DEF Invalidate, DispatchBlocked, SearchBlocked
    <3>2. CASE ~Invalidates /\ SearchBlocked
      BY <2>2, <3>2 DEF Invalidate, DispatchBlocked, SearchBlocked, searchBarrier
    <3>3. CASE NavBlocked
      <4>1. UNCHANGED navBarrier
        <5>1. CASE StopNavigation
          <6>1. handle = None
            BY <2>1 DEF CInv, IInv, NothingLeft
          <6>2. cancelling' = cancelling /\ active = FALSE
            BY <2>1, <5>1, <6>1
               DEF StopNavigation, OwnerCancel, Cancel, CancelTracked, CInv, CoordinatorTypeOK, TypeOK
          <6> QED
            BY <5>1, <6>2, NothingNoticed
               DEF StopNavigation, CInv, CoordinatorTypeOK, navBarrier
        <5> QED
          BY <2>2, <5>1
      <4> QED
        BY <3>3, <4>1 DEF NavBlocked, DispatchBlocked, navBarrier
    <3> QED
      BY <2>2, <3>1, <3>2, <3>3 DEF DispatchBlocked
  <2>3. CASE StartRoomNavigation
    <3>1. CASE Begin
      BY <3>1 DEF Begin
    <3>2. CASE state' \in {"kSearchingObject", GaveUp("kNavigatingToRoom")}
      BY <3>2 DEF GaveUp, GiveUpStates, TaskStates
    <3> QED
      BY <2>3, <3>1, <3>2 DEF StartRoomNavigation
  <2> QED
    BY <2>1, <2>2, <2>3 DEF Instruction, ExecutorIdle
<1>2. CASE \/ TaskSucceeded \/ TaskFailed \/ MissionComplete
  <2>1. CASE TaskFailed \/ MissionComplete
    <3>1. state' # "kNavigatingToRoom"
      BY <2>1 DEF TaskFailed, MissionComplete, FailureAccepted, taskVars
    <3> QED
      BY <3>1
  <2>2. CASE TaskSucceeded
    <3>1. active' = active /\ (state' = state \/ state' = "kWaitingReady")
      BY <2>2 DEF TaskSucceeded, taskVars, vars, planVars
    <3> QED
      BY <3>1
  <2> QED
    BY <1>2, <2>1, <2>2
<1>3. CASE \/ Environment \/ AreYouReady \/ SearchMessage \/ SearchExecution \/ ServerStep
  <2>1. state' \in {state, "kWaitingInstruction"}
    BY <1>3 DEF Environment, AreYouReady, SearchMessage, SearchDeadline, SearchStopRequested,
                SearchWorkerFault, SearchCancelStatus, SearchExecution, SearchStarts,
                SearchDrains, SearchFails, SearchReports, ServerStep, coordinator, taskVars
  <2>2. active' = active
    BY <1>3 DEF Environment, AreYouReady, SearchMessage, SearchDeadline, SearchStopRequested,
                SearchWorkerFault, SearchCancelStatus, SearchExecution, SearchStarts,
                SearchDrains, SearchFails, SearchReports, ServerStep, Server, ServerDecides,
                ServerEnds, ServerCancels, vars, planVars
  <2> QED
    BY <2>1, <2>2
<1>4. CASE NavigationCallback
  <2>1. CASE ~active
    <3>1. outcome' = "none"
      BY <1>4, <2>1, CallbackPlan DEF NavigationCallback, CInv
    <3> QED
      BY <1>4, <2>1, <3>1 DEF NavigationCallback, HandleOutcome, taskVars
  <2>2. CASE active /\ outcome' = "none"
    BY <1>4, <2>2, CallbackPlan DEF NavigationCallback, CInv
  <2>3. CASE active /\ outcome' # "none"
    <3>1. state = "kNavigatingToRoom" /\ outcome' \in {"failed", "reached"}
      <4>1. outcome' \in Outcomes
        BY <1>4, CallbackKeeps, NextKeeps DEF NavigationCallback, CInv, IInv, TypeOK, Next
      <4> QED
        BY <2>3, <4>1 DEF CInv, PlanMatchesTask, Outcomes
    <3>2. state' # "kNavigatingToRoom"
      BY <1>4, <2>3, <3>1 DEF NavigationCallback, HandleOutcome, GaveUp, GiveUpStates,
                              TaskStates, Enabled, Step
    <3> QED
      BY <3>2
  <2> QED
    BY <2>1, <2>2, <2>3
<1> QED
  BY <1>1, <1>2, <1>3, <1>4 DEF CoordinatorNext, Moderator

\* The task navigates without a plan only if a locked barrier or a sealed
\* executor was the reason when it got there.
THEOREM StallsHaveAReason == CoordinatorSpec => StallsOnlyWhenBlocked
<1>1. CInv /\ [CoordinatorNext]_allVars =>
        [state' = "kNavigatingToRoom" /\ ~active' /\ (active \/ state # "kNavigatingToRoom")
           => DispatchBlocked' \/ sealed']_allVars
  BY StallStep
<1> QED
  BY <1>1, CoordinatorInductive, PTL DEF CoordinatorSpec, StallsOnlyWhenBlocked

\* A published request is active: the identifiers are not the empty one.
LEMMA PublishMakesRequest ==
  ASSUME SearchEnabled, requestId = None, NEW blocked \in BOOLEAN,
         PublishSearchRequest(blocked), requestId' = None
  PROVE  blocked
BY CoordinatorAssumption DEF PublishSearchRequest

\* A step into kSearchingObject without a request, and a request lost in it.
LEMMA SearchStep ==
  ASSUME CInv, CoordinatorNext, SearchEnabled, state' = "kSearchingObject", requestId' = None,
         state # "kSearchingObject" \/ requestId # None
  PROVE  DispatchBlocked'
<1>1. CASE \E corrected \in BOOLEAN : Instruction(corrected)
  <2>1. StartRoomNavigation /\ ~Invalidates
    BY <1>1 DEF Instruction
  <2>2. PublishSearchRequest(FALSE)
    BY <2>1 DEF StartRoomNavigation, GaveUp, GiveUpStates, TaskStates
  <2> QED
    BY <2>1, <2>2, PublishMakesRequest DEF Invalidates
<1>2. CASE \/ TaskSucceeded \/ TaskFailed \/ MissionComplete
           \/ \E r \in Requests : SearchStopRequested(r) \/ SearchWorkerFault(r)
  <2>1. /\ \E latched \in BOOLEAN : Invalidate(latched)
        /\ state' \in {state, "kWaitingReady", "kFinished"}
    BY <1>2 DEF TaskSucceeded, TaskFailed, MissionComplete, SearchStopRequested,
                SearchWorkerFault, taskVars
  <2>2. Invalidates
    BY <2>1 DEF Invalidates
  <2> QED
    BY <2>1, <2>2 DEF Invalidate, DispatchBlocked, SearchBlocked
<1>3. CASE \/ Environment \/ AreYouReady \/ SearchDeadline \/ SearchExecution \/ ServerStep
           \/ \E r \in Requests, kind \in StatusKinds : SearchCancelStatus(kind, r)
  <2>1. state' \in {state, "kWaitingInstruction"} /\ requestId' = requestId
    BY <1>3 DEF Environment, AreYouReady, SearchDeadline, SearchCancelStatus, SearchExecution,
                SearchStarts, SearchDrains, SearchFails, SearchReports, ServerStep, coordinator,
                taskVars, requestVars
  <2> QED
    BY <2>1
<1>4. CASE NavigationCallback
  <2>1. outcome' \in Outcomes
    BY <1>4, NextKeeps DEF NavigationCallback, CInv, IInv, TypeOK, Next
  <2>2. outcome' = "reached" /\ Enabled("roomNavigationSucceeded", state)
    BY <1>4, <2>1 DEF NavigationCallback, HandleOutcome, Outcomes, taskVars, requestVars,
                      GaveUp, GiveUpStates, TaskStates
  <2>3. requestId = None
    BY <2>2 DEF CInv, RequestMatchesTask, Enabled, Step
  <2>4. PublishSearchRequest(SearchBlocked \/ NavBlocked')
    BY <1>4, <2>2 DEF NavigationCallback, HandleOutcome
  <2>5. SearchBlocked \/ NavBlocked'
    BY <2>3, <2>4, CoordinatorAssumption DEF PublishSearchRequest
  <2> QED
    BY <1>4, <2>5 DEF NavigationCallback, DispatchBlocked, SearchBlocked, searchBarrier
<1> QED
  BY <1>1, <1>2, <1>3, <1>4 DEF CoordinatorNext, Moderator, SearchMessage

\* The request is of a task that searches, and a search is without a request
\* only if a locked barrier was the reason when it came to that.
THEOREM SearchesHaveRequests == CoordinatorSpec => SearchHasRequest
<1>1. CInv /\ CInv' => RequestMatchesTask'
  BY DEF CInv
<1>2. CInv /\ CInv' /\ [CoordinatorNext]_allVars =>
        [/\ RequestMatchesTask'
         /\ SearchEnabled /\ state' = "kSearchingObject" /\ requestId' = None
              /\ (state # "kSearchingObject" \/ requestId # None)
            => DispatchBlocked']_allVars
  BY <1>1, SearchStep
<1> QED
  BY <1>2, CoordinatorInductive, PTL DEF CoordinatorSpec, SearchHasRequest
=============================================================================
