----------------------- MODULE SearchDispatch_proofs -----------------------
(***************************************************************************)
(* Proofs about the search worker and the runtime that owns it.            *)
(*                                                                         *)
(* Every step of SearchDispatch is a step of the executor, leaves it       *)
(* alone, or cancels a goal at the server behind its back. The invariant   *)
(* of the executor carries over; DispatchInv adds what ties the two        *)
(* processes and the journal together.                                     *)
(***************************************************************************)
EXTENDS SearchDispatch, NavigationExecutor_proofs

\* How a request moves in a step that releases nothing.
Move(g) ==
  \/ request'[g] = request[g]
  \/ request[g] = "unsent" /\ request'[g] = "held"
  \/ request[g] = "held" /\ request'[g] = "refused"
  \/ request[g] = "sent" /\ request'[g] \in {"accepting", "rejecting"}
  \/ request[g] = "accepting" /\ request'[g] = "known"
  \/ request[g] = "rejecting" /\ request'[g] = "refused"

\* A step that releases only what the runtime acknowledged.
Moves == \A g \in Goals : Move(g) \/ (request[g] = "held" /\ request'[g] = "sent"
                                      /\ <<"intent", g>> \in awaiting \cap acked)

\* A seal discards what is held and moves no other request.
LEMMA SealMoves ==
  ASSUME TypeOK, SealAndCancel
  PROVE  \A g \in Goals : Move(g)
BY DEF TypeOK, SealAndCancel, Cancel, Discarded, Held, Move

\* begin holds a new request back and discards the old ones.
LEMMA BeginMoves ==
  ASSUME TypeOK, Begin
  PROVE  \A g \in Goals : Move(g)
<1>1. CASE \E g \in Goals : Submit(g, Discarded)
  <2> PICK h \in Goals : Submit(h, Discarded)
    BY <1>1
  <2>1. request[h] = "unsent" /\ request' = [Discarded EXCEPT ![h] = "held"]
    BY WorkerAssumption DEF Submit
  <2> QED
    BY <2>1 DEF TypeOK, Discarded, Held, Move
<1>2. CASE request' = Discarded
  BY <1>2 DEF TypeOK, Discarded, Held, Move
<1> QED
  BY <1>1, <1>2 DEF Begin

\* A timer holds a request back, seals, or moves none.
LEMMA TimerMoves ==
  ASSUME TypeOK, ServerTimer \/ RetryTimer \/ GoalTimer
  PROVE  \A g \in Goals : Move(g)
<1>1. CASE \E g \in Goals : Submit(g, request)
  <2> PICK h \in Goals : Submit(h, request)
    BY <1>1
  <2>1. request[h] = "unsent" /\ request' = [request EXCEPT ![h] = "held"]
    BY WorkerAssumption DEF Submit
  <2> QED
    BY <2>1 DEF TypeOK, Move
<1>2. CASE UNCHANGED request
  BY <1>2 DEF Move
<1>3. CASE SealAndCancel
  BY <1>3, SealMoves
<1> QED
  BY <1>1, <1>2, <1>3 DEF ServerTimer, RetryTimer, GoalTimer, goalVars

\* A response settles its request, results and replies move none.
LEMMA AnswerMoves ==
  ASSUME TypeOK, NEW h \in Goals,
         AcceptResponse(h) \/ RejectResponse(h) \/ ResultCallback(h) \/ CancelReply(h)
  PROVE  \A g \in Goals : Move(g)
<1>1. CASE AcceptResponse(h)
  BY <1>1 DEF TypeOK, AcceptResponse, Move
<1>2. CASE RejectResponse(h)
  BY <1>2 DEF TypeOK, RejectResponse, Move
<1>3. CASE ResultCallback(h) \/ CancelReply(h)
  <2>1. UNCHANGED request
    BY <1>3 DEF ResultCallback, CancelReply, goalVars
  <2> QED
    BY <2>1 DEF Move
<1> QED
  BY <1>1, <1>2, <1>3

\* The server decides a request that was sent.
LEMMA ServerMoves ==
  ASSUME TypeOK, Server
  PROVE  \A g \in Goals : Move(g)
<1> PICK h \in Goals : ServerDecides(h) \/ ServerEnds(h) \/ ServerCancels(h)
  BY DEF Server
<1>1. CASE ServerDecides(h)
  BY <1>1 DEF TypeOK, ServerDecides, Move
<1>2. CASE ServerEnds(h) \/ ServerCancels(h)
  <2>1. UNCHANGED request
    BY <1>2 DEF ServerEnds, ServerCancels, goalVars
  <2> QED
    BY <2>1 DEF Move
<1> QED
  BY <1>1, <1>2

\* Only a goal that was sent can begin to run, whoever takes the step.
LEMMA LiveStep ==
  ASSUME TypeOK, [Next]_vars \/ \E h \in Goals : JobCancels(h), NEW g \in Goals, Live(g)'
  PROVE  Live(g) \/ request[g] = "sent"
<1> USE DEF Live
<1>1. CASE UNCHANGED server
  BY <1>1
<1>2. CASE Server
  <2> PICK h \in Goals : ServerDecides(h) \/ ServerEnds(h) \/ ServerCancels(h)
    BY <1>2 DEF Server
  <2>1. CASE ServerDecides(h)
    BY <2>1 DEF TypeOK, ServerDecides
  <2>2. CASE ServerEnds(h)
    BY <2>2 DEF TypeOK, ServerEnds, Terminal
  <2>3. CASE ServerCancels(h)
    BY <2>3 DEF TypeOK, ServerCancels
  <2> QED
    BY <2>1, <2>2, <2>3
<1>3. CASE \E h \in Goals : JobCancels(h)
  BY <1>3 DEF TypeOK, JobCancels
<1>4. CASE Owner \/ Callback
  BY <1>1, <1>4 DEF Owner, Callback, Begin, AlreadyInside, OwnerCancel, OwnerSeal, SealAndCancel,
     Cancel, ServerTimer, RetryTimer, GoalTimer, CancelDeadline, Release, AcceptResponse,
     RejectResponse, ResultCallback, CancelReply
<1> QED
  BY <1>1, <1>2, <1>3, <1>4 DEF Next, vars

\* The canceller of the runtime leaves the executor's invariant alone.
LEMMA JobKeeps ==
  ASSUME IInv, NEW g \in Goals, JobCancels(g)
  PROVE  IInv' /\ (DrainState = "cancel_drained" => DrainState' = "cancel_drained")
<1> USE DEF JobCancels, planVars, tokenVars, cancelVars, goalVars
<1>1. TypeOK'
  BY DEF IInv, TypeOK, ServerStates, Outcomes
<1>2. Flying' = Flying
  BY DEF Flying, InFlight
<1>3. PendingCounts' /\ NothingLeft' /\ HandleIsCurrent' /\ ActivePlanHasTimer'
  BY <1>2 DEF IInv, PendingCounts, NothingLeft, HandleIsCurrent, ActivePlanHasTimer, Held, InFlight
<1>4. GoalsAreOwned'
  BY DEF IInv, TypeOK, GoalsAreOwned, Live
<1>5. RunningIsHandled'
  BY DEF IInv, TypeOK, RunningIsHandled
<1>6. CancelsAreTracked'
  BY WorkerAssumption DEF CancelsAreTracked
<1>7. DrainState = "cancel_drained" => DrainState' = "cancel_drained"
  BY DEF DrainState
<1> QED
  BY <1>1, <1>3, <1>4, <1>5, <1>6, <1>7 DEF IInv

\* The worker's variables other than those a registration touches keep their
\* types.
WorkerTypes ==
  /\ worker' \in {"running", "overdue", "exit 0", "exit 1"}
  /\ dispatched' \in BOOLEAN
  /\ lease' \in {"new", "replied", "ready", "failed", "retired"}
  /\ map' \in {"pending", "verified", "failed"}
  /\ cancelId' \in Ids \cup {None}

\* A drained executor stays drained, whatever it does next.
LEMMA DrainedStep ==
  ASSUME IInv, [Next]_vars, DrainState = "cancel_drained"
  PROVE  DrainState' = "cancel_drained"
<1>1. sealed
  BY DEF DrainState
<1>2. CASE Next
  BY <1>1, <1>2, SealedStep
<1>3. CASE UNCHANGED vars
  BY <1>3 DEF DrainState, vars, planVars, tokenVars, cancelVars, goalVars
<1> QED
  BY <1>2, <1>3

\* After the drain no request moves, so there is nothing to tell.
LEMMA DrainedRecordsNothing ==
  ASSUME IInv, [Next]_vars, Moves, DrainState = "cancel_drained"
  PROVE  Recorded = {} /\ \A g \in Goals : request'[g] = request[g]
<1>1. sealed /\ \A g \in Goals : ~InFlight(g)
  BY DrainedStates DEF DrainState, DrainedMeansQuiet
<1>2. \A g \in Goals : request[g] = "unsent" => request'[g] # "held"
  <2>1. CASE Next
    BY <1>1, <2>1, SealedStep
  <2>2. CASE UNCHANGED vars
    BY <2>2 DEF vars, goalVars
  <2> QED
    BY <2>1, <2>2
<1>3. \A g \in Goals : request'[g] = request[g]
  BY <1>1, <1>2 DEF InFlight, Moves, Move
<1> QED
  BY <1>1, <1>3 DEF Recorded, InFlight

\* A callback of the worker that tells of what the executor did in it.
LEMMA Recording ==
  ASSUME DispatchInv, Alive, [Next]_vars, Moves, NEW done \in SUBSET awaiting, Records(done),
         UNCHANGED <<report, runtimeVars>>, WorkerTypes,
         registration' \in {"healthy", "failed"},
         registration' = "healthy" => registration = "healthy" /\ done \subseteq acked,
         awaiting = {} => registration' = registration
  PROVE  DispatchInv'
<1> USE DEF DispatchInv, runtimeVars, managerVars, watchVars
<1>1. IInv' /\ TypeOK'
  BY NextKeeps DEF IInv
<1>2. Recorded \subseteq Events \X Goals
  BY DEF Recorded, Events
<1>3. DispatchTypeOK'
  BY <1>1, <1>2 DEF DispatchTypeOK, WorkerTypes, Records
<1>4. \A g \in Goals :
        /\ <<"intent", g>> \in Recorded <=> request[g] = "unsent" /\ request'[g] = "held"
        /\ <<"accepted", g>> \in Recorded <=> request[g] = "accepting" /\ request'[g] = "known"
        /\ <<"rejected", g>> \in Recorded <=> request[g] # "refused" /\ request'[g] = "refused"
  BY DEF Recorded
<1>5. ToldOfGoals'
  <2> SUFFICES ASSUME NEW g \in Goals
               PROVE  /\ \A e \in Events : <<e, g>> \in told' => request'[g] # "unsent"
                      /\ <<"rejected", g>> \in told' => request'[g] = "refused"
                      /\ request'[g] = "known" => <<"accepted", g>> \in told'
                      /\ request'[g] = "refused" => <<"rejected", g>> \in told'
    BY DEF ToldOfGoals
  <2>1. told' = told \cup Recorded
    BY DEF Records
  <2>2. /\ \A e \in Events : <<e, g>> \in told => request[g] # "unsent"
        /\ <<"rejected", g>> \in told => request[g] = "refused"
        /\ request[g] = "known" => <<"accepted", g>> \in told
        /\ request[g] = "refused" => <<"rejected", g>> \in told
    BY DEF ToldOfGoals
  <2>3. Move(g) \/ (request[g] = "held" /\ request'[g] = "sent")
    BY DEF Moves
  <2>4. request[g] # "unsent" => request'[g] # "unsent"
    BY <2>3 DEF Move
  <2>5. request[g] = "refused" => request'[g] = "refused"
    BY <2>3 DEF Move
  <2>6. request'[g] = "known" => request[g] \in {"known", "accepting"}
    BY <2>3 DEF Move
  <2>7. \A e \in Events : <<e, g>> \in Recorded => request'[g] # "unsent"
    BY <1>4 DEF Events
  <2> QED
    BY <1>4, <2>1, <2>2, <2>4, <2>5, <2>6, <2>7
<1>6. IntentComesFirst'
  <2> SUFFICES ASSUME NEW g \in Goals
               PROVE  /\ rows[g] # "none" => <<"intent", g>> \in told'
                      /\ <<"intent", g>> \in acked => rows[g] # "none"
                      /\ request'[g] \in {"sent", "accepting", "rejecting", "known"} =>
                           <<"intent", g>> \in acked
    BY DEF IntentComesFirst
  <2>1. told \subseteq told'
    BY DEF Records
  <2>2. Move(g) \/ <<"intent", g>> \in acked
    BY DEF Moves
  <2> QED
    BY <2>1, <2>2 DEF IntentComesFirst, Move
<1>7. MemoryFollowsJournal' /\ LockedWhileOpen'
  BY DEF MemoryFollowsJournal, LockedWhileOpen, Session, OpenRows
<1>8. DrainStays'
  <2>1. registration' = "healthy" => told' \subseteq acked' \cup awaiting'
    BY DEF DrainStays, Records
  <2>2. ASSUME report = "cancel_drained"
        PROVE  DrainState' = "cancel_drained" /\ Settled'
    <3>1. DrainState = "cancel_drained" /\ registration = "healthy" /\ awaiting = {}
      BY <2>2 DEF DrainStays, Settled
    <3>2. Recorded = {}
      BY <3>1, DrainedRecordsNothing
    <3>3. DrainState' = "cancel_drained"
      BY <3>1, DrainedStep
    <3> QED
      BY <3>1, <3>2, <3>3 DEF Records, Settled
  <2> QED
    BY <2>1, <2>2 DEF DrainStays
<1>9. RetirementFollowsDrain'
  BY DEF RetirementFollowsDrain, Session
<1>10. ClosedIsOver'
  <2> SUFFICES ASSUME NEW g \in Goals, rows[g] = "closed"
               PROVE  ~Live(g)' /\ request'[g] \notin {"held", "sent"}
    BY DEF ClosedIsOver
  <2>1. ~Live(g) /\ request[g] \notin {"held", "sent"}
    BY DEF ClosedIsOver
  <2>2. request[g] # "unsent"
    BY DEF IntentComesFirst, ToldOfGoals, Events
  <2>3. request'[g] \notin {"held", "sent"}
    BY <2>1, <2>2 DEF Moves, Move
  <2>4. ~Live(g)'
    BY <2>1, LiveStep DEF IInv
  <2> QED
    BY <2>3, <2>4
<1> QED
  BY <1>1, <1>3, <1>5, <1>6, <1>7, <1>8, <1>9, <1>10

\* A seal of the worker is one of the executor and releases nothing.
LEMMA SealKeeps ==
  ASSUME TypeOK, SealAndCancel
  PROVE  [Next]_vars /\ Moves
<1>1. [Next]_vars
  BY DEF Next, Owner, OwnerSeal
<1>2. Moves
  BY SealMoves DEF Moves
<1> QED
  BY <1>1, <1>2

\* The callbacks that drive the executor.
LEMMA ExecutorKeeps ==
  ASSUME DispatchInv, ExecutorCallback \/ Dispatch
  PROVE  DispatchInv'
<1>1. TypeOK /\ DispatchTypeOK
  BY DEF DispatchInv, DispatchTypeOK
<1>2. CASE ExecutorCallback
  <2>1. [Next]_vars
    BY <1>2 DEF ExecutorCallback, Next, Callback
  <2>2. Moves
    BY <1>1, <1>2, TimerMoves, AnswerMoves DEF ExecutorCallback, Moves
  <2>3. Records({}) /\ Alive /\ UNCHANGED <<report, runtimeVars>> /\ UNCHANGED registration
        /\ WorkerTypes
    BY <1>1, <1>2 DEF ExecutorCallback, DispatchTypeOK, WorkerTypes
  <2> QED
    BY <1>1, <2>1, <2>2, <2>3, Recording DEF DispatchTypeOK
<1>3. CASE Dispatch
  <2>1. [Next]_vars
    BY <1>3 DEF Dispatch, Next, Owner
  <2>2. Moves
    BY <1>1, <1>3, BeginMoves DEF Dispatch, Moves
  <2>3. Records({}) /\ Alive /\ UNCHANGED <<report, runtimeVars>> /\ UNCHANGED registration
        /\ WorkerTypes
    BY <1>1, <1>3 DEF Dispatch, DispatchTypeOK, WorkerTypes, Alive
  <2> QED
    BY <1>1, <2>1, <2>2, <2>3, Recording DEF DispatchTypeOK
<1> QED
  BY <1>2, <1>3

\* The callbacks that seal the executor.
LEMMA GuardKeeps ==
  ASSUME DispatchInv,
         \/ MapFails \/ LeaseExpires \/ RegistrationExpires \/ Overdue
         \/ \E id \in Ids : CancelReceived(id)
  PROVE  DispatchInv'
<1>1. TypeOK /\ DispatchTypeOK
  BY DEF DispatchInv, DispatchTypeOK
<1>2. CASE RegistrationExpires
  <2> PICK record \in awaiting : registration' = "failed" /\ SealAndCancel /\ Records({record})
    BY <1>2 DEF RegistrationExpires
  <2>1. [Next]_vars /\ Moves
    BY <1>1, SealKeeps
  <2>2. Alive /\ UNCHANGED <<report, runtimeVars>> /\ WorkerTypes
    BY <1>1, <1>2 DEF RegistrationExpires, DispatchTypeOK, WorkerTypes
  <2>3. {record} \in SUBSET awaiting
    OBVIOUS
  <2> QED
    BY <2>1, <2>2, <2>3, Recording
<1>3. CASE MapFails \/ LeaseExpires \/ Overdue \/ \E id \in Ids : CancelReceived(id)
  <2>1. SealAndCancel /\ Records({}) /\ Alive /\ UNCHANGED registration
    BY <1>3 DEF MapFails, LeaseExpires, Overdue, CancelReceived, Alive
  <2>2. UNCHANGED <<report, runtimeVars>>
    BY <1>3 DEF MapFails, LeaseExpires, Overdue, CancelReceived
  <2>3. WorkerTypes
    BY <1>1, <1>3 DEF MapFails, LeaseExpires, Overdue, CancelReceived, DispatchTypeOK, WorkerTypes
  <2>4. [Next]_vars /\ Moves
    BY <1>1, <2>1, SealKeeps
  <2> QED
    BY <1>1, <2>1, <2>2, <2>3, <2>4, Recording DEF DispatchTypeOK
<1> QED
  BY <1>2, <1>3

\* The acknowledgement of an intent releases the goal or seals.
LEMMA IntentKeeps ==
  ASSUME DispatchInv, NEW g \in Goals, IntentAcknowledged(g)
  PROVE  DispatchInv'
<1>1. TypeOK /\ DispatchTypeOK
  BY DEF DispatchInv, DispatchTypeOK
<1>2. <<"intent", g>> \in awaiting \cap acked /\ registration = "healthy"
      /\ Alive /\ Records({<<"intent", g>>}) /\ UNCHANGED <<report, runtimeVars>>
  BY DEF IntentAcknowledged
<1>3. WorkerTypes
  BY <1>1 DEF IntentAcknowledged, DispatchTypeOK, WorkerTypes
<1>4. registration' \in {"healthy", "failed"}
  BY <1>1 DEF IntentAcknowledged, DispatchTypeOK
<1>5. [Next]_vars /\ Moves
  <2>1. CASE Release(g)
    <3>1. request[g] = "held" /\ request' = [request EXCEPT ![g] = "sent"]
      BY <2>1 DEF Release
    <3>2. Moves
      BY <1>1, <1>2, <3>1 DEF TypeOK, Moves, Move
    <3> QED
      BY <2>1, <3>2 DEF Next, Callback
  <2>2. CASE UNCHANGED vars
    BY <2>2 DEF vars, goalVars, Moves, Move
  <2>3. CASE SealAndCancel
    BY <1>1, <2>3, SealKeeps
  <2> QED
    BY <2>1, <2>2, <2>3 DEF IntentAcknowledged
<1>6. {<<"intent", g>>} \in SUBSET awaiting /\ {<<"intent", g>>} \subseteq acked
  BY <1>2
<1> QED
  BY <1>2, <1>3, <1>4, <1>5, <1>6, Recording

\* The types when nothing changes but the executor and the worker's process.
LEMMA SameTypes ==
  ASSUME DispatchTypeOK, TypeOK', UNCHANGED <<workerVars, runtimeVars>>,
         worker' \in {"running", "overdue", "exit 0", "exit 1"}
  PROVE  DispatchTypeOK'
<1>1. UNCHANGED <<dispatched, lease, map, registration, awaiting, cancelId, report, told>>
  BY DEF workerVars
<1>2. UNCHANGED <<runtime, locked, issued, rows, acked, intents, entries, results, stopping,
                  jobs, watch, watchId, heard>>
  BY DEF runtimeVars, managerVars, watchVars
<1>3. /\ dispatched' \in BOOLEAN
      /\ lease' \in {"new", "replied", "ready", "failed", "retired"}
      /\ map' \in {"pending", "verified", "failed"}
      /\ registration' \in {"healthy", "failed"}
      /\ awaiting' \in SUBSET told' /\ told' \in SUBSET (Events \X Goals)
      /\ cancelId' \in Ids \cup {None}
      /\ report' \in {"none", "cancel_drained", "cancel_failed"}
  BY <1>1 DEF DispatchTypeOK
<1>4. /\ runtime' \in {"session", "down", "restarted"} /\ locked' \in BOOLEAN
      /\ issued' \in SUBSET Ids
      /\ rows' \in [Goals -> {"none", "open", "closed"}]
      /\ acked' \in SUBSET told'
      /\ entries' \in SUBSET Goals /\ intents' \in SUBSET entries'
      /\ results' \in SUBSET entries'
  BY <1>1, <1>2 DEF DispatchTypeOK
<1>5. /\ stopping' \in SUBSET {"cancel", "failed"}
      /\ jobs' \in SUBSET Goals
      /\ watch' \in {"ok", "fault", "retiring", "retired"}
      /\ watchId' \in Ids \cup {None}
      /\ heard' \in {"none", "drained", "blocked"}
  BY <1>2 DEF DispatchTypeOK
<1> QED
  BY <1>3, <1>4, <1>5 DEF DispatchTypeOK

\* A step that tells nothing: at the server, by the canceller, or the last of
\* the worker.
LEMMA SilentKeeps ==
  ASSUME DispatchInv, IInv', UNCHANGED <<workerVars, runtimeVars>>,
         worker' \in {"running", "overdue", "exit 0", "exit 1"},
         DrainState = "cancel_drained" => DrainState' = "cancel_drained",
         \A g \in Goals : Live(g)' => Live(g) \/ request[g] = "sent",
         \A g \in Goals : Move(g),
         \A g \in Goals : request'[g] = "known" => request[g] = "known",
         \A g \in Goals : request'[g] = "refused" /\ (Alive' \/ report = "cancel_drained") =>
                            request[g] = "refused" /\ (Alive \/ report = "cancel_drained")
  PROVE  DispatchInv'
<1> USE DEF workerVars, runtimeVars, managerVars, watchVars
<1>1. DispatchTypeOK'
  <2>1. TypeOK' /\ DispatchTypeOK
    BY DEF DispatchInv, IInv
  <2> QED
    BY <2>1, SameTypes
<1>2. ToldOfGoals'
  <2> SUFFICES ASSUME NEW g \in Goals
               PROVE  /\ \A e \in Events : <<e, g>> \in told => request'[g] # "unsent"
                      /\ <<"rejected", g>> \in told => request'[g] = "refused"
                      /\ request'[g] = "known" => <<"accepted", g>> \in told
                      /\ request'[g] = "refused" /\ (Alive' \/ report = "cancel_drained") =>
                           <<"rejected", g>> \in told
    BY DEF ToldOfGoals
  <2> QED
    BY DEF DispatchInv, ToldOfGoals, Move
<1>3. IntentComesFirst'
  BY DEF DispatchInv, IntentComesFirst, Move
<1>4. MemoryFollowsJournal' /\ LockedWhileOpen' /\ RetirementFollowsDrain'
  BY DEF DispatchInv, MemoryFollowsJournal, LockedWhileOpen, RetirementFollowsDrain, Session, OpenRows
<1>5. DrainStays'
  BY DEF DispatchInv, DrainStays, Settled
<1>6. ClosedIsOver'
  <2> SUFFICES ASSUME NEW g \in Goals, rows[g] = "closed"
               PROVE  ~Live(g)' /\ request'[g] \notin {"held", "sent"}
    BY DEF ClosedIsOver
  <2>1. ~Live(g) /\ request[g] \notin {"held", "sent"}
    BY DEF DispatchInv, ClosedIsOver
  <2>2. request[g] # "unsent"
    BY DEF DispatchInv, IntentComesFirst, ToldOfGoals, Events
  <2> QED
    BY <2>1, <2>2 DEF Move
<1> QED
  BY <1>1, <1>2, <1>3, <1>4, <1>5, <1>6 DEF DispatchInv

\* A step that leaves the executor alone leaves alone what is said of it.
LEMMA SameExecutor ==
  ASSUME DispatchInv, UNCHANGED vars
  PROVE  /\ IInv' /\ DrainState' = DrainState
         /\ request' = request /\ server' = server
         /\ \A g \in Goals : Live(g)' = Live(g)
<1>1. IInv'
  BY NextKeeps DEF DispatchInv
<1> QED
  BY <1>1 DEF DrainState, Live, vars, planVars, tokenVars, cancelVars, goalVars

\* The worker may end in any way: what it discards is not told any more, which
\* only matters before the drain.
LEMMA EndKeeps ==
  ASSUME DispatchInv, WorkerEnds \/ WorkerRetires \/ WorkerDies
  PROVE  DispatchInv'
<1>1. IInv /\ TypeOK
  BY DEF DispatchInv, IInv
<1>2. UNCHANGED <<workerVars, runtimeVars>> /\ worker' \in {"exit 0", "exit 1"} /\ ~Alive'
  BY DEF WorkerEnds, WorkerRetires, WorkerDies, Alive
<1>3. [Next]_vars /\ Moves /\ \A g \in Goals : Move(g)
  <2>1. CASE SealAndCancel
    BY <1>1, <2>1, SealKeeps, SealMoves
  <2>2. CASE UNCHANGED vars
    BY <2>2 DEF vars, goalVars, Moves, Move
  <2> QED
    BY <2>1, <2>2 DEF WorkerEnds, WorkerRetires, WorkerDies
<1>4. \A g \in Goals : request'[g] = "known" => request[g] = "known"
  BY <1>1 DEF WorkerEnds, WorkerRetires, WorkerDies, SealAndCancel, Cancel, Discarded, Held,
     TypeOK, vars, goalVars
<1>5. report = "cancel_drained" => \A g \in Goals : request'[g] = request[g]
  BY <1>1, <1>3, DrainedRecordsNothing DEF DispatchInv, DrainStays
<1>6. DrainState = "cancel_drained" => DrainState' = "cancel_drained"
  BY <1>1, <1>3, DrainedStep
<1>7. \A g \in Goals : Live(g)' => Live(g) \/ request[g] = "sent"
  BY <1>1, <1>3, LiveStep
<1>8. IInv'
  BY <1>1, <1>3, NextKeeps
<1> QED
  BY <1>2, <1>3, <1>4, <1>5, <1>6, <1>7, <1>8, SilentKeeps

\* The server knows nothing of registrations, and nothing of it needs one.
LEMMA Nav2Keeps ==
  ASSUME DispatchInv, Nav2
  PROVE  DispatchInv'
<1>1. IInv /\ TypeOK
  BY DEF DispatchInv, IInv
<1>2. Server /\ [Next]_vars /\ UNCHANGED <<worker, workerVars, runtimeVars>>
  BY DEF Nav2, Next
<1>3. \A g \in Goals : Move(g)
  BY <1>1, <1>2, ServerMoves
<1>4. \A g \in Goals : request'[g] \in {"known", "refused"} => request'[g] = request[g]
  <2> PICK h \in Goals : ServerDecides(h) \/ ServerEnds(h) \/ ServerCancels(h)
    BY <1>2 DEF Server
  <2> QED
    BY <1>1 DEF ServerDecides, ServerEnds, ServerCancels, TypeOK, goalVars
<1>5. DrainState = "cancel_drained" => DrainState' = "cancel_drained"
  BY <1>1, <1>2, DrainedStep
<1>6. \A g \in Goals : Live(g)' => Live(g) \/ request[g] = "sent"
  BY <1>1, <1>2, LiveStep
<1>7. IInv'
  BY <1>1, <1>2, NextKeeps
<1>8. worker' \in {"running", "overdue", "exit 0", "exit 1"} /\ (Alive' = Alive)
  BY <1>2 DEF DispatchInv, DispatchTypeOK, Alive
<1> QED
  BY <1>2, <1>3, <1>4, <1>5, <1>6, <1>7, <1>8, SilentKeeps

\* Nor does the canceller tell anything.
LEMMA JobCancelKeeps ==
  ASSUME DispatchInv, NEW g \in Goals, JobCancels(g)
  PROVE  DispatchInv'
<1>1. IInv /\ TypeOK
  BY DEF DispatchInv, IInv
<1>2. IInv' /\ (DrainState = "cancel_drained" => DrainState' = "cancel_drained")
  BY <1>1, JobKeeps
<1>3. \A h \in Goals : Live(h)' => Live(h) \/ request[h] = "sent"
  BY <1>1, LiveStep
<1>4. UNCHANGED <<worker, workerVars, runtimeVars, request>>
  BY DEF JobCancels, goalVars
<1>5. worker' \in {"running", "overdue", "exit 0", "exit 1"} /\ (Alive' = Alive)
      /\ (\A h \in Goals : Move(h))
  BY <1>4 DEF DispatchInv, DispatchTypeOK, Alive, Move
<1> QED
  BY <1>2, <1>3, <1>4, <1>5, SilentKeeps

\* The variables of the runtime keep their types; a registration is acknowledged
\* only if it was told.
RuntimeTypes ==
  /\ runtime' \in {"session", "down", "restarted"} /\ locked' \in BOOLEAN
  /\ issued' \in SUBSET Ids
  /\ rows' \in [Goals -> {"none", "open", "closed"}]
  /\ acked \subseteq acked' /\ acked' \in SUBSET told
  /\ entries' \in SUBSET Goals /\ intents' \in SUBSET entries'
  /\ results' \in SUBSET entries'
  /\ stopping' \in SUBSET {"cancel", "failed"}
  /\ jobs' \in SUBSET Goals
  /\ watch' \in {"ok", "fault", "retiring", "retired"}
  /\ watchId' \in Ids \cup {None}
  /\ heard' \in {"none", "drained", "blocked"}

\* What the runtime records touches neither the executor nor what was told, and
\* an acknowledgement is never taken back.
LEMMA RuntimeKeeps ==
  ASSUME DispatchInv, UNCHANGED <<vars, worker, workerVars>>, RuntimeTypes
  PROVE  DispatchTypeOK' /\ IInv' /\ ToldOfGoals' /\ DrainStays'
<1>1. UNCHANGED <<worker, dispatched, lease, map, registration, awaiting, cancelId, report, told>>
  BY DEF workerVars
<1>2. IInv' /\ DrainState' = DrainState /\ request' = request
  BY SameExecutor
<1>3. DispatchTypeOK'
  <2>1. TypeOK' /\ DispatchTypeOK
    BY <1>2 DEF IInv, DispatchInv
  <2>2. /\ worker' \in {"running", "overdue", "exit 0", "exit 1"}
        /\ dispatched' \in BOOLEAN
        /\ lease' \in {"new", "replied", "ready", "failed", "retired"}
        /\ map' \in {"pending", "verified", "failed"}
        /\ registration' \in {"healthy", "failed"}
        /\ awaiting' \in SUBSET told' /\ told' \in SUBSET (Events \X Goals)
        /\ cancelId' \in Ids \cup {None}
        /\ report' \in {"none", "cancel_drained", "cancel_failed"}
    BY <1>1, <2>1 DEF DispatchTypeOK
  <2>3. acked' \in SUBSET told'
    BY <1>1 DEF RuntimeTypes
  <2> QED
    BY <2>1, <2>2, <2>3 DEF DispatchTypeOK, RuntimeTypes
<1>4. ToldOfGoals'
  BY <1>1, <1>2 DEF DispatchInv, ToldOfGoals, Alive
<1>5. DrainStays'
  BY <1>1, <1>2 DEF DispatchInv, DrainStays, Settled, RuntimeTypes
<1> QED
  BY <1>2, <1>3, <1>4, <1>5

\* Once a retirement was prepared, every registration is acknowledged.
LEMMA RetiringAcked ==
  ASSUME DispatchInv, watch \in {"retiring", "retired"}
  PROVE  told \subseteq acked
BY DEF DispatchInv, RetirementFollowsDrain, DrainStays, Settled

\* An intent is recorded, whether it is acknowledged or not.
LEMMA IntentRecorded ==
  ASSUME DispatchInv, NEW g \in Goals, RegisterIntent(g) \/ PersistFails(g)
  PROVE  DispatchInv'
<1>1. UNCHANGED <<vars, worker, workerVars, runtime, locked, issued, results, jobs, watchVars>>
  BY DEF RegisterIntent, PersistFails
<1>2. Session /\ <<"intent", g>> \in told \ acked /\ entries' = entries \cup {g}
  BY DEF RegisterIntent, PersistFails
<1>3. \/ /\ rows' = [rows EXCEPT ![g] = "open"]
         /\ acked' = acked \cup {<<"intent", g>>} /\ intents' = intents \cup {g}
      \/ /\ rows' \in {rows, [rows EXCEPT ![g] = "open"]}
         /\ acked' = acked /\ intents' = intents
  BY DEF RegisterIntent, PersistFails
<1>4. stopping' \subseteq stopping \cup {"failed"}
  BY DEF RegisterIntent, PersistFails
<1>5. request' = request /\ told' = told /\ report' = report /\ runtime' = runtime
      /\ locked' = locked /\ results' = results /\ watch' = watch /\ heard' = heard
  BY <1>1 DEF vars, goalVars, workerVars, watchVars
<1>6. DispatchTypeOK
  BY DEF DispatchInv
<1>7. RuntimeTypes
  BY <1>1, <1>2, <1>3, <1>4, <1>6 DEF DispatchTypeOK, RuntimeTypes, watchVars
<1>8. DispatchTypeOK' /\ IInv' /\ ToldOfGoals' /\ DrainStays'
  BY <1>1, <1>7, RuntimeKeeps
<1>9. rows \in [Goals -> {"none", "open", "closed"}] /\ results \subseteq entries
  BY <1>6 DEF DispatchTypeOK
<1>10. \A h \in Goals :
         /\ h # g => rows'[h] = rows[h]
         /\ h = g => rows'[h] \in {rows[h], "open"}
         /\ h # g => (<<"intent", h>> \in acked' <=> <<"intent", h>> \in acked)
                     /\ (h \in intents' <=> h \in intents)
         /\ <<"intent", g>> \in acked' => rows'[g] = "open"
         /\ <<"intent", g>> \in acked' <=> g \in intents'
  <2>1. g \notin intents
    BY <1>2 DEF DispatchInv, MemoryFollowsJournal
  <2>2. CASE /\ rows' = [rows EXCEPT ![g] = "open"]
             /\ acked' = acked \cup {<<"intent", g>>} /\ intents' = intents \cup {g}
    BY <1>9, <2>2
  <2>3. CASE rows' \in {rows, [rows EXCEPT ![g] = "open"]} /\ acked' = acked /\ intents' = intents
    BY <1>2, <1>9, <2>1, <2>3
  <2> QED
    BY <1>3, <2>2, <2>3
<1>11. IntentComesFirst'
  <2>1. \A h \in Goals : <<"intent", h>> \in acked => <<"intent", h>> \in acked'
    BY <1>3
  <2> QED
    BY <1>2, <1>5, <1>10, <2>1 DEF DispatchInv, IntentComesFirst
<1>12. MemoryFollowsJournal'
  <2>1. g \notin results
    BY <1>2 DEF DispatchInv, MemoryFollowsJournal
  <2>2. \A h \in results' : rows'[h] = "closed"
    BY <1>2, <1>5, <1>6, <1>10, <2>1 DEF DispatchInv, MemoryFollowsJournal, DispatchTypeOK
  <2>3. OpenRows' \subseteq entries'
    BY <1>2, <1>3, <1>9 DEF DispatchInv, MemoryFollowsJournal, OpenRows
  <2>4. \A h \in Goals : h \in intents' <=> <<"intent", h>> \in acked'
    BY <1>2, <1>10 DEF DispatchInv, MemoryFollowsJournal
  <2>5. results' \subseteq intents'
    BY <1>2, <1>3, <1>5 DEF DispatchInv, MemoryFollowsJournal
  <2> QED
    BY <2>2, <2>3, <2>4, <2>5 DEF MemoryFollowsJournal
<1>13. RetirementFollowsDrain'
  BY <1>2, <1>5, RetiringAcked DEF DispatchInv, RetirementFollowsDrain, Session
<1>14. LockedWhileOpen'
  BY <1>2, <1>5 DEF LockedWhileOpen, Session
<1>15. ClosedIsOver'
  <2>1. \A h \in Goals : Live(h)' = Live(h)
    BY <1>1, SameExecutor
  <2>2. \A h \in Goals : rows'[h] = "closed" => rows[h] = "closed"
    BY <1>10
  <2> QED
    BY <1>5, <2>1, <2>2 DEF DispatchInv, ClosedIsOver
<1> QED
  BY <1>8, <1>11, <1>12, <1>13, <1>14, <1>15 DEF DispatchInv

\* An acceptance is acknowledged and leaves the journal alone.
LEMMA AcceptedKeeps ==
  ASSUME DispatchInv, NEW g \in Goals, RegisterAccepted(g)
  PROVE  DispatchInv'
<1>1. UNCHANGED <<vars, worker, workerVars, runtime, locked, issued, rows, intents, results,
                  stopping, jobs, watchVars>>
  BY DEF RegisterAccepted
<1>2. /\ Session /\ <<"accepted", g>> \in told \ acked /\ entries' = entries \cup {g}
      /\ acked' = acked \cup {<<"accepted", g>>}
  BY DEF RegisterAccepted
<1>3. request' = request /\ told' = told /\ report' = report /\ runtime' = runtime
      /\ locked' = locked /\ results' = results /\ watch' = watch /\ heard' = heard
      /\ rows' = rows /\ intents' = intents
  BY <1>1 DEF vars, goalVars, workerVars, watchVars
<1>4. DispatchTypeOK
  BY DEF DispatchInv
<1>5. RuntimeTypes
  BY <1>1, <1>2, <1>4 DEF DispatchTypeOK, RuntimeTypes, watchVars
<1>6. DispatchTypeOK' /\ IInv' /\ ToldOfGoals' /\ DrainStays'
  BY <1>1, <1>5, RuntimeKeeps
<1>7. IntentComesFirst'
  BY <1>2, <1>3 DEF DispatchInv, IntentComesFirst
<1>8. MemoryFollowsJournal'
  BY <1>2, <1>3 DEF DispatchInv, MemoryFollowsJournal, Session, OpenRows
<1>9. RetirementFollowsDrain' /\ LockedWhileOpen'
  BY <1>2, <1>3, RetiringAcked DEF DispatchInv, RetirementFollowsDrain, LockedWhileOpen, Session
<1>10. ClosedIsOver'
  BY <1>1, <1>3, SameExecutor DEF DispatchInv, ClosedIsOver
<1> QED
  BY <1>6, <1>7, <1>8, <1>9, <1>10 DEF DispatchInv

\* A step that closes rows of goals that are over. Every intent that was
\* acknowledged stays acknowledged, and no row appears.
LEMMA ClosingKeeps ==
  ASSUME DispatchInv, NEW g \in Goals, ~Live(g), request[g] \notin {"held", "sent"},
         UNCHANGED <<vars, worker, workerVars, runtime, locked, issued, intents, stopping,
                     jobs, watchVars>>,
         rows[g] # "none", rows' \in {rows, [rows EXCEPT ![g] = "closed"]},
         acked' \in {acked, acked \cup {<<"rejected", g>>}},
         acked' # acked => <<"rejected", g>> \in told,
         entries' \in {entries, entries \cup {g}},
         results' \in {results, results \cup {g}},
         results' # results => g \in intents /\ rows' = [rows EXCEPT ![g] = "closed"],
         watch \in {"retiring", "retired"} => entries' = entries
  PROVE  DispatchInv'
<1>1. request' = request /\ told' = told /\ report' = report /\ runtime' = runtime
      /\ locked' = locked /\ watch' = watch /\ heard' = heard /\ intents' = intents
  BY DEF vars, goalVars, workerVars, watchVars
<1>2. DispatchTypeOK
  BY DEF DispatchInv
<1>3. rows \in [Goals -> {"none", "open", "closed"}] /\ results \subseteq entries
      /\ intents \subseteq entries
  BY <1>2 DEF DispatchTypeOK
<1>4. RuntimeTypes
  <2>1. rows' \in [Goals -> {"none", "open", "closed"}]
    BY <1>3
  <2>2. acked \subseteq acked' /\ acked' \in SUBSET told
    BY <1>2 DEF DispatchTypeOK
  <2>3. entries' \in SUBSET Goals /\ intents' \in SUBSET entries' /\ results' \in SUBSET entries'
    BY <1>1, <1>2, <1>3 DEF DispatchTypeOK
  <2> QED
    BY <1>2, <2>1, <2>2, <2>3 DEF DispatchTypeOK, RuntimeTypes, watchVars
<1>5. DispatchTypeOK' /\ IInv' /\ ToldOfGoals' /\ DrainStays'
  BY <1>4, RuntimeKeeps
<1>6. \A h \in Goals :
        /\ h # g => rows'[h] = rows[h]
        /\ h = g => rows'[h] \in {rows[h], "closed"}
        /\ rows'[h] = "none" <=> rows[h] = "none"
        /\ <<"intent", h>> \in acked' <=> <<"intent", h>> \in acked
        /\ h \in results' => h \in results \/ (h = g /\ h \in intents /\ rows'[h] = "closed")
  BY <1>3
<1>7. IntentComesFirst'
  BY <1>1, <1>6 DEF DispatchInv, IntentComesFirst
<1>8. MemoryFollowsJournal'
  <2> SUFFICES ASSUME Session
               PROVE  /\ \A h \in Goals : h \in intents <=> <<"intent", h>> \in acked'
                      /\ results' \subseteq intents
                      /\ \A h \in results' : rows'[h] = "closed"
                      /\ OpenRows' \subseteq entries'
    BY <1>1 DEF MemoryFollowsJournal, Session
  <2>1. /\ \A h \in Goals : h \in intents <=> <<"intent", h>> \in acked
        /\ results \subseteq intents /\ \A h \in results : rows[h] = "closed"
        /\ OpenRows \subseteq entries
    BY DEF DispatchInv, MemoryFollowsJournal
  <2>2. \A h \in results' : h \in Goals /\ h \in intents /\ rows'[h] = "closed"
    BY <1>2, <1>6, <2>1 DEF DispatchTypeOK
  <2>3. OpenRows' \subseteq entries'
    BY <1>6, <2>1 DEF OpenRows
  <2> QED
    BY <1>6, <2>1, <2>2, <2>3
<1>9. RetirementFollowsDrain'
  BY <1>1 DEF DispatchInv, RetirementFollowsDrain, Session
<1>10. LockedWhileOpen'
  <2>1. OpenRows' \subseteq OpenRows
    BY <1>6 DEF OpenRows
  <2> QED
    BY <1>1, <2>1 DEF DispatchInv, LockedWhileOpen
<1>11. ClosedIsOver'
  BY <1>1, <1>6, SameExecutor DEF DispatchInv, ClosedIsOver
<1> QED
  BY <1>5, <1>7, <1>8, <1>9, <1>10, <1>11 DEF DispatchInv

\* A goal the server ended was sent, so its intent was recorded.
LEMMA TerminalIsRecorded ==
  ASSUME DispatchInv, NEW g \in Goals, server[g] \in Terminal
  PROVE  /\ ~Live(g) /\ request[g] \notin {"held", "sent"}
         /\ <<"intent", g>> \in acked /\ rows[g] # "none"
<1>1. request[g] \in {"accepting", "known"}
  BY DEF DispatchInv, IInv, GoalsAreOwned, Terminal
<1>2. <<"intent", g>> \in acked /\ rows[g] # "none"
  BY <1>1 DEF DispatchInv, IntentComesFirst
<1> QED
  BY <1>1, <1>2 DEF Live, Terminal

\* A rejected goal does not run, and the row of its intent is closed.
LEMMA RejectedKeeps ==
  ASSUME DispatchInv, NEW g \in Goals, RegisterRejected(g)
  PROVE  DispatchInv'
<1>1. /\ Session /\ <<"rejected", g>> \in told \ acked /\ entries' = entries \cup {g}
      /\ UNCHANGED <<vars, worker, workerVars, runtime, locked, issued, intents, stopping,
                     jobs, watchVars>>
  BY DEF RegisterRejected
<1>2. request[g] = "refused"
  BY <1>1 DEF DispatchInv, ToldOfGoals
<1>3. ~Live(g)
  BY <1>2 DEF DispatchInv, IInv, GoalsAreOwned, Live
<1>4. watch \notin {"retiring", "retired"}
  BY <1>1, RetiringAcked
<1>5. CASE g \in intents
  <2>1. rows[g] # "none"
    BY <1>1, <1>5 DEF DispatchInv, IntentComesFirst, MemoryFollowsJournal
  <2>2. /\ rows' = [rows EXCEPT ![g] = "closed"] /\ results' = results \cup {g}
        /\ acked' = acked \cup {<<"rejected", g>>}
    BY <1>5 DEF RegisterRejected
  <2> QED
    BY <1>1, <1>2, <1>3, <1>4, <1>5, <2>1, <2>2, ClosingKeeps
<1>6. CASE g \notin intents
  <2>1. UNCHANGED <<rows, results, acked>>
    BY <1>6 DEF RegisterRejected
  <2>2. request' = request /\ told' = told /\ report' = report /\ runtime' = runtime
        /\ locked' = locked /\ watch' = watch /\ heard' = heard /\ intents' = intents
    BY <1>1 DEF vars, goalVars, workerVars, watchVars
  <2>3. DispatchTypeOK
    BY DEF DispatchInv
  <2>4. RuntimeTypes
    BY <1>1, <2>1, <2>3 DEF DispatchTypeOK, RuntimeTypes, watchVars
  <2>5. DispatchTypeOK' /\ IInv' /\ ToldOfGoals' /\ DrainStays'
    BY <1>1, <2>4, RuntimeKeeps
  <2>6. IntentComesFirst' /\ MemoryFollowsJournal' /\ RetirementFollowsDrain' /\ LockedWhileOpen'
    BY <1>1, <1>4, <2>1, <2>2 DEF DispatchInv, IntentComesFirst, MemoryFollowsJournal,
       RetirementFollowsDrain, LockedWhileOpen, Session, OpenRows
  <2>7. ClosedIsOver'
    BY <1>1, <2>1, <2>2, SameExecutor DEF DispatchInv, ClosedIsOver
  <2> QED
    BY <2>5, <2>6, <2>7 DEF DispatchInv
<1> QED
  BY <1>5, <1>6

\* The result of a goal is known, from the query or from its canceller.
LEMMA ResultKnown ==
  ASSUME DispatchInv, NEW g \in Goals, QueryAnswered(g) \/ JobResolves(g)
  PROVE  DispatchInv'
<1>1. server[g] \in Terminal
  BY DEF QueryAnswered, JobResolves
<1>2. /\ ~Live(g) /\ request[g] \notin {"held", "sent"}
      /\ <<"intent", g>> \in acked /\ rows[g] # "none"
  BY <1>1, TerminalIsRecorded
<1>3. CASE QueryAnswered(g)
  <2>1. g \in intents
    BY <1>2, <1>3 DEF QueryAnswered, DispatchInv, MemoryFollowsJournal
  <2>2. /\ rows' = [rows EXCEPT ![g] = "closed"] /\ results' = results \cup {g}
        /\ UNCHANGED <<vars, worker, workerVars, runtime, locked, issued, intents, stopping,
                       jobs, watchVars>>
        /\ acked' = acked /\ entries' = entries
    BY <1>3, <2>1 DEF QueryAnswered
  <2> QED
    BY <1>2, <2>1, <2>2, ClosingKeeps
<1>4. CASE JobResolves(g)
  <2>1. /\ rows' = [rows EXCEPT ![g] = "closed"]
        /\ UNCHANGED <<vars, worker, workerVars, runtime, locked, issued, intents, stopping,
                       jobs, watchVars>>
        /\ acked' = acked /\ entries' = entries /\ results' = results
    BY <1>4 DEF JobResolves
  <2> QED
    BY <1>2, <2>1, ClosingKeeps
<1> QED
  BY <1>3, <1>4

\* A step that records nothing and prepares no retirement it may not.
LEMMA ControlKeeps ==
  ASSUME DispatchInv, UNCHANGED <<vars, worker, workerVars, rows, acked>>,
         RuntimeTypes,
         MemoryFollowsJournal', RetirementFollowsDrain', LockedWhileOpen'
  PROVE  DispatchInv'
<1>1. DispatchTypeOK' /\ IInv' /\ ToldOfGoals' /\ DrainStays'
  BY RuntimeKeeps
<1>2. request' = request /\ told' = told
  BY DEF vars, goalVars, workerVars
<1>3. IntentComesFirst' /\ ClosedIsOver'
  BY <1>2, SameExecutor DEF DispatchInv, IntentComesFirst, ClosedIsOver
<1> QED
  BY <1>1, <1>3 DEF DispatchInv

\* The supervision of a session: it records nothing, a drained status is heard
\* after the drain and a retirement prepared with every result.
LEMMA SupervisionKeeps ==
  ASSUME DispatchInv,
         \/ SessionCancels \/ SessionFails \/ \E g \in Goals : JobStarts(g)
         \/ \E id \in Ids : SupervisorHearsCancel(id)
         \/ SupervisorHearsStatus \/ PrepareRetirement \/ WatchdogSamples
  PROVE  DispatchInv'
<1> USE DEF SessionCancels, SessionFails, JobStarts, SupervisorHearsCancel,
            SupervisorHearsStatus, PrepareRetirement, WatchdogSamples, managerVars, watchVars
<1>1. /\ Session /\ UNCHANGED <<vars, worker, workerVars, rows, acked>>
      /\ UNCHANGED <<runtime, intents, entries, results>>
  OBVIOUS
<1>2. DispatchTypeOK
  BY DEF DispatchInv
<1>3. /\ locked' \in BOOLEAN /\ issued' \in SUBSET Ids
      /\ stopping' \in SUBSET {"cancel", "failed"} /\ jobs' \in SUBSET Goals
  BY <1>2 DEF DispatchTypeOK, Ids
<1>4. /\ watch' \in {"ok", "fault", "retiring", "retired"}
      /\ watchId' \in Ids \cup {None}
      /\ heard' \in {"none", "drained", "blocked"}
  BY <1>2 DEF DispatchTypeOK
<1>5. RuntimeTypes
  BY <1>1, <1>2, <1>3, <1>4 DEF DispatchTypeOK, RuntimeTypes
<1>6. report' = report
  BY <1>1 DEF workerVars
<1>7. MemoryFollowsJournal' /\ LockedWhileOpen'
  BY <1>1 DEF DispatchInv, MemoryFollowsJournal, LockedWhileOpen, Session, OpenRows
<1>8. RetirementFollowsDrain'
  BY <1>1, <1>6 DEF DispatchInv, RetirementFollowsDrain, Session
<1> QED
  BY <1>1, <1>5, <1>7, <1>8, ControlKeeps

\* The runtime dies and comes back: only the journal survives.
LEMMA RestartKeeps ==
  ASSUME DispatchInv, RuntimeEnds \/ RuntimeRestarts
  PROVE  DispatchInv'
<1> USE DEF RuntimeEnds, RuntimeRestarts, managerVars, watchVars
<1>1. DispatchTypeOK
  BY DEF DispatchInv
<1>2. UNCHANGED <<vars, worker, workerVars, rows, acked, issued>> /\ report' = report
  BY DEF workerVars
<1>3. /\ runtime' \in {"down", "restarted"} /\ locked' \in BOOLEAN /\ jobs' \in SUBSET Goals
  BY DEF OpenRows
<1>4. /\ entries' \in SUBSET Goals /\ intents' \in SUBSET entries'
      /\ results' \in SUBSET entries' /\ stopping' \in SUBSET {"cancel", "failed"}
  BY <1>1 DEF DispatchTypeOK
<1>5. /\ watch' \in {"ok", "fault", "retiring", "retired"}
      /\ watchId' \in Ids \cup {None} /\ heard' \in {"none", "drained", "blocked"}
  BY <1>1 DEF DispatchTypeOK
<1>6. RuntimeTypes
  BY <1>1, <1>2, <1>3, <1>4, <1>5 DEF DispatchTypeOK, RuntimeTypes
<1>7. MemoryFollowsJournal'
  BY <1>3 DEF MemoryFollowsJournal, Session
<1>8. RetirementFollowsDrain'
  BY <1>2 DEF DispatchInv, RetirementFollowsDrain, Session
<1>9. LockedWhileOpen'
  BY <1>2 DEF LockedWhileOpen, OpenRows
<1> QED
  BY <1>2, <1>6, <1>7, <1>8, <1>9, ControlKeeps

\* What the worker learns, and the drain it reports: that is a statement about
\* the executor and the registrations at that moment.
LEMMA LearningKeeps ==
  ASSUME DispatchInv,
         \/ MapVerified \/ LeaseReceived \/ LeaseReply \/ ReportDrain
         \/ \E g \in Goals, e \in Events : Acknowledged(e, g)
  PROVE  DispatchInv'
<1> USE DEF MapVerified, LeaseReceived, LeaseReply, ReportDrain, Acknowledged
<1>1. UNCHANGED <<vars, worker, registration, told, runtimeVars>>
  OBVIOUS
<1>2. UNCHANGED <<runtime, locked, issued, rows, acked, intents, entries, results, stopping,
                  jobs, watch, watchId, heard>>
  BY <1>1 DEF runtimeVars, managerVars, watchVars
<1>3. DispatchTypeOK
  BY DEF DispatchInv
<1>4. IInv' /\ TypeOK' /\ DrainState' = DrainState /\ request' = request
  BY <1>1, SameExecutor DEF IInv
<1>5. Alive
  OBVIOUS
<1>6. /\ dispatched' \in BOOLEAN
      /\ lease' \in {"new", "replied", "ready", "failed", "retired"}
      /\ map' \in {"pending", "verified", "failed"} /\ registration' \in {"healthy", "failed"}
      /\ cancelId' \in Ids \cup {None}
      /\ report' \in {"none", "cancel_drained", "cancel_failed"}
  BY <1>3 DEF DispatchTypeOK
<1>7. awaiting' \subseteq awaiting /\ awaiting \ awaiting' \subseteq acked
  OBVIOUS
<1>8. /\ report = "cancel_drained" => report' = "cancel_drained"
      /\ report' = "cancel_drained" /\ report # "cancel_drained" =>
           Settled /\ DrainState = "cancel_drained" /\ awaiting' = awaiting
  BY DEF Protection
<1>9. DispatchTypeOK'
  <2>1. awaiting' \in SUBSET told' /\ told' \in SUBSET (Events \X Goals) /\ acked' \in SUBSET told'
    BY <1>1, <1>2, <1>3, <1>7 DEF DispatchTypeOK
  <2>2. /\ runtime' \in {"session", "down", "restarted"} /\ locked' \in BOOLEAN
        /\ issued' \in SUBSET Ids
        /\ rows' \in [Goals -> {"none", "open", "closed"}]
        /\ entries' \in SUBSET Goals /\ intents' \in SUBSET entries'
        /\ results' \in SUBSET entries'
    BY <1>2, <1>3 DEF DispatchTypeOK
  <2>3. /\ worker' \in {"running", "overdue", "exit 0", "exit 1"}
        /\ stopping' \in SUBSET {"cancel", "failed"}
        /\ jobs' \in SUBSET Goals
        /\ watch' \in {"ok", "fault", "retiring", "retired"}
        /\ watchId' \in Ids \cup {None}
        /\ heard' \in {"none", "drained", "blocked"}
    BY <1>1, <1>2, <1>3 DEF DispatchTypeOK
  <2> QED
    BY <1>4, <1>6, <2>1, <2>2, <2>3 DEF DispatchTypeOK
<1>10. ToldOfGoals' /\ IntentComesFirst'
  BY <1>1, <1>2, <1>4, <1>5 DEF DispatchInv, ToldOfGoals, IntentComesFirst, Alive
<1>11. MemoryFollowsJournal' /\ LockedWhileOpen'
  BY <1>2 DEF DispatchInv, MemoryFollowsJournal, LockedWhileOpen, Session, OpenRows
<1>12. DrainStays'
  BY <1>1, <1>2, <1>4, <1>7, <1>8 DEF DispatchInv, DrainStays, Settled
<1>13. RetirementFollowsDrain'
  BY <1>2, <1>8 DEF DispatchInv, RetirementFollowsDrain, Session
<1>14. ClosedIsOver'
  BY <1>1, <1>2, SameExecutor DEF DispatchInv, ClosedIsOver
<1> QED
  BY <1>4, <1>9, <1>10, <1>11, <1>12, <1>13, <1>14 DEF DispatchInv

-----------------------------------------------------------------------------
(* The theorems.                                                           *)

\* A worker just started told nothing, and nothing is recorded of it.
LEMMA DispatchStarts == ASSUME DispatchInit PROVE DispatchInv
<1> USE DEF DispatchInit
<1>1. IInv /\ TypeOK
  BY InitHolds DEF IInv
<1>2. DispatchTypeOK
  BY <1>1 DEF DispatchTypeOK
<1>3. ToldOfGoals /\ IntentComesFirst
  BY DEF ToldOfGoals, IntentComesFirst, Init, Events
<1>4. MemoryFollowsJournal /\ LockedWhileOpen
  BY DEF MemoryFollowsJournal, LockedWhileOpen, OpenRows
<1>5. DrainStays /\ RetirementFollowsDrain
  BY DEF DrainStays, RetirementFollowsDrain
<1>6. ClosedIsOver
  BY DEF ClosedIsOver
<1> QED
  BY <1>1, <1>2, <1>3, <1>4, <1>5, <1>6 DEF DispatchInv

\* One case for each of the two processes and the server.
LEMMA DispatchKeeps == ASSUME DispatchInv, [DispatchNext]_dispatchVars PROVE DispatchInv'
<1>1. CASE Worker
  BY <1>1, ExecutorKeeps, GuardKeeps, IntentKeeps, EndKeeps, LearningKeeps DEF Worker
<1>2. CASE Runtime
  BY <1>2, LearningKeeps, SupervisionKeeps, RestartKeeps, IntentRecorded, AcceptedKeeps,
     RejectedKeeps, ResultKnown, JobCancelKeeps DEF Runtime
<1>3. CASE Nav2
  BY <1>3, Nav2Keeps
<1>4. CASE UNCHANGED dispatchVars
  <2>1. UNCHANGED <<vars, worker, workerVars, runtimeVars>>
    BY <1>4 DEF dispatchVars
  <2>2. UNCHANGED <<rows, acked>> /\ RuntimeTypes
    BY <2>1 DEF DispatchInv, DispatchTypeOK, RuntimeTypes, runtimeVars, managerVars, watchVars
  <2>3. MemoryFollowsJournal' /\ RetirementFollowsDrain' /\ LockedWhileOpen'
    BY <2>1 DEF DispatchInv, MemoryFollowsJournal, RetirementFollowsDrain, LockedWhileOpen,
       Session, OpenRows, workerVars, runtimeVars, managerVars, watchVars
  <2> QED
    BY <2>1, <2>2, <2>3, ControlKeeps
<1> QED
  BY <1>1, <1>2, <1>3, <1>4 DEF DispatchNext

\* The invariant holds: worker, runtime and journal agree in every state, in
\* whatever order the callbacks of the two processes run and whenever one dies.
THEOREM DispatchInductive == DispatchSpec => []DispatchInv
<1>1. DispatchInit => DispatchInv
  BY DispatchStarts
<1>2. DispatchInv /\ [DispatchNext]_dispatchVars => DispatchInv'
  BY DispatchKeeps
<1> QED
  BY <1>1, <1>2, PTL DEF DispatchSpec

\* Every variable of the worker and of the runtime keeps its type.
THEOREM DispatchTypeCorrect == DispatchSpec => []DispatchTypeOK
<1>1. DispatchInv => DispatchTypeOK
  BY DEF DispatchInv
<1> QED
  BY <1>1, DispatchInductive, PTL

\* Whatever the worker sends to Nav2 is in the journal: the write of
\* DispatchJournal comes before the acknowledgement, and that before the release.
THEOREM Journaled == DispatchSpec => []SentIsJournaled
<1>1. DispatchInv => SentIsJournaled
  BY DEF DispatchInv, IntentComesFirst, SentIsJournaled
<1> QED
  BY <1>1, DispatchInductive, PTL

\* A row that resolve closed is one whose goal neither runs nor can be sent.
THEOREM ClosedOver == DispatchSpec => []ClosedIsOver
<1>1. DispatchInv => ClosedIsOver
  BY DEF DispatchInv
<1> QED
  BY <1>1, DispatchInductive, PTL

\* When nothing is in flight and everything told was acknowledged, the runtime
\* knows what became of each goal of the worker that reports its drain.
THEOREM DrainAccounted == DispatchSpec => []DrainIsAccounted
<1>1. DispatchInv => DrainIsAccounted
  <2> SUFFICES ASSUME DispatchInv, report = "cancel_drained", NEW g \in Goals
               PROVE  /\ Quiet(g)
                      /\ request[g] = "known" => <<"accepted", g>> \in acked
                      /\ request[g] = "refused" => <<"rejected", g>> \in acked
    BY DEF DrainIsAccounted
  <2>1. DrainState = "cancel_drained" /\ told \subseteq acked
    BY DEF DispatchInv, DrainStays, Settled
  <2>2. Quiet(g)
    BY <2>1, DrainedStates DEF DispatchInv, DrainedMeansQuiet, Quiet
  <2>3. /\ request[g] = "known" => <<"accepted", g>> \in told
        /\ request[g] = "refused" => <<"rejected", g>> \in told
    BY DEF DispatchInv, ToldOfGoals
  <2> QED
    BY <2>1, <2>2, <2>3
<1> QED
  BY <1>1, DispatchInductive, PTL

\* The watchdog retires a worker only after its drain and with every result, so
\* there is no open row left either.
THEOREM RetiredQuiet == DispatchSpec => []RetiredMeansQuiet
<1>1. DispatchInv => RetiredMeansQuiet
  <2> SUFFICES ASSUME DispatchInv, watch = "retired", NEW g \in Goals
               PROVE  Quiet(g) /\ rows[g] # "open"
    BY DEF RetiredMeansQuiet
  <2>1. Session /\ report = "cancel_drained" /\ entries \subseteq results
    BY DEF DispatchInv, RetirementFollowsDrain
  <2>2. Quiet(g)
    BY <2>1, DrainedStates DEF DispatchInv, DrainStays, DrainedMeansQuiet, Quiet
  <2>3. rows[g] # "open"
    BY <2>1 DEF DispatchInv, MemoryFollowsJournal, OpenRows
  <2> QED
    BY <2>2, <2>3
<1> QED
  BY <1>1, DispatchInductive, PTL

\* A restarted runtime that is not locked found no open row: a goal that ran or
\* was on its way would have one.
THEOREM RestartQuiet == DispatchSpec => []RestartFindsQuiet
<1>1. DispatchInv => RestartFindsQuiet
  <2> SUFFICES ASSUME DispatchInv, runtime = "restarted", ~locked, NEW g \in Goals
               PROVE  ~Live(g) /\ request[g] # "sent"
    BY DEF RestartFindsQuiet
  <2>1. rows[g] # "open" /\ rows[g] \in {"none", "open", "closed"}
    BY DEF DispatchInv, LockedWhileOpen, OpenRows, DispatchTypeOK
  <2>2. CASE rows[g] = "closed"
    BY <2>2 DEF DispatchInv, ClosedIsOver
  <2>3. CASE rows[g] = "none"
    <3>1. request[g] \notin {"sent", "accepting", "rejecting", "known"}
      BY <2>3 DEF DispatchInv, IntentComesFirst
    <3> QED
      BY <3>1 DEF DispatchInv, IInv, GoalsAreOwned, Live
  <2> QED
    BY <2>1, <2>2, <2>3
<1> QED
  BY <1>1, DispatchInductive, PTL
=============================================================================
