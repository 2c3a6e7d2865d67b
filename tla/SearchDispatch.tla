--------------------------- MODULE SearchDispatch ---------------------------
(***************************************************************************)
(* One search worker process and the runtime process that owns it.         *)
(*                                                                         *)
(* The worker (search_worker_main.cpp) has a navigation executor           *)
(* (NavigationExecutor, extended here; it installs no cancellation         *)
(* observer) under a SearchExecutionGuard: supervisor lease, map evidence, *)
(* goal registration and cancel reporter. The runtime has, for this        *)
(* worker, a RegisteredGoalsCanceller with the durable DispatchJournal and *)
(* a SearchProcessSupervisor with its watchdog.                            *)
(*                                                                         *)
(* A goal is released to Nav2 only after its intent was recorded in the    *)
(* journal and acknowledged. Either process may die at any time; only the  *)
(* journal survives. Messages between the two may be delayed, repeated or  *)
(* lost: what was once published may be received at any later time.        *)
(***************************************************************************)
EXTENDS NavigationExecutor

ASSUME WorkerAssumption == ~Observed /\ SearchOwned

VARIABLES
  \* the worker
  worker,     \* its process: "running", "overdue" (timed_out), or its exit code
  dispatched, \* SearchExecutionGuard::sent_
  lease,      \* SearchSupervisorLease
  map,        \* what checkMap found last; "failed" is map_failed_
  registration, \* SearchGoalRegistration: "healthy" or "failed" (failed_)
  awaiting,   \* SearchGoalRegistration::pending_, as <<event, goal>>
  cancelId,   \* SearchCancelReporter::cancel_
  report,     \* SearchCancelReporter::terminal_
  told,       \* registrations published
  \* the runtime
  runtime,    \* "session", "down" or "restarted" without a session
  locked,     \* SearchRuntime.locked
  issued,     \* cancel ids published on the private request topic
  rows,       \* DispatchJournal: "none", "open" or "closed"
  acked,      \* registrations acknowledged
  intents,    \* RegisteredGoalsCanceller.intent_keys
  entries,    \* registry.entries
  results,    \* keys of RegisteredGoalsCanceller.results
  stopping,   \* RegisteredGoalsCanceller.cancel or .failed is set
  jobs,       \* goals with an IntentGoalCanceller
  watch,      \* SearchProcessWatchdog: "ok", "fault", "retiring", "retired"
  watchId,    \* SearchProcessWatchdog.cancel_id
  heard       \* status the supervisor holds: "none", "drained", "blocked"

workerVars == <<dispatched, lease, map, registration, awaiting, cancelId, report, told>>
managerVars == <<rows, acked, intents, entries, results, stopping>>
watchVars == <<watch, watchId, heard>>
runtimeVars == <<runtime, locked, issued, managerVars, jobs, watchVars>>
dispatchVars == <<vars, worker, workerVars, runtimeVars>>

Events == {"intent", "accepted", "rejected"}
Ids    == {"task", "emergency"}

DispatchTypeOK ==
  /\ TypeOK
  /\ worker \in {"running", "overdue", "exit 0", "exit 1"}
  /\ dispatched \in BOOLEAN
  /\ lease \in {"new", "replied", "ready", "failed", "retired"}
  /\ map \in {"pending", "verified", "failed"}
  /\ registration \in {"healthy", "failed"}
  /\ awaiting \in SUBSET told /\ told \in SUBSET (Events \X Goals)
  /\ cancelId \in Ids \cup {None}
  /\ report \in {"none", "cancel_drained", "cancel_failed"}
  /\ runtime \in {"session", "down", "restarted"} /\ locked \in BOOLEAN
  /\ issued \in SUBSET Ids
  /\ rows \in [Goals -> {"none", "open", "closed"}]
  /\ acked \in SUBSET told
  /\ entries \in SUBSET Goals /\ intents \in SUBSET entries
  /\ results \in SUBSET entries
  /\ stopping \in SUBSET {"cancel", "failed"}
  /\ jobs \in SUBSET Goals
  /\ watch \in {"ok", "fault", "retiring", "retired"}
  /\ watchId \in Ids \cup {None}
  /\ heard \in {"none", "drained", "blocked"}

\* Right after start_worker; the journal has no open row.
DispatchInit ==
  /\ Init
  /\ worker = "running" /\ dispatched = FALSE
  /\ lease = "new" /\ map = "pending"
  /\ registration = "healthy" /\ awaiting = {} /\ told = {}
  /\ cancelId = None /\ report = "none"
  /\ runtime = "session" /\ locked = FALSE /\ issued = {}
  /\ rows = [g \in Goals |-> "none"] /\ acked = {}
  /\ intents = {} /\ entries = {} /\ results = {} /\ stopping = {} /\ jobs = {}
  /\ watch = "ok" /\ watchId = None /\ heard = "none"

-----------------------------------------------------------------------------
(* The worker. Its callbacks run in one thread.                            *)

Session    == runtime = "session"
Alive      == worker \in {"running", "overdue"}
Cancelling == cancelId # None
Settled    == registration = "healthy" /\ awaiting = {}

\* SearchGoalRegistration::record for what the executor tells its observers in
\* this step: a request held back, accepted, or rejected, by the server or by
\* the deferred client itself.
Recorded ==
  {<<"intent", g>> : g \in {h \in Goals : request[h] = "unsent" /\ request'[h] = "held"}}
  \cup {<<"accepted", g>> : g \in {h \in Goals : request[h] = "accepting" /\ request'[h] = "known"}}
  \cup {<<"rejected", g>> : g \in {h \in Goals : request[h] # "refused" /\ request'[h] = "refused"}}

Records(done) ==
  /\ told' = told \cup Recorded
  /\ awaiting' = (awaiting \ done) \cup Recorded

\* A callback of the executor other than the release of a held goal.
ExecutorCallback ==
  /\ Alive
  /\ \/ ServerTimer \/ RetryTimer \/ GoalTimer
     \/ \E g \in Goals :
          \/ AcceptResponse(g) \/ RejectResponse(g)
          \/ ResultCallback(g) \/ CancelReply(g)
  /\ Records({})
  /\ UNCHANGED <<worker, dispatched, lease, map, registration, cancelId, report, runtimeVars>>

\* The main loop finds the guard ready and dispatches the point, once.
Dispatch ==
  /\ worker = "running" /\ ~dispatched
  /\ ~Cancelling /\ map = "verified" /\ registration = "healthy" /\ lease = "ready"
  /\ dispatched' = TRUE
  /\ Begin
  /\ Records({})
  /\ UNCHANGED <<worker, lease, map, registration, cancelId, report, runtimeVars>>

MapVerified ==
  /\ Alive /\ map = "pending" /\ Session
  /\ map' = "verified"
  /\ UNCHANGED <<vars, worker, dispatched, lease, registration, awaiting, cancelId,
                 report, told, runtimeVars>>

\* checkMap finds the evidence expired or revoked; its timer does not look any
\* more once a cancellation was received.
MapFails ==
  /\ Alive /\ ~Cancelling /\ map \in {"pending", "verified"}
  /\ map' = "failed"
  /\ SealAndCancel
  /\ Records({})
  /\ UNCHANGED <<worker, dispatched, lease, registration, cancelId, report, runtimeVars>>

LeaseReceived ==
  /\ Alive /\ lease = "replied"
  /\ lease' = "ready"
  /\ UNCHANGED <<vars, worker, dispatched, map, registration, awaiting, cancelId,
                 report, told, runtimeVars>>

LeaseExpires ==
  /\ Alive /\ lease \in {"new", "replied", "ready"}
  /\ lease' = "failed"
  /\ SealAndCancel
  /\ Records({})
  /\ UNCHANGED <<worker, dispatched, map, registration, cancelId, report, runtimeVars>>

\* A registration is not acknowledged in time.
RegistrationExpires ==
  /\ Alive /\ registration = "healthy"
  /\ \E record \in awaiting :
       /\ registration' = "failed"
       /\ SealAndCancel
       /\ Records({record})
  /\ UNCHANGED <<worker, dispatched, lease, map, cancelId, report, runtimeVars>>

\* acknowledge of an acceptance or a rejection.
Acknowledged(e, g) ==
  /\ Alive /\ registration = "healthy"
  /\ e # "intent" /\ <<e, g>> \in awaiting \cap acked
  /\ awaiting' = awaiting \ {<<e, g>>}
  /\ UNCHANGED <<vars, worker, dispatched, lease, map, registration, cancelId,
                 report, told, runtimeVars>>

\* dispatch_permit. (That checkMap fails in this call is a MapFails just before.)
Permitted == ~Cancelling /\ map = "verified" /\ lease = "ready"

\* acknowledge of an intent: the goal is released if it is still permitted and
\* still wanted, otherwise everything is sealed.
IntentAcknowledged(g) ==
  /\ Alive /\ registration = "healthy"
  /\ <<"intent", g>> \in awaiting \cap acked
  /\ IF Permitted
     THEN /\ IF request[g] = "held" THEN Release(g) ELSE UNCHANGED vars
          /\ UNCHANGED registration
     ELSE SealAndCancel /\ registration' = "failed"
  /\ Records({<<"intent", g>>})
  /\ UNCHANGED <<worker, dispatched, lease, map, cancelId, report, runtimeVars>>

\* SearchCancelReporter: the first cancellation seals the executor.
CancelReceived(id) ==
  /\ Alive /\ ~Cancelling /\ id \in issued
  /\ cancelId' = id
  /\ SealAndCancel
  /\ Records({})
  /\ UNCHANGED <<worker, dispatched, lease, map, registration, report, runtimeVars>>

\* Seeded fault: registrations that wait for an acknowledgement do not count.
ProtectionUnsettled ==
  IF map = "failed" \/ lease = "failed" \/ registration = "failed" THEN "cancel_failed"
  ELSE "cancel_drained"

\* The reporter's timer. The lease is retired, then the state is taken from the
\* guard and the executor; after two seconds it is cancel_failed.
Protection ==
  IF map = "failed" \/ lease = "failed" \/ registration = "failed" THEN "cancel_failed"
  ELSE IF Settled THEN "cancel_drained" ELSE "cancel_received"

ReportDrain ==
  /\ Alive /\ Cancelling /\ report = "none"
  /\ lease' = IF lease = "failed" THEN lease ELSE "retired"
  /\ report' \in {"none", "cancel_drained", "cancel_failed"}
  /\ report' = "cancel_drained" => Protection = "cancel_drained" /\ DrainState = "cancel_drained"
  /\ report' = "none" => Protection # "cancel_failed" /\ DrainState # "cancel_failed"
                         /\ ~(Protection = "cancel_drained" /\ DrainState = "cancel_drained")
  /\ UNCHANGED <<vars, worker, dispatched, map, registration, awaiting, cancelId,
                 told, runtimeVars>>

\* The lifetime of the process is over: three seconds are left to cancel.
Overdue ==
  /\ worker = "running"
  /\ worker' = "overdue"
  /\ SealAndCancel
  /\ Records({})
  /\ UNCHANGED <<dispatched, lease, map, registration, cancelId, report, runtimeVars>>

\* retirementReady for the id the watchdog asks to retire.
RetirementReady ==
  /\ watch = "retiring" /\ watchId = cancelId
  /\ report = "cancel_drained" /\ map # "failed" /\ lease # "failed"
  /\ Settled /\ DrainState = "cancel_drained"

\* The process ends: retired, on a signal, or at the end of its three seconds;
\* in each case it seals first. What it sends last may never arrive.
WorkerEnds ==
  /\ Alive
  /\ worker' \in {"exit 0", "exit 1"}
  /\ worker' = "exit 0" => worker = "running"
  /\ SealAndCancel
  /\ UNCHANGED <<workerVars, runtimeVars>>

\* The worker is retired: its main loop breaks.
WorkerRetires ==
  /\ worker = "running" /\ RetirementReady
  /\ worker' = "exit 0"
  /\ SealAndCancel
  /\ UNCHANGED <<workerVars, runtimeVars>>

\* The process dies on the spot, or refuses to dispatch.
WorkerDies ==
  /\ Alive
  /\ worker' = "exit 1"
  /\ UNCHANGED <<vars, workerVars, runtimeVars>>

-----------------------------------------------------------------------------
(* The runtime. Its callbacks run in one thread as well.                   *)

\* on_lease: a reply only while the watchdog has no fault and no cancellation,
\* and the subscription was not destroyed by stop_lease.
LeaseReply ==
  /\ Session /\ lease = "new" /\ Alive
  /\ watch # "fault" /\ watchId = None /\ "emergency" \notin issued
  /\ lease' = "replied"
  /\ UNCHANGED <<vars, worker, dispatched, map, registration, awaiting, cancelId,
                 report, told, runtimeVars>>

\* A cancellation of the task, public or for the next point, is forwarded.
SessionCancels ==
  /\ Session /\ "task" \notin issued
  /\ issued' = issued \cup {"task"}
  /\ UNCHANGED <<vars, worker, workerVars, runtime, locked, managerVars, jobs, watchVars>>

\* fail, for whatever reason: the emergency cancellation.
SessionFails ==
  /\ Session /\ "emergency" \notin issued
  /\ issued' = issued \cup {"emergency"}
  /\ locked' = TRUE
  /\ stopping' = stopping \cup {"cancel"}
  /\ UNCHANGED <<vars, worker, workerVars, runtime, rows, acked, intents, entries,
                 results, jobs, watchVars>>

\* on_registration of an intent: registered, recorded durably, acknowledged.
RegisterIntent(g) ==
  /\ Session /\ stopping = {} /\ <<"intent", g>> \in told \ acked
  /\ entries' = entries \cup {g} /\ intents' = intents \cup {g}
  /\ rows' = [rows EXCEPT ![g] = "open"]
  /\ acked' = acked \cup {<<"intent", g>>}
  /\ UNCHANGED <<vars, worker, workerVars, runtime, locked, issued, results,
                 stopping, jobs, watchVars>>

\* Seeded fault: an intent that could not be recorded is acknowledged.
PersistFailsAcknowledged(g) ==
  /\ Session /\ stopping = {} /\ <<"intent", g>> \in told \ acked
  /\ entries' = entries \cup {g}
  /\ rows' \in {rows, [rows EXCEPT ![g] = "open"]}
  /\ stopping' = stopping \cup {"failed"}
  /\ acked' = acked \cup {<<"intent", g>>}
  /\ UNCHANGED <<vars, worker, workerVars, runtime, locked, issued, intents,
                 results, jobs, watchVars>>

\* The journal raises; whether the row was committed is not known.
PersistFails(g) ==
  /\ Session /\ stopping = {} /\ <<"intent", g>> \in told \ acked
  /\ entries' = entries \cup {g}
  /\ rows' \in {rows, [rows EXCEPT ![g] = "open"]}
  /\ stopping' = stopping \cup {"failed"}
  /\ UNCHANGED <<vars, worker, workerVars, runtime, locked, issued, acked, intents,
                 results, jobs, watchVars>>

RegisterAccepted(g) ==
  /\ Session /\ <<"accepted", g>> \in told \ acked
  /\ entries' = entries \cup {g}
  /\ acked' = acked \cup {<<"accepted", g>>}
  /\ UNCHANGED <<vars, worker, workerVars, runtime, locked, issued, rows, intents,
                 results, stopping, jobs, watchVars>>

\* A rejection resolves the row of its intent. Without one it is registered
\* and then refused.
RegisterRejected(g) ==
  /\ Session /\ <<"rejected", g>> \in told \ acked
  /\ entries' = entries \cup {g}
  /\ IF g \in intents
     THEN /\ rows' = [rows EXCEPT ![g] = "closed"]
          /\ results' = results \cup {g}
          /\ acked' = acked \cup {<<"rejected", g>>}
     ELSE UNCHANGED <<rows, results, acked>>
  /\ UNCHANGED <<vars, worker, workerVars, runtime, locked, issued, intents,
                 stopping, jobs, watchVars>>

\* Seeded fault: an UNKNOWN answer counts as terminal.
QueryAnsweredUnknown(g) ==
  /\ Session /\ g \in entries \ results /\ ~Live(g)
  /\ results' = results \cup {g}
  /\ rows' = (IF g \in intents THEN [rows EXCEPT ![g] = "closed"] ELSE rows)
  /\ UNCHANGED <<vars, worker, workerVars, runtime, locked, issued, acked, intents,
                 entries, stopping, jobs, watchVars>>

\* The result query of a registered goal answers with a terminal status.
QueryAnswered(g) ==
  /\ Session /\ g \in entries \ results /\ server[g] \in Terminal
  /\ results' = results \cup {g}
  /\ rows' = (IF g \in intents THEN [rows EXCEPT ![g] = "closed"] ELSE rows)
  /\ UNCHANGED <<vars, worker, workerVars, runtime, locked, issued, acked, intents,
                 entries, stopping, jobs, watchVars>>

\* After request_cancel every registered goal without a result gets a canceller.
JobStarts(g) ==
  /\ Session /\ "cancel" \in stopping /\ g \in entries \ (results \cup jobs)
  /\ jobs' = jobs \cup {g}
  /\ UNCHANGED <<vars, worker, workerVars, runtime, locked, issued, managerVars, watchVars>>

\* The canceller's request reaches the server, by UUID.
JobCancels(g) ==
  /\ g \in jobs /\ server[g] = "executing"
  /\ server' = [server EXCEPT ![g] = "canceling"]
  /\ outcome' = "none"
  /\ UNCHANGED <<planVars, tokenVars, sealed, cancelVars, goalVars,
                 worker, workerVars, runtimeVars>>

\* IntentGoalCanceller resolves its row, at a terminal status only.
JobResolves(g) ==
  /\ g \in jobs /\ server[g] \in Terminal /\ rows[g] = "open"
  /\ g \in intents \/ ~Session
  /\ rows' = [rows EXCEPT ![g] = "closed"]
  /\ UNCHANGED <<vars, worker, workerVars, runtime, locked, issued, acked, intents,
                 entries, results, stopping, jobs, watchVars>>

\* on_request: the first cancellation is adopted; with a fault it is handed to
\* the goal canceller.
SupervisorHearsCancel(id) ==
  /\ Session /\ id \in issued /\ watchId = None
  /\ watchId' = id
  /\ stopping' = (IF watch = "fault" THEN stopping \cup {"cancel"} ELSE stopping)
  /\ UNCHANGED <<vars, worker, workerVars, runtime, locked, issued, rows, acked,
                 intents, entries, results, jobs, watch, heard>>

\* on_status: a fault of the worker, or of the watchdog itself, blocks the
\* retirement for good.
WorkerFault ==
  \/ map = "failed" \/ lease = "failed" \/ registration = "failed"
  \/ worker = "overdue" \/ report = "cancel_failed" \/ watch = "fault"

SupervisorHearsStatus ==
  /\ Session
  /\ \/ heard = "none" /\ report = "cancel_drained" /\ heard' = "drained"
     \/ heard # "blocked" /\ WorkerFault /\ heard' = "blocked"
  /\ UNCHANGED <<vars, worker, workerVars, runtime, locked, issued, managerVars,
                 jobs, watch, watchId>>

\* Seeded fault: the retirement does not wait for the results.
PrepareRetirementEarly ==
  /\ Session /\ heard = "drained"
  /\ watchId # None /\ watchId = cancelId
  /\ watch = "ok" /\ Alive
  /\ watch' = "retiring"
  /\ UNCHANGED <<vars, worker, workerVars, runtime, locked, issued, managerVars,
                 jobs, watchId, heard>>

\* The supervisor's tick, can_retire and prepare_retirement: the drain is that
\* of the adopted cancellation and every registered goal has its result.
PrepareRetirement ==
  /\ Session /\ heard = "drained" /\ entries \subseteq results
  /\ watchId # None /\ watchId = cancelId
  /\ watch = "ok" /\ Alive
  /\ watch' = "retiring"
  /\ UNCHANGED <<vars, worker, workerVars, runtime, locked, issued, managerVars,
                 jobs, watchId, heard>>

\* sample: an exit with code 0 during the retirement retires, any other exit
\* and every deadline is a fault, which is handed to the goal canceller.
WatchdogSamples ==
  /\ Session /\ watch \in {"ok", "retiring"}
  /\ \/ /\ watch = "retiring" /\ worker = "exit 0"
        /\ watch' = "retired" /\ UNCHANGED stopping
     \/ /\ watch' = "fault"
        /\ stopping' = (IF watchId # None THEN stopping \cup {"cancel"} ELSE stopping)
  /\ UNCHANGED <<vars, worker, workerVars, runtime, locked, issued, rows, acked,
                 intents, entries, results, jobs, watchId, heard>>

\* The runtime process ends; what it kept in memory is gone.
RuntimeEnds ==
  /\ runtime # "down"
  /\ runtime' = "down"
  /\ locked' = FALSE /\ intents' = {} /\ entries' = {} /\ results' = {}
  /\ stopping' = {} /\ jobs' = {}
  /\ watch' = "ok" /\ watchId' = None /\ heard' = "none"
  /\ UNCHANGED <<vars, worker, workerVars, issued, rows, acked>>

OpenRows == {g \in Goals : rows[g] = "open"}

\* Seeded fault: the restarted runtime cancels its open rows but is not locked.
RuntimeRestartsUnlocked ==
  /\ runtime = "down"
  /\ runtime' = "restarted"
  /\ jobs' = OpenRows /\ locked' = FALSE
  /\ UNCHANGED <<vars, worker, workerVars, issued, managerVars, watchVars>>

\* A new runtime process, in a namespace of its own: it takes over the rows that
\* are open, and is locked if there are any. To the old worker it says nothing.
RuntimeRestarts ==
  /\ runtime = "down"
  /\ runtime' = "restarted"
  /\ jobs' = OpenRows /\ locked' = (OpenRows # {})
  /\ UNCHANGED <<vars, worker, workerVars, issued, managerVars, watchVars>>

-----------------------------------------------------------------------------

Worker ==
  \/ ExecutorCallback \/ Dispatch
  \/ MapVerified \/ MapFails \/ LeaseReceived \/ LeaseExpires
  \/ RegistrationExpires
  \/ \E g \in Goals : IntentAcknowledged(g) \/ \E e \in Events : Acknowledged(e, g)
  \/ \E id \in Ids : CancelReceived(id)
  \/ ReportDrain \/ Overdue \/ WorkerEnds \/ WorkerRetires \/ WorkerDies

Runtime ==
  \/ LeaseReply \/ SessionCancels \/ SessionFails
  \/ \E g \in Goals :
       \/ RegisterIntent(g) \/ PersistFails(g)
       \/ RegisterAccepted(g) \/ RegisterRejected(g)
       \/ QueryAnswered(g) \/ JobStarts(g) \/ JobCancels(g) \/ JobResolves(g)
  \/ \E id \in Ids : SupervisorHearsCancel(id)
  \/ SupervisorHearsStatus \/ PrepareRetirement \/ WatchdogSamples
  \/ RuntimeEnds \/ RuntimeRestarts

Nav2 == Server /\ UNCHANGED <<worker, workerVars, runtimeVars>>

DispatchNext == Worker \/ Runtime \/ Nav2

DispatchSpec == DispatchInit /\ [][DispatchNext]_dispatchVars

-----------------------------------------------------------------------------
(* Properties.                                                             *)

Quiet(g) == ~Live(g) /\ ~InFlight(g)

\* Whatever was sent to Nav2 is in the journal, also when the worker sends it
\* after the runtime is gone: only what is on disk survives.
SentIsJournaled ==
  \A g \in Goals :
    request[g] \in {"sent", "accepting", "rejecting", "known"} => rows[g] # "none"

\* A closed row is over: its goal neither runs nor can still be sent. The row is
\* closed by the runtime, the goal is sent by another process.
ClosedIsOver ==
  \A g \in Goals :
    rows[g] = "closed" => ~Live(g) /\ request[g] \notin {"held", "sent"}

\* cancel_drained of the worker is about the server and about the runtime: no
\* goal runs or is in flight, and the runtime acknowledged what became of each.
DrainIsAccounted ==
  report = "cancel_drained" =>
    \A g \in Goals :
      /\ Quiet(g)
      /\ request[g] = "known" => <<"accepted", g>> \in acked
      /\ request[g] = "refused" => <<"rejected", g>> \in acked

\* A worker retired by the watchdog left nothing behind, at the server, in
\* flight or in the journal, even if it did not end by the retire message.
RetiredMeansQuiet ==
  watch = "retired" => \A g \in Goals : Quiet(g) /\ rows[g] # "open"

\* A restarted runtime that is not locked can take a new request: no goal of the
\* old worker runs, and none will, although that worker may still be alive and
\* acknowledgements may still be on their way to it.
RestartFindsQuiet ==
  runtime = "restarted" /\ ~locked =>
    \A g \in Goals : ~Live(g) /\ request[g] # "sent"

\* What the invariants above rest on, as an inductive invariant.

\* What the worker told of a goal agrees with where its request is; while the
\* worker lives, or once it reported the drain, it told of every outcome.
ToldOfGoals ==
  \A g \in Goals :
    /\ \A e \in Events : <<e, g>> \in told => request[g] # "unsent"
    /\ <<"rejected", g>> \in told => request[g] = "refused"
    /\ request[g] = "known" => <<"accepted", g>> \in told
    /\ request[g] = "refused" /\ (Alive \/ report = "cancel_drained") =>
         <<"rejected", g>> \in told

\* First told, then recorded, then acknowledged, then sent.
IntentComesFirst ==
  \A g \in Goals :
    /\ rows[g] # "none" => <<"intent", g>> \in told
    /\ <<"intent", g>> \in acked => rows[g] # "none"
    /\ request[g] \in {"sent", "accepting", "rejecting", "known"} =>
         <<"intent", g>> \in acked

\* What the session has in memory agrees with the journal.
MemoryFollowsJournal ==
  Session =>
    /\ \A g \in Goals : g \in intents <=> <<"intent", g>> \in acked
    /\ results \subseteq intents
    /\ \A g \in results : rows[g] = "closed"
    /\ OpenRows \subseteq entries

\* A drain reported stays true, and everything told is acknowledged by then.
DrainStays ==
  /\ registration = "healthy" => told \subseteq acked \cup awaiting
  /\ report = "cancel_drained" => DrainState = "cancel_drained" /\ Settled

\* A retirement is prepared after the drain, with every result at hand.
RetirementFollowsDrain ==
  /\ heard = "drained" => report = "cancel_drained"
  /\ watch \in {"retiring", "retired"} =>
       Session /\ report = "cancel_drained" /\ entries \subseteq results

LockedWhileOpen == runtime = "restarted" /\ ~locked => OpenRows = {}

DispatchInv ==
  /\ DispatchTypeOK /\ IInv
  /\ ToldOfGoals /\ IntentComesFirst /\ MemoryFollowsJournal
  /\ DrainStays /\ RetirementFollowsDrain /\ LockedWhileOpen
  /\ ClosedIsOver

\* Weak fairness of the callbacks of a worker that is alive, which includes the
\* expiry of the lease when no runtime renews it.
DispatchFairness ==
  /\ WF_dispatchVars(LeaseExpires /\ ~Session)
  /\ WF_dispatchVars(ExecutorCallback)

FairDispatchSpec == DispatchSpec /\ DispatchFairness

\* When its runtime is gone, a worker that lives stops what it started: each goal
\* that runs ends or is asked to cancel.
OrphansAreCancelled ==
  \A g \in Goals :
    (~Session /\ server[g] = "executing") ~>
      (server[g] # "executing" \/ cancel[g] # "none" \/ ~Alive)
=============================================================================
