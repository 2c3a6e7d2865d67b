--------------------------- MODULE SearchSession ---------------------------
(***************************************************************************)
(* The search runtime (search_session_runtime.py): one request after the   *)
(* other, each with an observer process and a worker process per search    *)
(* point, the request consumer with its map gate, and the coordinator that *)
(* requests and cancels.                                                   *)
(*                                                                         *)
(* All callbacks of the runtime run in one thread; its timer is Tick.      *)
(* Inside the worker, the journal and the supervisor SearchDispatch goes   *)
(* on: here a worker runs, is retired or is at fault. A head that is never *)
(* tilted stands for a runtime without one, a room where no view calls for *)
(* the next point for one with a single point. A request is delivered at   *)
(* most once, a cancellation any number of times, in any order or never;   *)
(* statuses stay readable.                                                 *)
(***************************************************************************)
EXTENDS Naturals

CONSTANTS
  Requests, \* number of requests the coordinator publishes
  Points,   \* search points of a room
  None

ASSUME SessionAssumption ==
  Requests \in Nat \ {0} /\ Points \in Nat \ {0} /\ None \notin Nat

Tasks == 1 .. Requests

VARIABLES
  \* option of the process
  budget,    \* --session-budget-seconds, which excludes --multi-point
  \* the runtime
  phase,     \* "running", "closing" (shutdown) or "down"
  locked,    \* SearchRuntime.locked
  session,   \* SearchRuntime.session
  active,    \* RequestConsumer.active
  verified,  \* its live_map_verified
  retired,   \* RequestConsumer.retired
  said,      \* statuses and results published, <<kind, task>>
  \* the coordinator
  coordinator, \* "idle", "searching", "cancelling" or "faulted"
  asked,     \* the last request it published
  requests,  \* requests published and not delivered
  cancels,   \* cancellations published, <<task, why>>
  \* history, read by the properties only
  read,      \* the cancellation read for each task
  left       \* tasks of which a process outlived its session

consumer == <<active, verified, retired>>
coordVars == <<coordinator, asked, requests, cancels>>
runtime  == <<phase, locked, session, consumer, said, read, left>>
vars == <<budget, runtime, coordVars>>

Whys == {"stop", "public"}
Sessions ==
  [task : Tasks, point : 1 .. Points,
   observer : {"none", "running", "done", "dead"}, ready : BOOLEAN,
   terminal : {"none", "found", "next", "incomplete", "cancelled"},
   worker : {"none", "running", "retired", "fault", "killed"},
   head : {"none", "idle", "moving", "holding"},
   cancel : Whys \cup {"none", "private"}, public : BOOLEAN,
   candidate : BOOLEAN, fault : {"none", "known", "unknown"}]

ASSUME NoneAssumption == None \notin Sessions

SessionTypeOK ==
  /\ budget \in BOOLEAN
  /\ phase \in {"running", "closing", "down"} /\ locked \in BOOLEAN
  /\ session \in Sessions \cup {None}
  /\ active \in Tasks \cup {None} /\ verified \in BOOLEAN
  /\ retired \in SUBSET Tasks
  /\ said \in SUBSET ({"stop", "fault", "unknown_fault", "cancel_failed",
                       "drained", "result"} \X Tasks)
  /\ coordinator \in {"idle", "searching", "cancelling", "faulted"}
  /\ asked \in 0 .. Requests /\ requests \in SUBSET Tasks
  /\ cancels \in SUBSET (Tasks \X Whys)
  /\ read \in [Tasks -> Whys \cup {"no"}] /\ left \in SUBSET Tasks

Fresh(t, p) ==
  [task |-> t, point |-> p, observer |-> "none", ready |-> FALSE,
   terminal |-> "none", worker |-> "none", head |-> "none", cancel |-> "none",
   public |-> FALSE, candidate |-> FALSE, fault |-> "none"]

Init ==
  /\ budget \in BOOLEAN
  /\ phase = "running" /\ locked = FALSE /\ session = None
  /\ active = None /\ verified = FALSE /\ retired = {} /\ said = {}
  /\ coordinator = "idle" /\ asked = 0 /\ requests = {} /\ cancels = {}
  /\ read = [t \in Tasks |-> "no"] /\ left = {}

-----------------------------------------------------------------------------
(* The runtime.                                                            *)

Alive      == phase # "down"
HasSession == session # None
Faulty(s)  == s.fault # "none"
Stopping(s) == s.cancel # "none"

\* fail: the first fault stays and is contained at once, by a cancellation of
\* its own on the private topic.
Failed(s, reason) ==
  IF Faulty(s) THEN s ELSE [s EXCEPT !.fault = reason]

\* A callback that does nothing but fail.
Fails(reason) ==
  /\ locked' = TRUE
  /\ session' = IF HasSession THEN Failed(session, reason) ELSE None

\* A process of the session at work.
AtWork(s) == s.observer = "running" \/ s.worker \in {"running", "fault"}
             \/ s.head = "moving"

\* The consumer gives up its request: it expired, or the map, its publisher or
\* the files changed. Every callback that looks takes this step.
RequestLost ==
  /\ Alive /\ HasSession /\ active # None
  /\ active' = None /\ verified' = FALSE /\ retired' = retired \cup {active}
  /\ UNCHANGED <<budget, phase, locked, session, said, read, left, coordVars>>

\* The decoded map is installed in the gate and equals the live one.
MapVerified ==
  /\ Alive /\ HasSession /\ active = session.task /\ ~verified
  /\ verified' = TRUE
  /\ UNCHANGED <<budget, phase, locked, session, active, retired, said, read,
                 left, coordVars>>

\* Seeded fault: only a fault of the session at hand refuses a request.
AcceptableAfterFault(t) ==
  phase = "running" /\ ~HasSession /\ active = None /\ t \notin retired

Acceptable(t) ==
  /\ ~locked /\ phase = "running" /\ ~HasSession
  /\ active = None /\ t \notin retired

\* on_request, search_requested. A request that is not acceptable, stale or
\* does not match the configuration is a fault, of the session if there is one.
OnRequest(t) ==
  /\ Alive /\ t \in requests
  /\ requests' = requests \ {t}
  /\ \/ /\ Acceptable(t)
        /\ session' = Fresh(t, 1) /\ active' = t /\ verified' = FALSE
        /\ UNCHANGED <<locked, said>>
     \/ /\ Fails("known")
        /\ said' = IF HasSession THEN said ELSE said \cup {<<"fault", t>>}
        /\ active' \in {active} \cup {u \in {t} : Acceptable(t)}
        /\ UNCHANGED verified
  /\ UNCHANGED <<budget, phase, retired, read, left, coordinator, asked, cancels>>

\* The session on its public cancellation: kept aside during the transition to
\* the next point, otherwise forwarded.
Cancelled(s, why) ==
  CASE s.cancel = "private" -> [s EXCEPT !.public = TRUE, !.candidate = FALSE]
    [] s.cancel \in Whys    -> s
    [] OTHER -> [s EXCEPT !.cancel = why, !.candidate = (why = "stop" /\ @)]

\* The consumer on a cancellation; it remembers it also when the request has
\* not come yet.
Receive(t) ==
  /\ retired' = retired \cup {t}
  /\ IF active = t THEN active' = None /\ verified' = FALSE
                   ELSE UNCHANGED <<active, verified>>

\* on_request, search_cancelled.
OnCancel(t, why) ==
  /\ Alive /\ <<t, why>> \in cancels
  /\ Receive(t)
  /\ session' = IF HasSession /\ session.task = t THEN Cancelled(session, why)
                                                  ELSE session
  /\ read' = [read EXCEPT ![t] = IF @ = "no" THEN why ELSE @]
  /\ UNCHANGED <<budget, phase, locked, said, left, coordVars>>

\* on_worker_status: the worker, or its watchdog, reports a fault.
OnWorkerFault ==
  /\ Alive /\ HasSession /\ session.worker = "fault" /\ ~Faulty(session)
  /\ Fails("known")
  /\ UNCHANGED <<budget, phase, consumer, said, read, left, coordVars>>

-----------------------------------------------------------------------------
(* tick.                                                                   *)

\* Seeded fault: a request is only missed before its observer is started.
CheckedAtStart(s) ==
  IF active = None /\ ~Stopping(s) /\ s.observer = "none" THEN Failed(s, "known") ELSE s

\* Neither request nor cancellation is left.
Checked(s) ==
  IF active = None /\ ~Stopping(s) THEN Failed(s, "known") ELSE s

\* A fault is repeated in each tick; the coordinator knows its reason or not.
\* cancel_failed goes out under the id of the cancellation, which during a
\* transition is none the coordinator knows.
Reports(s) ==
  IF ~Faulty(s) THEN {}
  ELSE {<<IF s.fault = "known" THEN "fault" ELSE "unknown_fault", s.task>>}
       \cup {<<"cancel_failed", s.task>> : w \in Whys \cap {s.cancel}}

\* HeadStage.tick: the head is tilted once the robot has arrived, which takes a
\* worker, and may fail.
TiltHead(s) ==
  {s} \cup (IF s.worker # "none"
            THEN {[s EXCEPT !.head = "moving"], Failed(s, "unknown")} ELSE {})

\* HeadStage.cancel: a head that was tilted is held where it is, when there is
\* feedback about it.
HoldHead(s) ==
  {s} \cup {[s EXCEPT !.head = "holding"] : h \in {"moving"} \cap {s.head}}

Heads(s) ==
  IF s.head = "none" THEN {s}
  ELSE IF Stopping(s) \/ Faulty(s) \/ s.terminal # "none" THEN HoldHead(s)
  ELSE TiltHead(s)

\* The last observation makes the session ask for the next point, privately,
\* or for its own cancellation.
Continues(s) == ~budget /\ s.terminal = "next" /\ s.point < Points

Observed(s) ==
  CASE s.observer = "dead" -> Failed(s, "known")
    [] s.observer = "done" /\ ~Stopping(s) /\ ~Faulty(s) ->
         IF Continues(s)
         THEN [s EXCEPT !.candidate = TRUE, !.cancel = "private"]
         ELSE [s EXCEPT !.candidate = TRUE]
    [] OTHER -> s

AsksToStop(s) == s.candidate /\ ~Stopping(s) /\ ~Faulty(s)

\* Seeded fault: a worker that has not been retired does not count.
DoneWithoutWorker(s, still) ==
  /\ s.observer \in {"none", "done"}
  /\ s.head \in {"none", "idle"} \/ (s.head = "holding" /\ still)

\* Observer and worker are over in order; a head that was moved stands still.
Done(s, still) ==
  /\ s.worker = "none" => s.observer \in {"none", "done"}
  /\ s.worker # "none" => s.worker = "retired" /\ s.observer = "done"
  /\ s.head \in {"none", "idle"} \/ (s.head = "holding" /\ still)

\* next_point: only while the request is still the consumer's and verified.
NextPoint(s) ==
  IF phase = "running" /\ active = s.task /\ verified
  THEN /\ session' = Fresh(s.task, s.point + 1)
       /\ left' = left \cup {t \in {s.task} : AtWork(s)}
       /\ UNCHANGED locked
  ELSE /\ session' = Failed(s, "known") /\ locked' = TRUE
       /\ UNCHANGED left

\* finish: drained, then the observation, if it is still wanted.
Finish(s) ==
  /\ said' = said \cup {<<"drained", s.task>>}
                  \cup {<<"result", t>> : t \in {u \in {s.task} : s.candidate}}
  /\ session' = None
  /\ left' = left \cup {t \in {s.task} : AtWork(s)}
  /\ UNCHANGED locked

\* start_observer once the map is verified; start_worker once the observer
\* listens to its binding.
Starts(s) ==
  IF s.observer = "none"
  THEN IF verified /\ active = s.task
       THEN [s EXCEPT !.observer = "running", !.head = "idle"]
       ELSE s
  ELSE IF s.worker = "none" /\ s.ready /\ s.observer = "running"
       THEN [s EXCEPT !.worker = "running"] ELSE s

\* Keeps the session as s; an exception on the way is a fault.
Goes(s) == session' = s /\ locked' = (locked \/ Faulty(s)) /\ UNCHANGED left

\* A tick, late for a deadline of the session or not: 2.5 s since its
\* cancellation, 30 s since it began if it has no budget.
Tick(late) ==
  /\ Alive /\ HasSession
  /\ \E s2 \in Heads(Checked(session)), still \in {FALSE, session.head = "holding"} :
       LET s1 == Checked(session)
           s == Observed(s2)
           heard == said \cup Reports(s1)
                    \cup {<<"stop", t>> : t \in {u \in {s.task} : AsksToStop(s)}}
       IN  IF Stopping(s)
           THEN \/ /\ Done(s, still) /\ ~Faulty(s)
                   /\ IF s.cancel = "private" /\ ~s.public
                      THEN NextPoint(s) /\ said' = heard
                      ELSE Finish(s)
                \/ /\ ~Done(s, still) \/ Faulty(s)
                   /\ Goes(IF late /\ Stopping(session) THEN Failed(s, "known") ELSE s)
                   /\ said' = heard
           ELSE /\ said' = heard
                /\ \/ Faulty(s) /\ Goes(s)
                   \/ /\ ~Faulty(s)
                      /\ \E next \in {s, Starts(s)} :
                           Goes(IF late /\ ~budget THEN Failed(next, "known") ELSE next)
  /\ UNCHANGED <<budget, phase, consumer, read, coordVars>>

\* A tick ends in an exception: a record of the observer is refused, a map
\* cannot be decoded, a process cannot be started, the journal of a retired
\* point is not settled.
TickRaises ==
  /\ Alive /\ HasSession /\ ~Faulty(session)
  /\ Fails("known")
  /\ UNCHANGED <<budget, phase, consumer, said, read, left, coordVars>>

-----------------------------------------------------------------------------
(* The end of the runtime.                                                 *)

\* The session event that ends the budget: a fault with a reason of its own;
\* the main loop then ends.
SessionEvent ==
  /\ phase = "running" /\ budget
  /\ Fails("unknown")
  /\ phase' = IF HasSession THEN "closing" ELSE "down"
  /\ UNCHANGED <<budget, consumer, said, read, left, coordVars>>

\* A signal or the end of its time: shutdown fails the session and lets the
\* callbacks run for three seconds.
Shutdown ==
  /\ phase = "running"
  /\ IF HasSession THEN Fails("known") /\ phase' = "closing"
                   ELSE phase' = "down" /\ UNCHANGED <<locked, session>>
  /\ UNCHANGED <<budget, consumer, said, read, left, coordVars>>

\* What is still running of the session is terminated.
ShutdownEnds ==
  /\ phase = "closing"
  /\ phase' = "down"
  /\ session' = [session EXCEPT
       !.observer = IF @ = "running" THEN "dead" ELSE @,
       !.worker = IF @ \in {"running", "fault"} THEN "killed" ELSE @]
  /\ UNCHANGED <<budget, locked, consumer, said, read, left, coordVars>>

-----------------------------------------------------------------------------
(* The two processes of a session. Both hear of any cancellation, also of  *)
(* that by which the runtime contains a fault.                             *)

Told(s) == Stopping(s) \/ Faulty(s)

processFrame == <<budget, phase, locked, consumer, said, read, left, coordVars>>

\* The observer listens, ends with a terminal record and exit code 0, or dies.
\* Without a worker there is nothing it could have arrived for.
Observer ==
  /\ HasSession /\ session.observer = "running"
  /\ \/ session' = [session EXCEPT !.ready = TRUE]
     \/ \E v \in {"found", "next", "incomplete", "cancelled"} :
          /\ v \in {"found", "next"} => session.worker # "none" /\ session.ready
          /\ v = "cancelled" => Told(session)
          /\ session' = [session EXCEPT !.observer = "done", !.terminal = v]
     \/ session' = [session EXCEPT !.observer = "dead"]
  /\ UNCHANGED processFrame

\* The worker is retired by its supervisor, which needs a cancellation and the
\* end of the observer, or is at fault (SearchDispatch).
Worker ==
  /\ HasSession /\ session.worker = "running"
  /\ \/ /\ Told(session) /\ session.observer = "done"
        /\ session' = [session EXCEPT !.worker = "retired"]
     \/ session' = [session EXCEPT !.worker = "fault"]
  /\ UNCHANGED processFrame

-----------------------------------------------------------------------------
(* The coordinator (publishSearchRequest, invalidateSearchRequest and the   *)
(* search cancellation barrier; Coordinator has the whole of it).           *)

coordFrame == <<budget, runtime>>

PublishSearchRequest ==
  /\ coordinator = "idle" /\ asked < Requests
  /\ coordinator' = "searching" /\ asked' = asked + 1
  /\ requests' = requests \cup {asked + 1}
  /\ UNCHANGED <<cancels, coordFrame>>

Invalidate(why, next) ==
  /\ coordinator = "searching"
  /\ cancels' = cancels \cup {<<asked, why>>}
  /\ coordinator' = next
  /\ UNCHANGED <<asked, requests, coordFrame>>

\* The task ended or was corrected; the runtime asks to stop; a fault whose
\* reason the coordinator knows.
InvalidateSearchRequest ==
  \/ Invalidate("public", "cancelling")
  \/ <<"stop", asked>> \in said /\ Invalidate("stop", "cancelling")
  \/ <<"fault", asked>> \in said /\ Invalidate("public", "faulted")

\* The barrier opens on the drain, locks on a failure or after three seconds.
BarrierEvent ==
  /\ coordinator = "cancelling"
  /\ \/ <<"drained", asked>> \in said /\ coordinator' = "idle"
     \/ coordinator' = "faulted"
  /\ UNCHANGED <<asked, requests, cancels, coordFrame>>

\* The process of the coordinator starts again; it knows nothing of a request
\* that is under way, nor of a fault.
CoordinatorRestarts ==
  /\ coordinator # "idle"
  /\ coordinator' = "idle"
  /\ UNCHANGED <<asked, requests, cancels, coordFrame>>

-----------------------------------------------------------------------------

Next ==
  \/ RequestLost \/ MapVerified
  \/ \E t \in Tasks : OnRequest(t) \/ \E why \in Whys : OnCancel(t, why)
  \/ OnWorkerFault
  \/ \E late \in BOOLEAN : Tick(late)
  \/ TickRaises \/ SessionEvent \/ Shutdown \/ ShutdownEnds
  \/ Observer \/ Worker
  \/ PublishSearchRequest \/ InvalidateSearchRequest \/ BarrierEvent
  \/ CoordinatorRestarts

Spec == Init /\ [][Next]_vars

\* The timer fires on and every deadline passes: that of a cancellation, of a
\* session, and of the request.
Fairness == WF_vars(Tick(TRUE)) /\ WF_vars(RequestLost)

FairSpec == Spec /\ Fairness

-----------------------------------------------------------------------------
(* Properties.                                                             *)

Working == left \cup {t \in Tasks : HasSession /\ session.task = t /\ AtWork(session)}

Drained(t) == <<"drained", t>> \in said
Refused(t) == ({"fault", "unknown_fault", "cancel_failed"} \X {t}) \cap said # {}

AnswerOf(t) ==
  CASE Drained(t) /\ Refused(t)        -> "both"
    [] Drained(t) /\ ~Refused(t)       -> "drained"
    [] Refused(t) /\ ~Drained(t)       -> "failed"
    [] ~Refused(t) /\ ~Drained(t)      ->
         IF HasSession /\ session.task = t THEN "searching" ELSE "none"

Answer == INSTANCE SearchAnswer WITH
  answer  <- [t \in Tasks |-> AnswerOf(t)],
  read    <- read,
  working <- Working,
  results <- {t \in Tasks : <<"result", t>> \in said}

\* The runtime implements SearchAnswer, over several points, with cancellations
\* at any moment of a transition and before their request, and in its shutdown.
AnswersOnce == Answer!Spec

\* "Only a clean session can be replaced; faults latch until operator restart":
\* a locked runtime stays locked, takes no request, starts no process, moves no
\* head and gives no clean answer, whichever handler found the fault.
FaultsLatch ==
  [][locked =>
       /\ locked'
       /\ session' # None => HasSession /\ session'.task = session.task
                                         /\ session'.point = session.point
       /\ Working' \subseteq Working
       /\ HasSession /\ session' # None => (session.worker = "none" => session'.worker = "none")
       /\ \A t \in Tasks : Drained(t)' => Drained(t)]_vars

\* What the two rest on, as an inductive invariant.

\* A request that has not been delivered has no session and no answer.
RequestsAreFresh ==
  /\ requests \subseteq 1 .. asked
  /\ coordinator # "idle" => asked > 0
  /\ \A t \in Tasks : t \in requests \/ t > asked =>
       /\ HasSession => session.task # t
       /\ ~Drained(t) /\ ~Refused(t)

\* The session knows of the cancellation that was read, and keeps its
\* observation only for one it had asked for, or while nobody cancelled.
CancelIsKnown(s) ==
  /\ read[s.task] # "no" <=> s.cancel \in Whys \/ s.public
  /\ s.public => s.cancel = "private"
  /\ s.cancel = "private" => s.point < Points
  /\ s.candidate => \/ s.cancel \notin Whys /\ ~s.public
                    \/ s.cancel = "stop" /\ read[s.task] = "stop"

\* A locked runtime, a runtime that closes and a request already refused have
\* a session at fault; a session at hand is not drained.
FaultIsKnown(s) ==
  /\ locked \/ phase = "closing" \/ Refused(s.task) => Faulty(s)
  /\ ~Drained(s.task)

SessionInv ==
  /\ SessionTypeOK /\ RequestsAreFresh
  /\ left = {}
  /\ \A t \in Tasks : read[t] # "no" => t \in retired
  /\ phase = "closing" => HasSession
  /\ HasSession => CancelIsKnown(session) /\ FaultIsKnown(session)

\* A request that was taken up is answered, or the runtime is gone: no wait of
\* a session is without a deadline.
SearchIsAnswered ==
  \A t \in Tasks :
    (HasSession /\ session.task = t) ~> (Drained(t) \/ Refused(t) \/ ~Alive)
=============================================================================
