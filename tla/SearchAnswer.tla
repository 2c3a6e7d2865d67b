---------------------------- MODULE SearchAnswer ----------------------------
(***************************************************************************)
(* What the search runtime promises the coordinator about a request: it is *)
(* answered at most once, drained or failed; drained only after the        *)
(* cancellation was read and when nothing that searched for it is left; no *)
(* process is started for a request that is cancelled or answered; an      *)
(* observation is published with the drain only, and only if the runtime   *)
(* itself had asked for the cancellation.                                  *)
(***************************************************************************)
CONSTANT Tasks

VARIABLES
  answer,  \* of each request: "none", "searching", "drained" or "failed"
  read,    \* cancellation read: "no", "stop" (asked for) or "public"
  working, \* requests with a process at work
  results  \* requests whose observation was published

vars == <<answer, read, working, results>>

Init ==
  /\ answer = [t \in Tasks |-> "none"]
  /\ read = [t \in Tasks |-> "no"]
  /\ working = {} /\ results = {}

Cancelled(t) == read[t] # "no"

Accept(t) ==
  /\ answer[t] = "none" /\ ~Cancelled(t)
  /\ answer' = [answer EXCEPT ![t] = "searching"]
  /\ UNCHANGED <<read, working, results>>

ReadCancel(t, why) ==
  /\ ~Cancelled(t)
  /\ read' = [read EXCEPT ![t] = why]
  /\ UNCHANGED <<answer, working, results>>

StartWork(t) ==
  /\ answer[t] = "searching" /\ ~Cancelled(t)
  /\ working' = working \cup {t}
  /\ UNCHANGED <<answer, read, results>>

\* A step may see the end of one process and the fault that follows from it.
Drop(t) == working' \in {working, working \ {t}}

StopWork(t) == Drop(t) /\ UNCHANGED <<answer, read, results>>

Fail(t) ==
  /\ answer[t] \in {"none", "searching"}
  /\ answer' = [answer EXCEPT ![t] = "failed"]
  /\ Drop(t)
  /\ UNCHANGED <<read, results>>

Drain(t) ==
  /\ answer[t] = "searching" /\ Cancelled(t) /\ t \notin working
  /\ answer' = [answer EXCEPT ![t] = "drained"]
  /\ \/ UNCHANGED results
     \/ read[t] = "stop" /\ results' = results \cup {t}
  /\ UNCHANGED <<read, working>>

Next ==
  \E t \in Tasks :
    \/ Accept(t) \/ StartWork(t) \/ StopWork(t) \/ Fail(t) \/ Drain(t)
    \/ \E why \in {"stop", "public"} : ReadCancel(t, why)

Spec == Init /\ [][Next]_vars

-----------------------------------------------------------------------------
(* What a caller may rely on.                                              *)

\* A drained request is over for good: nothing works for it, it was cancelled,
\* and its observation was published only if its end had been asked for.
DrainedIsOver ==
  /\ \A t \in Tasks : answer[t] = "drained" => t \notin working /\ Cancelled(t)
  /\ \A t \in results : t \in Tasks /\ answer[t] = "drained" /\ read[t] = "stop"

\* The values of its variables that answer a request.
Answers == {"none", "searching", "drained", "failed"}
Typed   == answer \in [Tasks -> Answers] /\ read \in [Tasks -> {"no", "stop", "public"}]
=============================================================================
