------------------------ MODULE SearchSession_proofs ------------------------
(***************************************************************************)
(* What MCSearchSession checks for two requests and two points, proved for *)
(* every number of both: SessionInv is inductive, the runtime implements   *)
(* SearchAnswer, and its faults latch.                                     *)
(***************************************************************************)
EXTENDS SearchSession, TLAPS

-----------------------------------------------------------------------------
(* The helpers of a tick: what each leaves of a session.                   *)

\* fail leaves everything of a session but its fault.
LEMMA FailedSession ==
  ASSUME NEW s \in Sessions, NEW reason \in {"known", "unknown"}
  PROVE  /\ Failed(s, reason) \in Sessions /\ Faulty(Failed(s, reason))
         /\ \E f \in {s.fault, reason} : Failed(s, reason) = [s EXCEPT !.fault = f]
BY DEF Failed, Faulty, Sessions

\* z is s but for its head, its cancellation, its observation and its fault,
\* which stays.
Follows(z, s) ==
  /\ z \in Sessions
  /\ z.task = s.task /\ z.point = s.point /\ z.observer = s.observer
  /\ z.worker = s.worker /\ z.public = s.public /\ z.ready = s.ready
  /\ z.terminal = s.terminal
  /\ Faulty(s) => Faulty(z)

\* The check for a lost request, and what is done with the head: it starts to
\* move only for a session that goes on.
LEMMA HeadFollows ==
  ASSUME NEW s \in Sessions, NEW z \in Heads(Checked(s))
  PROVE  /\ Follows(z, s) /\ z.cancel = s.cancel /\ z.candidate = s.candidate
         /\ Checked(s).task = s.task /\ (Faulty(Checked(s)) => Faulty(z))
         /\ z.head = "moving" => s.head = "moving" \/ (~Stopping(s) /\ ~Faulty(Checked(s)))
         /\ Stopping(s) => z.head = s.head \/ (s.head = "moving" /\ z.head = "holding")
<1>1. Checked(s) \in Sessions /\ (Faulty(s) => Checked(s) = s)
      /\ \E f \in {s.fault, "known"} : Checked(s) = [s EXCEPT !.fault = f]
  BY FailedSession DEF Checked, Failed, Sessions
<1>2. PICK c \in Sessions : c = Checked(s)
  BY <1>1
<1>3. /\ c.task = s.task /\ c.point = s.point /\ c.observer = s.observer
      /\ c.worker = s.worker /\ c.public = s.public /\ c.ready = s.ready
      /\ c.terminal = s.terminal /\ c.cancel = s.cancel /\ c.candidate = s.candidate
      /\ c.head = s.head
      /\ (Faulty(s) => Faulty(c)) /\ (Stopping(c) <=> Stopping(s))
  BY <1>1, <1>2 DEF Sessions, Stopping
<1>4. CASE z = c
  BY <1>2, <1>3, <1>4 DEF Follows, Stopping
<1>5. CASE c.head = "moving" /\ z = [c EXCEPT !.head = "holding"]
  BY <1>2, <1>3, <1>5 DEF Follows, Stopping, Faulty, Sessions
<1>6. CASE ~Stopping(c) /\ ~Faulty(c) /\ z = [c EXCEPT !.head = "moving"]
  BY <1>2, <1>3, <1>6 DEF Follows, Stopping, Faulty, Sessions
<1>7. CASE ~Stopping(c) /\ ~Faulty(c) /\ z = Failed(c, "unknown")
  <2>1. z \in Sessions /\ Faulty(z)
        /\ \E f \in {c.fault, "unknown"} : z = [c EXCEPT !.fault = f]
    BY <1>7, FailedSession
  <2> QED
    BY <1>2, <1>3, <1>7, <2>1 DEF Follows, Sessions
<1> QED
  BY <1>2, <1>4, <1>5, <1>6, <1>7 DEF Heads, HoldHead, TiltHead

\* The end of the observation: only a session nobody cancelled asks for more
\* or for its end.
LEMMA ObservedFollows ==
  ASSUME NEW s \in Sessions
  PROVE  /\ Follows(Observed(s), s) /\ Observed(s).head = s.head
         /\ \/ Observed(s).cancel = s.cancel /\ Observed(s).candidate = s.candidate
            \/ /\ ~Stopping(s) /\ Observed(s).cancel \in {"none", "private"}
               /\ Observed(s).cancel = "private" => s.point < Points
<1>1. CASE s.observer = "dead"
  <2>1. PICK f \in {s.fault, "known"} : Observed(s) = [s EXCEPT !.fault = f]
    BY <1>1, FailedSession DEF Observed
  <2>2. Observed(s) \in Sessions /\ Faulty(Observed(s))
    BY <1>1, FailedSession DEF Observed
  <2> QED
    BY <2>1, <2>2 DEF Follows, Sessions
<1>2. CASE s.observer = "done" /\ ~Stopping(s) /\ ~Faulty(s)
  <2>1. \/ /\ s.point < Points
           /\ Observed(s) = [s EXCEPT !.candidate = TRUE, !.cancel = "private"]
        \/ Observed(s) = [s EXCEPT !.candidate = TRUE]
    BY <1>2 DEF Observed, Continues
  <2> QED
    BY <1>2, <2>1 DEF Follows, Sessions, Stopping, Faulty
<1>3. CASE s.observer # "dead" /\ ~(s.observer = "done" /\ ~Stopping(s) /\ ~Faulty(s))
  BY <1>3 DEF Observed, Follows
<1> QED
  BY <1>1, <1>2, <1>3

\* What start_observer and start_worker leave of a session.
LEMMA StartedFollows ==
  ASSUME NEW s \in Sessions
  PROVE  /\ Starts(s) \in Sessions
         /\ Starts(s).task = s.task /\ Starts(s).point = s.point
         /\ Starts(s).cancel = s.cancel /\ Starts(s).candidate = s.candidate
         /\ Starts(s).public = s.public /\ Starts(s).fault = s.fault
<1>1. CASE s.observer = "none" /\ verified /\ active = s.task
  <2>1. Starts(s) = [s EXCEPT !.observer = "running", !.head = "idle"]
    BY <1>1 DEF Starts
  <2> QED
    BY <2>1 DEF Sessions
<1>2. CASE s.observer # "none" /\ s.worker = "none" /\ s.ready /\ s.observer = "running"
  <2>1. Starts(s) = [s EXCEPT !.worker = "running"]
    BY <1>2 DEF Starts
  <2> QED
    BY <2>1 DEF Sessions
<1>3. CASE Starts(s) = s
  BY <1>3
<1> QED
  BY <1>1, <1>2, <1>3 DEF Starts

-----------------------------------------------------------------------------
(* The outcomes of a tick.                                                 *)

\* What a tick says of a request that goes on.
Remarks(t) == {"stop", "fault", "unknown_fault", "cancel_failed"} \X {t}

\* The next point of the room: nobody cancelled, and nothing is left at work.
PointFollows ==
  /\ ~Faulty(session) /\ session.cancel \notin Whys /\ ~session.public
  /\ session.point < Points
  /\ session' = Fresh(session.task, session.point + 1)
  /\ locked' = locked /\ left' = left /\ said' = said

\* The session is drained.
SessionEnds ==
  /\ ~Faulty(session) /\ ~AtWork(session)
  /\ session.cancel \in Whys \/ session.public
  /\ session' = None
  /\ said' = said \cup {<<"drained", session.task>>}
                  \cup {<<"result", t>> : t \in {u \in {session.task} : session.candidate}}
  /\ locked' = locked /\ left' = left

\* It goes on: a fault stays and locks the runtime, a fault that is reported
\* was there when the tick looked, and only a session without fault and
\* cancellation starts anything.
SessionGoesOn ==
  /\ session' \in Sessions
  /\ session'.task = session.task /\ session'.point = session.point
  /\ session'.public = session.public
  /\ \/ session'.cancel = session.cancel /\ session'.candidate = session.candidate
     \/ /\ ~Stopping(session) /\ session'.cancel \in {"none", "private"}
        /\ session'.cancel = "private" => session.point < Points
  /\ Faulty(session) => Faulty(session') /\ (session.worker = "none" => session'.worker = "none")
  /\ locked' \in BOOLEAN /\ (locked' <=> locked \/ Faulty(session'))
  /\ left' = left
  /\ \E X \in SUBSET Remarks(session.task) :
       /\ said' = said \cup X
       /\ X \cap ({"fault", "unknown_fault", "cancel_failed"} \X {session.task}) # {} =>
            Faulty(session') /\ (AtWork(session') => AtWork(session))
  /\ AtWork(session') => AtWork(session) \/ (~Stopping(session) /\ ~Faulty(session))

LEMMA TickOutcome ==
  ASSUME SessionInv, NEW late \in BOOLEAN, Tick(late)
  PROVE  PointFollows \/ SessionEnds \/ SessionGoesOn
<1>1. session \in Sessions /\ CancelIsKnown(session) /\ FaultIsKnown(session) /\ left = {}
  BY DEF SessionInv, SessionTypeOK, Tick, HasSession
<1> DEFINE s1 == Checked(session)
           Heard(s) == said \cup Reports(s1)
                       \cup {<<"stop", t>> : t \in {u \in {s.task} : AsksToStop(s)}}
<1>2. PICK s2 \in Heads(s1), still \in {FALSE, session.head = "holding"} :
        LET s == Observed(s2)
            heard == Heard(s)
        IN  IF Stopping(s)
            THEN \/ /\ Done(s, still) /\ ~Faulty(s)
                    /\ IF s.cancel = "private" /\ ~s.public
                       THEN NextPoint(s) /\ said' = heard
                       ELSE Finish(s)
                 \/ /\ ~Done(s, still) \/ Faulty(s)
                    /\ Goes(IF late /\ Stopping(session) THEN Failed(s, "known") ELSE s)
                    /\ said' = heard
            ELSE /\ said' = heard
                 /\ \/ Faulty(s) /\ Goes(s)
                    \/ /\ ~Faulty(s)
                       /\ \E next \in {s, Starts(s)} :
                            Goes(IF late /\ ~budget THEN Failed(next, "known") ELSE next)
  BY DEF Tick
<1> DEFINE s == Observed(s2)
<1>3. /\ s \in Sessions
      /\ s.task = session.task /\ s.point = session.point /\ s.observer = session.observer
      /\ s.worker = session.worker /\ s.public = session.public
      /\ Faulty(session) => Faulty(s)
      /\ Faulty(s1) => Faulty(s)
      /\ \/ s.cancel = session.cancel /\ s.candidate = session.candidate
         \/ /\ ~Stopping(session) /\ s.cancel \in {"none", "private"}
            /\ s.cancel = "private" => session.point < Points
      /\ s.head = "moving" =>
           session.head = "moving" \/ (~Stopping(session) /\ ~Faulty(s1))
      /\ Stopping(session) =>
           s.head = session.head \/ (session.head = "moving" /\ s.head = "holding")
  <2>1. /\ Follows(s2, session) /\ s2.cancel = session.cancel
        /\ s2.candidate = session.candidate
        /\ Faulty(s1) => Faulty(s2)
        /\ s2.head = "moving" => session.head = "moving" \/ (~Stopping(session) /\ ~Faulty(s1))
        /\ Stopping(session) =>
             s2.head = session.head \/ (session.head = "moving" /\ s2.head = "holding")
    BY <1>1, HeadFollows
  <2>2. s2 \in Sessions
    BY <2>1 DEF Follows
  <2>3. /\ Follows(s, s2) /\ s.head = s2.head
        /\ \/ s.cancel = s2.cancel /\ s.candidate = s2.candidate
           \/ /\ ~Stopping(s2) /\ s.cancel \in {"none", "private"}
              /\ s.cancel = "private" => s2.point < Points
    BY <2>2, ObservedFollows
  <2> HIDE DEF s, s1
  <2> QED
    BY <2>1, <2>3 DEF Follows, Stopping
<1>4. Faulty(session) => Faulty(s1)
  BY <1>1, FailedSession DEF Checked, Failed
<1>5. Reports(s1) \in SUBSET Remarks(session.task) /\ (Reports(s1) # {} => Faulty(s1))
  <2>1. s1.task = session.task
    BY <1>1, HeadFollows
  <2> HIDE DEF s1
  <2> QED
    BY <2>1 DEF Reports, Remarks
<1> HIDE DEF s1
<1>6. AtWork(s) => AtWork(session) \/ (~Stopping(session) /\ ~Faulty(s1))
  BY <1>3 DEF AtWork
<1>7. Heard(s) = said \cup (Reports(s1)
                             \cup {<<"stop", t>> : t \in {u \in {s.task} : AsksToStop(s)}})
      /\ {<<"stop", t>> : t \in {u \in {s.task} : AsksToStop(s)}} \in SUBSET Remarks(session.task)
  BY <1>3 DEF Remarks
<1> HIDE DEF s, Heard
<1>8. ASSUME NEW z \in Sessions, session' = z, left' = left, said' = Heard(s),
             locked' \in BOOLEAN, locked' <=> locked \/ Faulty(z),
             z.task = s.task, z.point = s.point, z.public = s.public,
             z.cancel = s.cancel, z.candidate = s.candidate,
             Faulty(s) => Faulty(z) /\ z.worker = s.worker,
             AtWork(z) => AtWork(s) \/ (~Stopping(s) /\ ~Faulty(s))
      PROVE  SessionGoesOn
  <2>1. \E X \in SUBSET Remarks(session.task) :
          /\ said' = said \cup X
          /\ X \cap ({"fault", "unknown_fault", "cancel_failed"} \X {session.task}) # {} =>
               Faulty(z) /\ (AtWork(z) => AtWork(session))
    <3> DEFINE X == Reports(s1) \cup {<<"stop", t>> : t \in {u \in {s.task} : AsksToStop(s)}}
    <3>1. said' = said \cup X /\ X \in SUBSET Remarks(session.task)
      BY <1>5, <1>7, <1>8
    <3>2. X \cap ({"fault", "unknown_fault", "cancel_failed"} \X {session.task}) # {} =>
            Reports(s1) # {}
      OBVIOUS
    <3>3. Reports(s1) # {} => Faulty(z) /\ (AtWork(z) => AtWork(session))
      BY <1>3, <1>5, <1>6, <1>8
    <3> HIDE DEF X
    <3> QED
      BY <3>1, <3>2, <3>3
  <2>2. AtWork(z) => AtWork(session) \/ (~Stopping(session) /\ ~Faulty(session))
    BY <1>3, <1>4, <1>6, <1>8 DEF Stopping
  <2>3. /\ z.task = session.task /\ z.point = session.point /\ z.public = session.public
        /\ \/ z.cancel = session.cancel /\ z.candidate = session.candidate
           \/ /\ ~Stopping(session) /\ z.cancel \in {"none", "private"}
              /\ z.cancel = "private" => session.point < Points
        /\ Faulty(session) => Faulty(z) /\ (session.worker = "none" => z.worker = "none")
    BY <1>3, <1>8
  <2> QED
    BY <1>8, <2>1, <2>2, <2>3 DEF SessionGoesOn
<1>9. \A z \in Sessions :
        /\ Failed(z, "known") \in Sessions /\ Faulty(Failed(z, "known"))
        /\ Failed(z, "known").task = z.task /\ Failed(z, "known").point = z.point
        /\ Failed(z, "known").public = z.public /\ Failed(z, "known").cancel = z.cancel
        /\ Failed(z, "known").candidate = z.candidate
        /\ Failed(z, "known").worker = z.worker
        /\ AtWork(Failed(z, "known")) <=> AtWork(z)
  <2> SUFFICES ASSUME NEW z \in Sessions
               PROVE  /\ Failed(z, "known") \in Sessions /\ Faulty(Failed(z, "known"))
                      /\ Failed(z, "known").task = z.task /\ Failed(z, "known").point = z.point
                      /\ Failed(z, "known").public = z.public /\ Failed(z, "known").cancel = z.cancel
                      /\ Failed(z, "known").candidate = z.candidate
                      /\ Failed(z, "known").worker = z.worker
                      /\ AtWork(Failed(z, "known")) <=> AtWork(z)
    OBVIOUS
  <2>1. PICK f \in {z.fault, "known"} : Failed(z, "known") = [z EXCEPT !.fault = f]
    BY FailedSession
  <2>2. Failed(z, "known") \in Sessions /\ Faulty(Failed(z, "known"))
    BY FailedSession
  <2> QED
    BY <2>1, <2>2 DEF Sessions, AtWork
<1>10. CASE Stopping(s) /\ Done(s, still) /\ ~Faulty(s) /\ s.cancel = "private" /\ ~s.public
            /\ NextPoint(s) /\ said' = Heard(s)
  <2>1. ~AtWork(s)
    BY <1>10 DEF Done, AtWork
  <2>2. Reports(s1) = {} /\ ~AsksToStop(s)
    BY <1>3, <1>5, <1>10 DEF AsksToStop
  <2>3. said' = said
    BY <1>7, <1>10, <2>2
  <2>4. session.cancel \notin Whys /\ ~session.public /\ ~Faulty(session)
        /\ session.point < Points
    BY <1>1, <1>3, <1>10 DEF CancelIsKnown, Whys, Stopping
  <2>5. CASE session' = Fresh(s.task, s.point + 1) /\ locked' = locked
             /\ left' = left \cup {t \in {s.task} : AtWork(s)}
    BY <1>3, <2>1, <2>3, <2>4, <2>5 DEF PointFollows
  <2>6. CASE session' = Failed(s, "known") /\ locked' = TRUE /\ left' = left
    BY <1>3, <1>8, <1>9, <1>10, <2>6
  <2> QED
    BY <1>10, <2>5, <2>6 DEF NextPoint
<1>11. CASE Stopping(s) /\ Done(s, still) /\ ~Faulty(s) /\ ~(s.cancel = "private" /\ ~s.public)
            /\ Finish(s)
  <2>1. Stopping(session) /\ s.cancel = session.cancel /\ s.candidate = session.candidate
        /\ (session.cancel \in Whys \/ session.public)
    BY <1>1, <1>3, <1>11 DEF CancelIsKnown, Stopping, Sessions
  <2>2. s.head = session.head \/ still = FALSE
    BY <1>3, <2>1
  <2>3. ~AtWork(s) /\ (s.head # "holding" \/ still = TRUE)
    BY <1>11 DEF Done, AtWork
  <2>4. ~AtWork(session)
    BY <1>3, <2>1, <2>2, <2>3 DEF AtWork
  <2> QED
    BY <1>3, <1>11, <2>1, <2>3, <2>4 DEF Finish, SessionEnds
<1>12. CASE Goes(IF late /\ Stopping(session) THEN Failed(s, "known") ELSE s)
            /\ said' = Heard(s)
  <2>1. PICK z \in {s, Failed(s, "known")} : Goes(z)
    BY <1>12
  <2> QED
    BY <1>3, <1>8, <1>9, <1>12, <2>1 DEF Goes
<1>13. CASE /\ ~Stopping(s) /\ said' = Heard(s)
            /\ \/ Faulty(s) /\ Goes(s)
               \/ /\ ~Faulty(s)
                  /\ \E next \in {s, Starts(s)} :
                       Goes(IF late /\ ~budget THEN Failed(next, "known") ELSE next)
  <2>1. CASE Faulty(s) /\ Goes(s)
    BY <1>3, <1>8, <1>13, <2>1 DEF Goes
  <2>2. CASE ~Faulty(s)
    <3>1. PICK next \in {s, Starts(s)} :
            Goes(IF late /\ ~budget THEN Failed(next, "known") ELSE next)
      BY <1>13, <2>2
    <3>2. PICK z \in {next, Failed(next, "known")} : Goes(z)
      BY <3>1
    <3>3. /\ next \in Sessions
          /\ next.task = s.task /\ next.point = s.point
          /\ next.cancel = s.cancel /\ next.candidate = s.candidate
          /\ next.public = s.public
      BY <1>3, StartedFollows
    <3>4. /\ z \in Sessions
          /\ z.task = s.task /\ z.point = s.point
          /\ z.cancel = s.cancel /\ z.candidate = s.candidate
          /\ z.public = s.public
      BY <1>9, <3>3
    <3> QED
      BY <1>8, <1>13, <2>2, <3>2, <3>4 DEF Goes
  <2> QED
    BY <1>13, <2>1, <2>2
<1> QED
  BY <1>2, <1>10, <1>11, <1>12, <1>13 DEF s

-----------------------------------------------------------------------------
(* SessionInv is inductive.                                                *)

\* A fresh session is one of the sessions.
LEMMA FreshSession ==
  ASSUME NEW t \in Tasks, NEW p \in 1 .. Points
  PROVE  /\ Fresh(t, p) \in Sessions /\ ~Faulty(Fresh(t, p)) /\ ~AtWork(Fresh(t, p))
         /\ Fresh(t, p) # None
<1>1. Fresh(t, p) \in Sessions
  BY DEF Fresh, Sessions, Whys
<1>2. ~Faulty(Fresh(t, p)) /\ ~AtWork(Fresh(t, p))
  BY DEF Fresh, Faulty, AtWork
<1> QED
  BY <1>1, <1>2, NoneAssumption

LEMMA TickKeeps ==
  ASSUME SessionInv, NEW late \in BOOLEAN, Tick(late)
  PROVE  SessionInv'
<1>1. /\ session \in Sessions /\ CancelIsKnown(session) /\ FaultIsKnown(session)
      /\ session.task \in Tasks /\ HasSession
      /\ UNCHANGED <<budget, phase, active, verified, retired, read, coordinator, asked,
                     requests, cancels>>
  BY DEF SessionInv, SessionTypeOK, Tick, HasSession, Sessions, consumer, coordVars
<1>0. PICK t \in Tasks : t = session.task
  BY <1>1
<1> USE DEF SessionInv, SessionTypeOK, HasSession
<1>2. t \notin requests /\ ~(t > asked)
  BY <1>1, <1>0 DEF RequestsAreFresh
<1>3. CASE PointFollows
  <2>1. session.point + 1 \in 1 .. Points
    BY <1>1, <1>3, SessionAssumption DEF PointFollows, Sessions
  <2>2. session' \in Sessions /\ session'.task = t /\ ~Faulty(session') /\ session' # None
        /\ session'.cancel = "none" /\ ~session'.public /\ ~session'.candidate
    BY <1>0, <1>1, <1>3, <2>1, FreshSession DEF PointFollows, Fresh
  <2>3. CancelIsKnown(session)' /\ FaultIsKnown(session)'
    BY <1>0, <1>1, <1>3, <2>2 DEF PointFollows, CancelIsKnown, FaultIsKnown, Whys, Refused, Drained
  <2>4. RequestsAreFresh'
    BY <1>0, <1>1, <1>2, <1>3, <2>2 DEF PointFollows, RequestsAreFresh, Refused, Drained
  <2> QED
    BY <1>1, <1>3, <2>2, <2>3, <2>4 DEF PointFollows
<1>4. CASE SessionEnds
  <2>1. ~Faulty(session) /\ phase # "closing" /\ session' = None
    BY <1>1, <1>4 DEF SessionEnds, FaultIsKnown
  <2>2. said' \subseteq said \cup {<<"drained", t>>, <<"result", t>>}
    BY <1>0, <1>4 DEF SessionEnds
  <2>3. RequestsAreFresh'
    BY <1>1, <1>2, <2>1, <2>2 DEF RequestsAreFresh, Refused, Drained
  <2>4. SessionTypeOK'
    BY <1>1, <1>4, <2>1, <2>2 DEF SessionEnds
  <2> QED
    BY <1>1, <1>4, <2>1, <2>3, <2>4 DEF SessionEnds
<1>5. CASE SessionGoesOn
  <2> PICK X \in SUBSET Remarks(t) :
        /\ said' = said \cup X
        /\ X \cap ({"fault", "unknown_fault", "cancel_failed"} \X {t}) # {} => Faulty(session')
    BY <1>0, <1>5 DEF SessionGoesOn
  <2>1. session' \in Sessions /\ session'.task = t /\ session' # None
        /\ session'.public = session.public /\ session'.point = session.point
        /\ (Faulty(session) => Faulty(session')) /\ (locked' <=> locked \/ Faulty(session'))
    BY <1>0, <1>5, NoneAssumption DEF SessionGoesOn
  <2>2. /\ \A u \in Tasks : u # t => (Drained(u)' <=> Drained(u)) /\ (Refused(u)' <=> Refused(u))
        /\ Drained(t)' <=> Drained(t)
        /\ Refused(t)' => Refused(t) \/ Faulty(session')
    <3>1. \A u \in Tasks : u # t => (Drained(u)' <=> Drained(u)) /\ (Refused(u)' <=> Refused(u))
      BY DEF Remarks, Drained, Refused
    <3>2. Drained(t)' <=> Drained(t)
      BY DEF Remarks, Drained
    <3>3. Refused(t)' => Refused(t) \/ Faulty(session')
      BY DEF Refused
    <3> QED
      BY <3>1, <3>2, <3>3
  <2>3. CancelIsKnown(session)'
    BY <1>0, <1>1, <1>5, <2>1 DEF SessionGoesOn, CancelIsKnown, Stopping, Whys
  <2>4. FaultIsKnown(session)'
    BY <1>0, <1>1, <2>1, <2>2 DEF FaultIsKnown
  <2>5. RequestsAreFresh'
    BY <1>0, <1>1, <1>2, <2>1, <2>2 DEF RequestsAreFresh
  <2>6. SessionTypeOK'
    <3>1. said' \in SUBSET ({"stop", "fault", "unknown_fault", "cancel_failed",
                             "drained", "result"} \X Tasks)
      BY <1>1 DEF Remarks
    <3>2. left' = left /\ locked' \in BOOLEAN
      BY <1>5 DEF SessionGoesOn
    <3> QED
      BY <1>1, <2>1, <3>1, <3>2
  <2> QED
    BY <1>1, <1>5, <2>1, <2>3, <2>4, <2>5, <2>6 DEF SessionGoesOn
<1> QED
  BY <1>3, <1>4, <1>5, TickOutcome

\* z is the session s as its request sees it: a process of it, or its fault,
\* changed.
SameRequest(z, s) ==
  /\ z \in Sessions
  /\ z.task = s.task /\ z.point = s.point /\ z.cancel = s.cancel
  /\ z.public = s.public /\ z.candidate = s.candidate
  /\ Faulty(s) => Faulty(z)

LEMMA SessionKept ==
  ASSUME SessionInv, HasSession, SameRequest(session', session),
         phase' \in {"running", "closing", "down"}, locked' \in BOOLEAN,
         locked' \/ phase' = "closing" => locked \/ phase = "closing" \/ Faulty(session'),
         UNCHANGED <<budget, consumer, said, read, left, coordVars>>
  PROVE  SessionInv'
<1>1. /\ session \in Sessions /\ CancelIsKnown(session) /\ FaultIsKnown(session)
      /\ UNCHANGED <<active, verified, retired, coordinator, asked, requests, cancels>>
  BY DEF SessionInv, SessionTypeOK, HasSession, consumer, coordVars
<1>2. session' \in Sessions /\ session' # None /\ session'.task = session.task
  BY NoneAssumption DEF SameRequest
<1>3. SessionTypeOK'
  BY <1>1, <1>2 DEF SessionInv, SessionTypeOK
<1>4. RequestsAreFresh'
  BY <1>1, <1>2 DEF SessionInv, RequestsAreFresh, HasSession, Drained, Refused
<1>5. CancelIsKnown(session)'
  BY <1>1 DEF SameRequest, CancelIsKnown
<1>6. FaultIsKnown(session)'
  BY <1>1 DEF SameRequest, FaultIsKnown, Drained, Refused
<1> QED
  BY <1>1, <1>2, <1>3, <1>4, <1>5, <1>6 DEF SessionInv, HasSession

\* A callback that fails: the session at hand is at fault, and locks.
LEMMA FailsOutcome ==
  ASSUME SessionInv, NEW reason \in {"known", "unknown"}, Fails(reason)
  PROVE  /\ locked' = TRUE
         /\ HasSession => SameRequest(session', session) /\ Faulty(session')
                          /\ session'.worker = session.worker
                          /\ (AtWork(session') <=> AtWork(session))
         /\ ~HasSession => session' = None
<1>1. HasSession => session \in Sessions
  BY DEF SessionInv, SessionTypeOK, HasSession
<1>2. CASE HasSession
  <2>1. PICK f \in {session.fault, reason} : session' = [session EXCEPT !.fault = f]
    BY <1>1, <1>2, FailedSession DEF Fails
  <2>2. session' \in Sessions /\ Faulty(session')
    BY <1>1, <1>2, FailedSession DEF Fails
  <2> QED
    BY <1>1, <1>2, <2>1, <2>2 DEF Fails, SameRequest, Sessions, AtWork
<1> QED
  BY <1>2 DEF Fails

\* The callbacks that do nothing but fail.
LEMMA FailuresKeep ==
  ASSUME SessionInv, OnWorkerFault \/ TickRaises \/ SessionEvent \/ Shutdown
  PROVE  SessionInv'
<1>1. PICK reason \in {"known", "unknown"} :
        \/ Fails(reason)
        \/ ~HasSession /\ UNCHANGED <<locked, session>>
  BY DEF OnWorkerFault, TickRaises, SessionEvent, Shutdown
<1>2. /\ UNCHANGED <<budget, consumer, said, read, left, coordVars>>
      /\ phase' \in {"running", "closing", "down"}
      /\ phase' = "closing" => HasSession
  BY DEF OnWorkerFault, TickRaises, SessionEvent, Shutdown, SessionInv, SessionTypeOK
<1>3. CASE HasSession
  BY <1>1, <1>2, <1>3, FailsOutcome, SessionKept
<1>4. CASE ~HasSession
  <2>1. session' = session /\ locked' \in BOOLEAN /\ session = None /\ phase' # "closing"
    BY <1>1, <1>2, <1>4, FailsOutcome DEF SessionInv, SessionTypeOK, HasSession
  <2>2. UNCHANGED <<active, verified, retired, coordinator, asked, requests, cancels>>
    BY <1>2 DEF consumer, coordVars
  <2>3. SessionTypeOK'
    BY <1>2, <2>1, <2>2 DEF SessionInv, SessionTypeOK
  <2>4. RequestsAreFresh'
    BY <1>2, <2>1, <2>2 DEF SessionInv, RequestsAreFresh, HasSession, Drained, Refused
  <2> QED
    BY <1>2, <2>1, <2>2, <2>3, <2>4 DEF SessionInv, HasSession
<1> QED
  BY <1>3, <1>4

\* What a process, or the end of the runtime, leaves of a session: nothing
\* starts to work.
LEMMA ProcessesSession ==
  ASSUME session \in Sessions, Observer \/ Worker \/ ShutdownEnds
  PROVE  /\ SameRequest(session', session)
         /\ AtWork(session') => AtWork(session)
         /\ session.worker = "none" => session'.worker = "none"
<1>1. CASE session' = [session EXCEPT !.ready = TRUE]
  BY <1>1 DEF SameRequest, Sessions, Faulty, AtWork
<1>2. ASSUME NEW o \in {"done", "dead"}, NEW v \in {session.terminal, "found", "next", "incomplete", "cancelled"},
             session' = [session EXCEPT !.observer = o, !.terminal = v]
      PROVE  SameRequest(session', session) /\ (AtWork(session') => AtWork(session))
             /\ session'.worker = session.worker
  <2>1. session' \in Sessions
    BY <1>2 DEF Sessions
  <2>2. /\ session'.task = session.task /\ session'.point = session.point
        /\ session'.cancel = session.cancel /\ session'.public = session.public
        /\ session'.candidate = session.candidate /\ session'.fault = session.fault
        /\ session'.worker = session.worker /\ session'.head = session.head
        /\ session'.observer # "running"
    BY <1>2 DEF Sessions
  <2> QED
    BY <2>1, <2>2 DEF SameRequest, Faulty, AtWork
<1>3. CASE session' = [session EXCEPT !.observer = "dead"]
  BY <1>3 DEF SameRequest, Sessions, Faulty, AtWork
<1>4. CASE Worker
  <2>1. PICK w \in {"retired", "fault"} : session' = [session EXCEPT !.worker = w]
    BY <1>4 DEF Worker
  <2>2. session.worker = "running"
    BY <1>4 DEF Worker
  <2> QED
    BY <2>1, <2>2 DEF SameRequest, Sessions, Faulty, AtWork
<1>5. CASE ShutdownEnds
  <2> DEFINE o == IF session.observer = "running" THEN "dead" ELSE session.observer
             w == IF session.worker \in {"running", "fault"} THEN "killed" ELSE session.worker
  <2>1. session' = [session EXCEPT !.observer = o, !.worker = w]
    BY <1>5 DEF ShutdownEnds
  <2>2. /\ o \in {"none", "done", "dead"} /\ w \in {"none", "retired", "killed"}
        /\ session.worker = "none" => w = "none"
    BY DEF Sessions
  <2> HIDE DEF o, w
  <2>3. session' \in Sessions
    BY <2>1, <2>2 DEF Sessions
  <2>4. /\ session'.task = session.task /\ session'.point = session.point
        /\ session'.cancel = session.cancel /\ session'.public = session.public
        /\ session'.candidate = session.candidate /\ session'.fault = session.fault
        /\ session'.worker = w /\ session'.head = session.head
        /\ session'.observer = o
    BY <2>1 DEF Sessions
  <2> QED
    BY <2>2, <2>3, <2>4 DEF SameRequest, Faulty, AtWork
<1>6. CASE Observer
  BY <1>1, <1>2, <1>3, <1>6 DEF Observer, Sessions, AtWork
<1> QED
  BY <1>4, <1>5, <1>6

\* The processes of a session, and their end with the runtime.
LEMMA ProcessesKeep ==
  ASSUME SessionInv, Observer \/ Worker \/ ShutdownEnds
  PROVE  SessionInv'
<1>1. HasSession /\ session \in Sessions
  BY DEF Observer, Worker, ShutdownEnds, SessionInv, SessionTypeOK, HasSession
<1>2. SameRequest(session', session)
  BY <1>1, ProcessesSession
<1>3. /\ UNCHANGED <<budget, locked, consumer, said, read, left, coordVars>>
      /\ phase' = phase \/ phase' = "down"
  BY DEF Observer, Worker, ShutdownEnds, processFrame
<1>4. phase' \in {"running", "closing", "down"} /\ locked' \in BOOLEAN
  BY <1>3 DEF SessionInv, SessionTypeOK
<1> QED
  BY <1>1, <1>2, <1>3, <1>4, SessionKept

\* The consumer gives up its request, or verifies its map.
LEMMA ConsumerKeeps ==
  ASSUME SessionInv, RequestLost \/ MapVerified
  PROVE  SessionInv'
<1>1. /\ UNCHANGED <<budget, phase, locked, session, said, read, left, coordVars>>
      /\ active' \in {active, None} /\ verified' \in BOOLEAN
      /\ retired \subseteq retired' /\ retired' \subseteq Tasks
  BY DEF RequestLost, MapVerified, SessionInv, SessionTypeOK
<1> QED
  BY <1>1 DEF SessionInv, SessionTypeOK, RequestsAreFresh, CancelIsKnown, FaultIsKnown,
              HasSession, Drained, Refused, coordVars

LEMMA OnRequestKeeps ==
  ASSUME SessionInv, NEW t \in Tasks, OnRequest(t)
  PROVE  SessionInv'
<1>1. /\ t \in requests /\ requests' = requests \ {t} /\ t \in 1 .. asked
      /\ UNCHANGED <<budget, phase, retired, read, left, coordinator, asked, cancels>>
      /\ ~Drained(t) /\ ~Refused(t) /\ (HasSession => session.task # t)
  BY DEF OnRequest, SessionInv, RequestsAreFresh
<1>2. CASE /\ Acceptable(t)
           /\ session' = Fresh(t, 1) /\ active' = t /\ verified' = FALSE
           /\ UNCHANGED <<locked, said>>
  <2>1. 1 \in 1 .. Points
    BY SessionAssumption
  <2>2. session' \in Sessions /\ session'.task = t /\ session' # None
        /\ session'.cancel = "none" /\ ~session'.public /\ ~session'.candidate
    BY <1>2, <2>1, FreshSession DEF Fresh
  <2>3. read[t] = "no" /\ ~locked /\ phase = "running"
    BY <1>2 DEF Acceptable, SessionInv
  <2>4. SessionTypeOK'
    BY <1>1, <1>2, <2>2 DEF SessionInv, SessionTypeOK
  <2>5. RequestsAreFresh'
    BY <1>1, <1>2, <2>2 DEF SessionInv, SessionTypeOK, RequestsAreFresh, HasSession, Drained, Refused, Tasks
  <2>6. CancelIsKnown(session)'
    BY <1>1, <2>2, <2>3 DEF CancelIsKnown, Whys
  <2>7. FaultIsKnown(session)'
    BY <1>1, <1>2, <2>2, <2>3 DEF FaultIsKnown, Drained, Refused
  <2> QED
    BY <1>1, <1>2, <2>2, <2>4, <2>5, <2>6, <2>7 DEF SessionInv, HasSession
<1>3. CASE /\ Fails("known")
           /\ said' = IF HasSession THEN said ELSE said \cup {<<"fault", t>>}
           /\ active' \in {active} \cup {u \in {t} : Acceptable(t)}
           /\ UNCHANGED verified
  <2>1. CASE HasSession
    <3>1. /\ session \in Sessions /\ CancelIsKnown(session) /\ FaultIsKnown(session)
      BY <2>1 DEF SessionInv, SessionTypeOK, HasSession
    <3>2. locked' = TRUE /\ SameRequest(session', session) /\ Faulty(session') /\ said' = said
      BY <1>3, <2>1, FailsOutcome
    <3>3. session' \in Sessions /\ session' # None /\ session'.task = session.task
      BY <3>2, NoneAssumption DEF SameRequest
    <3>4. SessionTypeOK'
      BY <1>1, <1>3, <3>2, <3>3 DEF SessionInv, SessionTypeOK
    <3>5. RequestsAreFresh'
      BY <1>1, <2>1, <3>2, <3>3 DEF SessionInv, RequestsAreFresh, HasSession, Drained, Refused, Tasks
    <3>6. CancelIsKnown(session)' /\ FaultIsKnown(session)'
      BY <1>1, <3>1, <3>2 DEF SameRequest, CancelIsKnown, FaultIsKnown, Drained, Refused
    <3> QED
      BY <1>1, <3>3, <3>4, <3>5, <3>6 DEF SessionInv, HasSession
  <2>2. CASE ~HasSession
    <3>1. locked' = TRUE /\ session' = None /\ phase' # "closing"
      BY <1>1, <1>3, <2>2, FailsOutcome DEF SessionInv
    <3>2. SessionTypeOK'
      BY <1>1, <1>3, <2>2, <3>1 DEF SessionInv, SessionTypeOK
    <3>3. \A u \in Tasks : u # t => (Drained(u)' <=> Drained(u)) /\ (Refused(u)' <=> Refused(u))
      BY <1>3, <2>2 DEF Drained, Refused
    <3>4. RequestsAreFresh'
      <4>1. asked \in Nat /\ ~(t > asked) /\ t \notin requests' /\ asked' = asked
        BY <1>1, SessionAssumption DEF SessionInv, SessionTypeOK
      <4> QED
        BY <1>1, <3>1, <3>3, <4>1 DEF SessionInv, RequestsAreFresh, HasSession, Tasks
    <3> QED
      BY <1>1, <3>1, <3>2, <3>4 DEF SessionInv, HasSession
  <2> QED
    BY <2>1, <2>2
<1> QED
  BY <1>2, <1>3 DEF OnRequest

\* The session on its cancellation: what it keeps, and what it now knows.
LEMMA CancelledSession ==
  ASSUME NEW s \in Sessions, NEW why \in Whys, CancelIsKnown(s)
  PROVE  /\ Cancelled(s, why) \in Sessions
         /\ Cancelled(s, why).task = s.task /\ Cancelled(s, why).point = s.point
         /\ Cancelled(s, why).fault = s.fault /\ Cancelled(s, why).worker = s.worker
         /\ AtWork(Cancelled(s, why)) <=> AtWork(s)
         /\ read[s.task] = "no" =>
              \/ s.cancel = "private" /\ Cancelled(s, why) = [s EXCEPT !.public = TRUE, !.candidate = FALSE]
              \/ /\ s.cancel = "none"
                 /\ Cancelled(s, why) = [s EXCEPT !.cancel = why,
                                                  !.candidate = (why = "stop" /\ s.candidate)]
         /\ read[s.task] # "no" =>
              \/ Cancelled(s, why) = s
              \/ s.cancel = "private" /\ Cancelled(s, why) = [s EXCEPT !.public = TRUE, !.candidate = FALSE]
<1>1. CASE s.cancel = "private"
  <2>1. Cancelled(s, why) = [s EXCEPT !.public = TRUE, !.candidate = FALSE]
    BY <1>1 DEF Cancelled, Whys
  <2> QED
    BY <1>1, <2>1 DEF Sessions, AtWork
<1>2. CASE s.cancel \in Whys
  <2>1. Cancelled(s, why) = s /\ read[s.task] # "no"
    BY <1>2 DEF Cancelled, CancelIsKnown, Whys
  <2> QED
    BY <1>2, <2>1
<1>3. CASE s.cancel = "none"
  <2>1. Cancelled(s, why) = [s EXCEPT !.cancel = why, !.candidate = (why = "stop" /\ s.candidate)]
    <3>1. s.cancel # "private" /\ s.cancel \notin Whys
      BY <1>3 DEF Whys
    <3> QED
      BY <3>1 DEF Cancelled
  <2>2. ~s.public /\ read[s.task] = "no"
    BY <1>3 DEF CancelIsKnown, Whys
  <2> QED
    BY <1>3, <2>1, <2>2 DEF Sessions, AtWork
<1> QED
  BY <1>1, <1>2, <1>3 DEF Sessions

LEMMA OnCancelKeeps ==
  ASSUME SessionInv, NEW t \in Tasks, NEW why \in Whys, OnCancel(t, why)
  PROVE  SessionInv'
<1>1. /\ retired' = retired \cup {t} /\ active' \in {active, None} /\ verified' \in BOOLEAN
      /\ session' = IF HasSession /\ session.task = t THEN Cancelled(session, why) ELSE session
      /\ read' = [read EXCEPT ![t] = IF @ = "no" THEN why ELSE @]
      /\ UNCHANGED <<budget, phase, locked, said, left, coordinator, asked, requests, cancels>>
  BY DEF OnCancel, Receive, coordVars, SessionInv, SessionTypeOK
<1>2. read' \in [Tasks -> Whys \cup {"no"}] /\ \A u \in Tasks : u # t => read'[u] = read[u]
  BY <1>1 DEF SessionInv, SessionTypeOK
<1>3. read'[t] = IF read[t] = "no" THEN why ELSE read[t]
  BY <1>1 DEF SessionInv, SessionTypeOK
<1>4. HasSession => session \in Sessions /\ session.task \in Tasks
                    /\ CancelIsKnown(session) /\ FaultIsKnown(session)
  BY DEF SessionInv, SessionTypeOK, HasSession, Sessions
<1>5. HasSession => /\ session' \in Sessions /\ session' # None
                    /\ session'.task = session.task /\ session'.fault = session.fault
  BY <1>1, <1>4, CancelledSession, NoneAssumption
<1>6. SessionTypeOK'
  BY <1>1, <1>2, <1>5 DEF SessionInv, SessionTypeOK, HasSession
<1>7. RequestsAreFresh'
  BY <1>1, <1>5 DEF SessionInv, RequestsAreFresh, HasSession, Drained, Refused
<1>8. HasSession => FaultIsKnown(session)'
  BY <1>1, <1>4, <1>5 DEF FaultIsKnown, Drained, Refused, Faulty
<1>9. HasSession => CancelIsKnown(session)'
  <2>1. CASE HasSession /\ session.task # t
    BY <1>1, <1>2, <1>4, <2>1 DEF CancelIsKnown
  <2>2. CASE HasSession /\ session.task = t /\ read[t] = "no"
    <3>1. read'[t] = why /\ why \in {"stop", "public"}
      BY <1>3, <2>2 DEF Whys
    <3>2. \/ session.cancel = "private" /\ session' = [session EXCEPT !.public = TRUE, !.candidate = FALSE]
          \/ /\ session.cancel = "none"
             /\ session' = [session EXCEPT !.cancel = why,
                                           !.candidate = (why = "stop" /\ session.candidate)]
      BY <1>1, <1>4, <2>2, CancelledSession
    <3> QED
      BY <1>4, <1>5, <2>2, <3>1, <3>2 DEF CancelIsKnown, Whys, Sessions
  <2>3. CASE HasSession /\ session.task = t /\ read[t] # "no"
    <3>1. read'[t] = read[t]
      BY <1>3, <2>3
    <3>2. \/ session' = session
          \/ session.cancel = "private" /\ session' = [session EXCEPT !.public = TRUE, !.candidate = FALSE]
      BY <1>1, <1>4, <2>3, CancelledSession
    <3> QED
      BY <1>4, <1>5, <2>3, <3>1, <3>2 DEF CancelIsKnown, Whys, Sessions
  <2> QED
    BY <2>1, <2>2, <2>3
<1> QED
  BY <1>1, <1>2, <1>5, <1>6, <1>7, <1>8, <1>9 DEF SessionInv, HasSession

\* The coordinator touches nothing of the runtime; a request it publishes is
\* a new one.
LEMMA CoordinatorKeeps ==
  ASSUME SessionInv,
         PublishSearchRequest \/ InvalidateSearchRequest \/ BarrierEvent \/ CoordinatorRestarts
  PROVE  SessionInv'
<1>1. /\ UNCHANGED <<budget, phase, locked, session, active, verified, retired, said, read, left>>
      /\ coordinator' \in {"idle", "searching", "cancelling", "faulted"}
      /\ \/ UNCHANGED <<asked, requests>>
         \/ asked < Requests /\ asked' = asked + 1 /\ requests' = requests \cup {asked + 1}
  BY DEF PublishSearchRequest, InvalidateSearchRequest, Invalidate, BarrierEvent,
         CoordinatorRestarts, coordFrame, runtime, consumer
<1>2. cancels' \in SUBSET (Tasks \X Whys)
  <2>1. cancels' = cancels
        \/ \E why \in Whys : coordinator = "searching" /\ cancels' = cancels \cup {<<asked, why>>}
    BY DEF PublishSearchRequest, InvalidateSearchRequest, Invalidate, BarrierEvent,
           CoordinatorRestarts, Whys
  <2>2. coordinator = "searching" => asked \in Tasks
    BY SessionAssumption DEF SessionInv, SessionTypeOK, RequestsAreFresh, Tasks
  <2> QED
    BY <2>1, <2>2 DEF SessionInv, SessionTypeOK
<1>3. asked' \in 0 .. Requests /\ requests' \in SUBSET Tasks /\ requests' \subseteq 1 .. asked'
      /\ (coordinator' # "idle" => asked' > 0)
  <2>1. asked \in 0 .. Requests /\ requests \in SUBSET Tasks /\ requests \subseteq 1 .. asked
        /\ (coordinator # "idle" => asked > 0)
    BY DEF SessionInv, SessionTypeOK, RequestsAreFresh
  <2>2. CASE asked < Requests /\ asked' = asked + 1 /\ requests' = requests \cup {asked + 1}
    BY <2>1, <2>2, SessionAssumption DEF Tasks
  <2>3. CASE UNCHANGED <<asked, requests>> /\ (coordinator' # "idle" => coordinator # "idle")
    BY <2>1, <2>3
  <2> QED
    BY <2>2, <2>3 DEF PublishSearchRequest, InvalidateSearchRequest, Invalidate, BarrierEvent,
                      CoordinatorRestarts
<1>4. \A t \in Tasks : t \in requests' \/ t > asked' => t \in requests \/ t > asked
  BY <1>1, SessionAssumption DEF SessionInv, SessionTypeOK, Tasks
<1>5. SessionTypeOK' /\ RequestsAreFresh'
  BY <1>1, <1>2, <1>3, <1>4
     DEF SessionInv, SessionTypeOK, RequestsAreFresh, HasSession, Drained, Refused
<1> QED
  BY <1>1, <1>5
     DEF SessionInv, CancelIsKnown, FaultIsKnown, HasSession, Drained, Refused

\* The invariant the theorems of this module rest on, for any number of
\* requests and points.
THEOREM SessionInductive == Spec => []SessionInv
<1>1. Init => SessionInv
  <2> SUFFICES ASSUME Init PROVE SessionInv
    OBVIOUS
  <2>1. SessionTypeOK
    <3>1. asked \in 0 .. Requests /\ read \in [Tasks -> Whys \cup {"no"}]
      BY SessionAssumption DEF Init
    <3>2. locked \in BOOLEAN /\ verified \in BOOLEAN /\ budget \in BOOLEAN
      BY DEF Init
    <3> QED
      BY <3>1, <3>2 DEF Init, SessionTypeOK
  <2>2. RequestsAreFresh
    BY DEF Init, RequestsAreFresh, HasSession, Drained, Refused
  <2>3. \A t \in Tasks : read[t] = "no"
    BY DEF Init
  <2> QED
    BY <2>1, <2>2, <2>3 DEF Init, SessionInv, HasSession
<1>2. SessionInv /\ [Next]_vars => SessionInv'
  <2> SUFFICES ASSUME SessionInv, [Next]_vars PROVE SessionInv'
    OBVIOUS
  <2>1. ASSUME NEW t \in Tasks, OnRequest(t) PROVE SessionInv'
    BY <2>1, OnRequestKeeps
  <2>2. ASSUME NEW t \in Tasks, NEW why \in Whys, OnCancel(t, why) PROVE SessionInv'
    BY <2>2, OnCancelKeeps
  <2>3. ASSUME NEW late \in BOOLEAN, Tick(late) PROVE SessionInv'
    BY <2>3, TickKeeps
  <2>4. CASE UNCHANGED vars
    BY <2>4 DEF vars, runtime, consumer, coordVars, SessionInv, SessionTypeOK, RequestsAreFresh,
                CancelIsKnown, FaultIsKnown, HasSession, Drained, Refused
  <2> QED
    BY <2>1, <2>2, <2>3, <2>4, ConsumerKeeps, FailuresKeep, ProcessesKeep, CoordinatorKeeps
       DEF Next
<1> QED
  BY <1>1, <1>2, PTL DEF Spec

\* The variables of the runtime keep their types; every session it builds, over
\* every number of points, is one of Sessions.
THEOREM SessionTypes == Spec => []SessionTypeOK
<1>1. SessionInv => SessionTypeOK
  BY DEF SessionInv
<1> QED
  BY <1>1, SessionInductive, PTL

-----------------------------------------------------------------------------
(* The runtime implements SearchAnswer.                                    *)

Answers == [t \in Tasks |-> AnswerOf(t)]
Results == {t \in Tasks : <<"result", t>> \in said}
answerVars == <<Answers, read, Working, Results>>

\* The four answers, of which a request has one.
LEMMA AnswerCases ==
  ASSUME NEW t \in Tasks
  PROVE  /\ Answers[t] = AnswerOf(t) /\ Answers'[t] = AnswerOf(t)'
         /\ Drained(t) /\ ~Refused(t) => AnswerOf(t) = "drained"
         /\ ~Drained(t) /\ Refused(t) => AnswerOf(t) = "failed"
         /\ ~Drained(t) /\ ~Refused(t) =>
              AnswerOf(t) = IF HasSession /\ session.task = t THEN "searching" ELSE "none"
         /\ (Drained(t) /\ ~Refused(t) => AnswerOf(t) = "drained")'
         /\ (~Drained(t) /\ Refused(t) => AnswerOf(t) = "failed")'
         /\ (~Drained(t) /\ ~Refused(t) =>
               AnswerOf(t) = IF HasSession /\ session.task = t THEN "searching" ELSE "none")'
<1>1. Answers[t] = AnswerOf(t) /\ Answers'[t] = AnswerOf(t)'
  BY DEF Answers
<1>2. /\ Drained(t) /\ ~Refused(t) => AnswerOf(t) = "drained"
      /\ ~Drained(t) /\ Refused(t) => AnswerOf(t) = "failed"
      /\ ~Drained(t) /\ ~Refused(t) =>
           AnswerOf(t) = IF HasSession /\ session.task = t THEN "searching" ELSE "none"
  BY DEF AnswerOf
<1>3. /\ (Drained(t) /\ ~Refused(t) => AnswerOf(t) = "drained")'
      /\ (~Drained(t) /\ Refused(t) => AnswerOf(t) = "failed")'
      /\ (~Drained(t) /\ ~Refused(t) =>
            AnswerOf(t) = IF HasSession /\ session.task = t THEN "searching" ELSE "none")'
  BY DEF AnswerOf
<1> QED
  BY <1>1, <1>2, <1>3

\* A request keeps its answer if nothing is said of it and it keeps, or stays
\* without, its session.
LEMMA SameAnswer ==
  ASSUME NEW t \in Tasks, Drained(t)' <=> Drained(t), Refused(t)' <=> Refused(t),
         \/ (HasSession /\ session.task = t)' <=> (HasSession /\ session.task = t)
         \/ Refused(t)
  PROVE  AnswerOf(t)' = AnswerOf(t)
BY DEF AnswerOf

\* Only the request of the session has processes.
LEMMA WorkingNow ==
  ASSUME SessionInv, SessionInv'
  PROVE  /\ \A t : t \in Working <=> HasSession /\ t = session.task /\ AtWork(session)
         /\ \A t : t \in Working' <=> (HasSession /\ t = session.task /\ AtWork(session))'
<1>1. \A t : t \in Working <=> HasSession /\ t = session.task /\ AtWork(session)
  BY DEF SessionInv, SessionTypeOK, Working, HasSession, Sessions
<1>2. \A t : t \in Working' <=> (HasSession /\ t = session.task /\ AtWork(session))'
  BY DEF SessionInv, SessionTypeOK, Working, HasSession, Sessions
<1> QED
  BY <1>1, <1>2

\* A step that says nothing and keeps the request of the session at most ends
\* its work.
LEMMA StepsBack ==
  ASSUME SessionInv, SessionInv', UNCHANGED <<said, read>>, HasSession' <=> HasSession,
         HasSession => session'.task = session.task /\ (AtWork(session') => AtWork(session))
  PROVE  [Answer!Next]_answerVars
<1>1. Answers' = Answers /\ Results' = Results
  <2>1. \A t \in Tasks : AnswerOf(t)' = AnswerOf(t)
    BY SameAnswer DEF Drained, Refused
  <2> QED
    BY <2>1 DEF Answers, Results
<1>2. CASE ~HasSession
  <2>1. Working' = Working
    BY <1>2, WorkingNow
  <2> QED
    BY <1>1, <2>1 DEF answerVars
<1>3. CASE HasSession
  <2>1. session.task \in Tasks
    BY <1>3 DEF SessionInv, SessionTypeOK, HasSession, Sessions
  <2>2. Working' \in {Working, Working \ {session.task}}
    BY <1>3, WorkingNow
  <2>3. Answer!StopWork(session.task)
    BY <1>1, <2>2 DEF Answers, Results, Answer!StopWork, Answer!Drop
  <2> QED
    BY <2>1, <2>3 DEF Answer!Next
<1> QED
  BY <1>2, <1>3

LEMMA RequestAnswers ==
  ASSUME SessionInv, SessionInv', NEW t \in Tasks, OnRequest(t)
  PROVE  [Answer!Next]_answerVars
<1>1. /\ UNCHANGED read /\ t \in requests
      /\ ~Drained(t) /\ ~Refused(t) /\ (HasSession => session.task # t)
  BY DEF OnRequest, SessionInv, RequestsAreFresh
<1>2. CASE Acceptable(t) /\ session' = Fresh(t, 1) /\ UNCHANGED said
  <2>1. ~HasSession /\ session' # None /\ session'.task = t /\ ~AtWork(session') /\ read[t] = "no"
    <3>1. 1 \in 1 .. Points
      BY SessionAssumption
    <3> QED
      BY <1>2, <3>1, FreshSession DEF Acceptable, SessionInv, Fresh
  <2>2. \A u \in Tasks : u # t => AnswerOf(u)' = AnswerOf(u)
    BY <1>2, <2>1, SameAnswer DEF Drained, Refused, HasSession
  <2>3. AnswerOf(t) = "none" /\ AnswerOf(t)' = "searching"
    BY <1>1, <1>2, <2>1, AnswerCases DEF Drained, Refused, HasSession
  <2>4. Answers' = [Answers EXCEPT ![t] = "searching"] /\ Answers[t] = "none"
    BY <2>2, <2>3 DEF Answers
  <2>5. Working' = Working /\ Results' = Results
    BY <1>2, <2>1, WorkingNow DEF Results
  <2>6. Answer!Accept(t)
    BY <1>1, <2>1, <2>4, <2>5 DEF Answer!Accept, Answer!Cancelled, Answers, Results
  <2> QED
    BY <2>6 DEF Answer!Next
<1>3. CASE HasSession /\ Fails("known") /\ UNCHANGED said
  <2>1. HasSession' /\ session'.task = session.task /\ (AtWork(session') <=> AtWork(session))
    BY <1>3, FailsOutcome, NoneAssumption DEF SameRequest, HasSession
  <2> QED
    BY <1>1, <1>3, <2>1, StepsBack
<1>4. CASE ~HasSession /\ Fails("known") /\ said' = said \cup {<<"fault", t>>}
  <2>1. session' = None /\ ~HasSession'
    BY <1>4, FailsOutcome DEF HasSession
  <2>2. \A u \in Tasks : u # t => AnswerOf(u)' = AnswerOf(u)
    <3>1. \A u \in Tasks : u # t => (Drained(u)' <=> Drained(u)) /\ (Refused(u)' <=> Refused(u))
      BY <1>4 DEF Drained, Refused
    <3> QED
      BY <1>4, <2>1, <3>1, SameAnswer
  <2>3. Refused(t)' /\ (Drained(t)' <=> Drained(t))
    BY <1>4 DEF Refused, Drained
  <2>4. AnswerOf(t) = "none" /\ AnswerOf(t)' = "failed"
    BY <1>1, <1>4, <2>3, AnswerCases
  <2>5. Answers' = [Answers EXCEPT ![t] = "failed"] /\ Answers[t] = "none"
    BY <2>2, <2>4 DEF Answers
  <2>6. Working' = Working
    BY <1>4, <2>1, WorkingNow
  <2>7. Results' = Results
    BY <1>4 DEF Results
  <2>8. Answer!Fail(t)
    BY <1>1, <2>5, <2>6, <2>7 DEF Answer!Fail, Answer!Drop, Answers, Results
  <2> QED
    BY <2>8 DEF Answer!Next
<1> QED
  BY <1>2, <1>3, <1>4 DEF OnRequest

LEMMA CancelAnswers ==
  ASSUME SessionInv, SessionInv', NEW t \in Tasks, NEW why \in Whys, OnCancel(t, why)
  PROVE  [Answer!Next]_answerVars
<1>1. /\ session' = IF HasSession /\ session.task = t THEN Cancelled(session, why) ELSE session
      /\ read' = [read EXCEPT ![t] = IF @ = "no" THEN why ELSE @]
      /\ UNCHANGED said
  BY DEF OnCancel
<1>2. /\ HasSession' <=> HasSession
      /\ HasSession => session'.task = session.task /\ (AtWork(session') <=> AtWork(session))
  <2>1. HasSession => session \in Sessions /\ CancelIsKnown(session)
    BY DEF SessionInv, SessionTypeOK, HasSession
  <2>2. HasSession /\ session.task = t =>
          /\ session' \in Sessions /\ session'.task = session.task
          /\ AtWork(session') <=> AtWork(session)
    BY <1>1, <2>1, CancelledSession
  <2> QED
    BY <1>1, <2>2, NoneAssumption DEF HasSession
<1>3. CASE read[t] = "no"
  <2>1. Answers' = Answers /\ Results' = Results
    <3>1. \A u \in Tasks : AnswerOf(u)' = AnswerOf(u)
      BY <1>1, <1>2, SameAnswer DEF Drained, Refused
    <3> QED
      BY <1>1, <3>1 DEF Answers, Results
  <2>2. Working' = Working
    BY <1>2, WorkingNow
  <2>3. read' = [read EXCEPT ![t] = why]
    BY <1>1, <1>3
  <2>4. Answer!ReadCancel(t, why)
    BY <1>3, <2>1, <2>2, <2>3 DEF Answer!ReadCancel, Answer!Cancelled, Answers, Results
  <2> QED
    BY <2>4 DEF Answer!Next, Whys
<1>4. CASE read[t] # "no"
  <2>1. read' = read
    BY <1>1, <1>4 DEF SessionInv, SessionTypeOK
  <2> QED
    BY <1>1, <1>2, <2>1, StepsBack
<1> QED
  BY <1>3, <1>4

LEMMA TickAnswers ==
  ASSUME SessionInv, SessionInv', NEW late \in BOOLEAN, Tick(late)
  PROVE  [Answer!Next]_answerVars
<1>1. /\ session \in Sessions /\ CancelIsKnown(session) /\ FaultIsKnown(session)
      /\ session.task \in Tasks /\ HasSession /\ UNCHANGED read
  BY DEF SessionInv, SessionTypeOK, Tick, HasSession, Sessions
<1>2. PICK t \in Tasks : t = session.task
  BY <1>1
<1>3. CASE PointFollows
  <2>1. session.point + 1 \in 1 .. Points
    BY <1>1, <1>3, SessionAssumption DEF PointFollows, Sessions
  <2>2. HasSession' /\ session'.task = session.task /\ ~AtWork(session')
    BY <1>1, <1>3, <2>1, FreshSession DEF PointFollows, HasSession, Fresh
  <2> QED
    BY <1>1, <1>3, <2>2, StepsBack DEF PointFollows
<1>4. CASE SessionEnds
  <2>1. ~Refused(t) /\ ~Drained(t) /\ read[t] # "no" /\ ~AtWork(session) /\ ~HasSession'
    BY <1>1, <1>2, <1>4 DEF SessionEnds, FaultIsKnown, CancelIsKnown, HasSession
  <2>2. /\ \A u \in Tasks : u # t => (Drained(u)' <=> Drained(u)) /\ (Refused(u)' <=> Refused(u))
        /\ Drained(t)' /\ ~Refused(t)'
    BY <1>2, <1>4, <2>1 DEF SessionEnds, Drained, Refused
  <2>3. \A u \in Tasks : u # t => AnswerOf(u)' = AnswerOf(u)
    BY <1>2, <2>1, <2>2, SameAnswer
  <2>4. AnswerOf(t) = "searching" /\ AnswerOf(t)' = "drained"
    BY <1>1, <1>2, <2>1, <2>2, AnswerCases
  <2>5. Answers' = [Answers EXCEPT ![t] = "drained"] /\ Answers[t] = "searching"
    BY <2>3, <2>4 DEF Answers
  <2>6. Working' = Working /\ t \notin Working
    BY <1>2, <2>1, WorkingNow
  <2>7. \/ Results' = Results
        \/ read[t] = "stop" /\ Results' = Results \cup {t}
    <3>1. CASE session.candidate
      <4>1. read[t] = "stop"
        BY <1>1, <1>2, <1>4, <3>1 DEF SessionEnds, CancelIsKnown
      <4>2. Results' = Results \cup {t}
        BY <1>2, <1>4, <3>1 DEF SessionEnds, Results
      <4> QED
        BY <4>1, <4>2
    <3>2. CASE ~session.candidate
      BY <1>2, <1>4, <3>2 DEF SessionEnds, Results
    <3> QED
      BY <3>1, <3>2
  <2>8. Answer!Drain(t)
    BY <1>1, <2>1, <2>5, <2>6, <2>7 DEF Answer!Drain, Answer!Cancelled, Answers, Results
  <2> QED
    BY <2>8 DEF Answer!Next
<1>5. CASE SessionGoesOn
  <2>0. PICK X \in SUBSET Remarks(t) :
          /\ said' = said \cup X
          /\ X \cap ({"fault", "unknown_fault", "cancel_failed"} \X {t}) # {} =>
               Faulty(session') /\ (AtWork(session') => AtWork(session))
    BY <1>2, <1>5 DEF SessionGoesOn
  <2>1. HasSession' /\ session'.task = t
    BY <1>2, <1>5, NoneAssumption DEF SessionGoesOn, HasSession
  <2>2. /\ \A u \in Tasks : u # t => (Drained(u)' <=> Drained(u)) /\ (Refused(u)' <=> Refused(u))
        /\ Drained(t)' <=> Drained(t)
        /\ ~Drained(t)
    <3>1. \A u \in Tasks : u # t => (Drained(u)' <=> Drained(u)) /\ (Refused(u)' <=> Refused(u))
      BY <2>0 DEF Remarks, Drained, Refused
    <3>2. Drained(t)' <=> Drained(t)
      BY <2>0 DEF Remarks, Drained
    <3> QED
      BY <1>1, <1>2, <3>1, <3>2 DEF FaultIsKnown
  <2>3. Results' = Results
    BY <2>0 DEF Remarks, Results
  <2>4. \A u \in Tasks : u # t => AnswerOf(u)' = AnswerOf(u)
    BY <1>1, <1>2, <2>1, <2>2, SameAnswer
  <2>5. CASE Refused(t)' /\ ~Refused(t)
    <3>1. AtWork(session') => AtWork(session)
      BY <2>0, <2>5 DEF Refused
    <3>2. AnswerOf(t) = "searching" /\ AnswerOf(t)' = "failed"
      BY <1>1, <1>2, <2>1, <2>2, <2>5, AnswerCases
    <3>3. Answers' = [Answers EXCEPT ![t] = "failed"] /\ Answers[t] = "searching"
      BY <2>4, <3>2 DEF Answers
    <3>4. Working' \in {Working, Working \ {t}}
      BY <1>1, <1>2, <2>1, <3>1, WorkingNow
    <3>5. Answer!Fail(t)
      BY <1>1, <2>3, <3>3, <3>4 DEF Answer!Fail, Answer!Drop, Answers, Results
    <3> QED
      BY <3>5 DEF Answer!Next
  <2>6. CASE Refused(t)' <=> Refused(t)
    <3>1. Answers' = Answers
      <4>1. \A u \in Tasks : AnswerOf(u)' = AnswerOf(u)
        BY <1>1, <1>2, <2>1, <2>2, <2>4, <2>6, SameAnswer
      <4> QED
        BY <4>1 DEF Answers
    <3>2. CASE AtWork(session') => AtWork(session)
      <4>1. Working' \in {Working, Working \ {t}}
        BY <1>1, <1>2, <2>1, <3>2, WorkingNow
      <4>2. Answer!StopWork(t)
        BY <1>1, <2>3, <3>1, <4>1 DEF Answer!StopWork, Answer!Drop, Answers, Results
      <4> QED
        BY <4>2 DEF Answer!Next
    <3>3. CASE AtWork(session') /\ ~AtWork(session)
      <4>1. ~Stopping(session) /\ ~Faulty(session)
        BY <1>5, <3>3 DEF SessionGoesOn
      <4>2. ~Refused(t) /\ read[t] = "no"
        BY <1>1, <1>2, <4>1 DEF FaultIsKnown, CancelIsKnown, Stopping, Whys
      <4>3. Answers[t] = "searching"
        BY <1>1, <1>2, <2>2, <4>2, AnswerCases
      <4>4. Working' = Working \cup {t}
        BY <1>1, <1>2, <2>1, <3>3, WorkingNow
      <4>5. Answer!StartWork(t)
        BY <1>1, <2>3, <3>1, <4>2, <4>3, <4>4
           DEF Answer!StartWork, Answer!Cancelled, Answers, Results
      <4> QED
        BY <4>5 DEF Answer!Next
    <3> QED
      BY <3>2, <3>3
  <2>7. Refused(t) => Refused(t)'
    BY <2>0 DEF Refused
  <2> QED
    BY <2>5, <2>6, <2>7
<1> QED
  BY <1>3, <1>4, <1>5, TickOutcome

\* Every step of the runtime and of the coordinator is a step of SearchAnswer
\* or leaves the answers alone.
LEMMA StepAnswers ==
  ASSUME SessionInv, SessionInv', [Next]_vars
  PROVE  [Answer!Next]_answerVars
<1>1. ASSUME NEW t \in Tasks, OnRequest(t) PROVE [Answer!Next]_answerVars
  BY <1>1, RequestAnswers
<1>2. ASSUME NEW t \in Tasks, NEW why \in Whys, OnCancel(t, why)
      PROVE  [Answer!Next]_answerVars
  BY <1>2, CancelAnswers
<1>3. ASSUME NEW late \in BOOLEAN, Tick(late) PROVE [Answer!Next]_answerVars
  BY <1>3, TickAnswers
<1>4. CASE UNCHANGED <<session, said, read>>
  BY <1>4, StepsBack DEF HasSession
<1>5. CASE OnWorkerFault \/ TickRaises \/ SessionEvent \/ Shutdown
  <2>1. /\ UNCHANGED <<said, read>>
        /\ (\E reason \in {"known", "unknown"} : Fails(reason)) \/ session' = session
    BY <1>5 DEF OnWorkerFault, TickRaises, SessionEvent, Shutdown
  <2>2. CASE \E reason \in {"known", "unknown"} : Fails(reason)
    <3>1. /\ HasSession => SameRequest(session', session) /\ (AtWork(session') <=> AtWork(session))
          /\ ~HasSession => session' = None
      BY <2>2, FailsOutcome
    <3>2. HasSession => session' # None /\ session'.task = session.task
      BY <3>1, NoneAssumption DEF SameRequest
    <3> QED
      BY <2>1, <3>1, <3>2, StepsBack DEF HasSession
  <2> QED
    BY <1>4, <2>1, <2>2
<1>6. CASE Observer \/ Worker \/ ShutdownEnds
  <2>1. HasSession /\ session \in Sessions /\ UNCHANGED <<said, read>>
    BY <1>6 DEF Observer, Worker, ShutdownEnds, processFrame, SessionInv, SessionTypeOK, HasSession
  <2>2. session' \in Sessions /\ session'.task = session.task
        /\ (AtWork(session') => AtWork(session))
    BY <1>6, <2>1, ProcessesSession DEF SameRequest
  <2> QED
    BY <2>1, <2>2, StepsBack, NoneAssumption DEF HasSession
<1>7. CASE \/ RequestLost \/ MapVerified
           \/ PublishSearchRequest \/ InvalidateSearchRequest \/ BarrierEvent
           \/ CoordinatorRestarts
  BY <1>4, <1>7 DEF RequestLost, MapVerified, PublishSearchRequest, InvalidateSearchRequest,
                    Invalidate, BarrierEvent, CoordinatorRestarts, coordFrame, runtime
<1>8. CASE UNCHANGED vars
  BY <1>4, <1>8 DEF vars, runtime
<1> QED
  BY <1>1, <1>2, <1>3, <1>5, <1>6, <1>7, <1>8 DEF Next

\* The runtime answers each request at most once and keeps the promises of
\* SearchAnswer, for any number of requests and of points in a room.
THEOREM RuntimeAnswersOnce == Spec => AnswersOnce
<1>1. Init => Answer!Init
  <2> SUFFICES ASSUME Init PROVE Answer!Init
    OBVIOUS
  <2>1. \A t \in Tasks : AnswerOf(t) = "none"
    BY AnswerCases DEF Init, HasSession, Drained, Refused
  <2> QED
    BY <2>1 DEF Init, Answer!Init, Working, HasSession
<1>2. SessionInv /\ SessionInv' /\ [Next]_vars => [Answer!Next]_answerVars
  BY StepAnswers
<1>3. [Answer!Next]_answerVars => [Answer!Next]_(Answer!vars)
  BY DEF answerVars, Answers, Results, Answer!vars
<1> QED
  BY <1>1, <1>2, <1>3, SessionInductive, PTL DEF Spec, AnswersOnce, Answer!Spec

\* What the abstract answer promises of a drained request, for whatever it is that
\* answers, works and publishes.
LEMMA DrainedStaysOver == Answer!Spec => []Answer!DrainedIsOver
<1> DEFINE Over == Answer!Typed /\ Answer!DrainedIsOver
<1>1. Answer!Init => Over
  BY DEF Answer!Init, Answer!Typed, Answer!Answers, Answer!DrainedIsOver, Answer!Cancelled
<1>2. Over /\ [Answer!Next]_(Answer!vars) => Over'
  <2> SUFFICES ASSUME Over, [Answer!Next]_(Answer!vars) PROVE Over'
    OBVIOUS
  <2> USE DEF Answer!Typed, Answer!Answers, Answer!DrainedIsOver, Answer!Cancelled
  <2>1. ASSUME NEW t \in Tasks, Answer!Accept(t) PROVE Over'
    BY <2>1 DEF Answer!Accept
  <2>2. ASSUME NEW t \in Tasks, NEW why \in {"stop", "public"}, Answer!ReadCancel(t, why)
        PROVE  Over'
    BY <2>2 DEF Answer!ReadCancel
  <2>3. ASSUME NEW t \in Tasks, Answer!StartWork(t) PROVE Over'
    BY <2>3 DEF Answer!StartWork
  <2>4. ASSUME NEW t \in Tasks, Answer!StopWork(t) PROVE Over'
    BY <2>4 DEF Answer!StopWork, Answer!Drop
  <2>5. ASSUME NEW t \in Tasks, Answer!Fail(t) PROVE Over'
    BY <2>5 DEF Answer!Fail, Answer!Drop
  <2>6. ASSUME NEW t \in Tasks, Answer!Drain(t) PROVE Over'
    BY <2>6 DEF Answer!Drain
  <2>7. CASE UNCHANGED Answer!vars
    BY <2>7 DEF Answer!vars
  <2> QED
    BY <2>1, <2>2, <2>3, <2>4, <2>5, <2>6, <2>7 DEF Answer!Next
<1>3. Over => Answer!DrainedIsOver
  OBVIOUS
<1> QED
  BY <1>1, <1>2, <1>3, PTL DEF Answer!Spec

\* A drain is the last word about a request: nothing works for it any more, it
\* had been cancelled, and its observation went out only on a requested stop.
THEOREM DrainIsTheEnd ==
  Spec => [](\A t \in Tasks : AnswerOf(t) = "drained" =>
               /\ t \notin Working /\ read[t] # "no"
               /\ <<"result", t>> \in said => read[t] = "stop")
<1>1. Answer!DrainedIsOver =>
        \A t \in Tasks : AnswerOf(t) = "drained" =>
          /\ t \notin Working /\ read[t] # "no"
          /\ <<"result", t>> \in said => read[t] = "stop"
  BY DEF Answer!DrainedIsOver, Answer!Cancelled
<1> QED
  BY <1>1, DrainedStaysOver, RuntimeAnswersOnce, PTL DEF AnswersOnce

-----------------------------------------------------------------------------
(* Faults latch.                                                           *)

\* The session, if it is still there, is the one at hand; it started nothing.
Latched ==
  /\ locked'
  /\ session' # None => HasSession /\ session'.task = session.task
                                   /\ session'.point = session.point
  /\ Working' \subseteq Working
  /\ HasSession /\ session' # None => (session.worker = "none" => session'.worker = "none")
  /\ \A t \in Tasks : Drained(t)' => Drained(t)

\* A step that drains nothing latches if the session stays as it is or ends
\* some of its work.
LEMMA SessionLatched ==
  ASSUME SessionInv, SessionInv', locked', \A t \in Tasks : Drained(t)' => Drained(t),
         \/ session' = session
         \/ /\ HasSession /\ session'.task = session.task /\ session'.point = session.point
            /\ session.worker = "none" => session'.worker = "none"
            /\ AtWork(session') => AtWork(session)
  PROVE  Latched
<1>1. Working' \subseteq Working
  BY WorkingNow DEF HasSession
<1> QED
  BY <1>1 DEF Latched, HasSession

LEMMA StepLatches ==
  ASSUME SessionInv, SessionInv', locked, [Next]_vars
  PROVE  Latched
<1>0. HasSession => session \in Sessions /\ Faulty(session) /\ CancelIsKnown(session)
  BY DEF SessionInv, SessionTypeOK, HasSession, FaultIsKnown
<1>1. CASE locked' /\ UNCHANGED <<session, said>>
  BY <1>1, SessionLatched DEF Drained
<1>2. ASSUME NEW reason \in {"known", "unknown"}, Fails(reason),
             \A t \in Tasks : Drained(t)' => Drained(t)
      PROVE  Latched
  <2>1. locked'
    BY <1>2, FailsOutcome
  <2>2. CASE HasSession
    BY <1>2, <2>1, <2>2, FailsOutcome, SessionLatched DEF SameRequest
  <2>3. CASE ~HasSession
    <3>1. session' = session
      BY <1>2, <2>3, FailsOutcome DEF HasSession
    <3> QED
      BY <1>2, <2>1, <3>1, SessionLatched
  <2> QED
    BY <2>2, <2>3
<1>3. ASSUME NEW t \in Tasks, OnRequest(t) PROVE Latched
  <2>1. Fails("known") /\ said' \in {said, said \cup {<<"fault", t>>}}
    BY <1>3 DEF OnRequest, Acceptable
  <2> QED
    BY <1>2, <2>1 DEF Drained
<1>4. ASSUME NEW t \in Tasks, NEW why \in Whys, OnCancel(t, why) PROVE Latched
  <2>1. /\ locked' /\ UNCHANGED said
        /\ session' = IF HasSession /\ session.task = t THEN Cancelled(session, why) ELSE session
    BY <1>4 DEF OnCancel
  <2>2. HasSession /\ session.task = t =>
          /\ session'.task = session.task /\ session'.point = session.point
          /\ session'.worker = session.worker /\ (AtWork(session') <=> AtWork(session))
    BY <1>0, <2>1, CancelledSession
  <2> QED
    BY <2>1, <2>2, SessionLatched DEF Drained
<1>5. ASSUME NEW late \in BOOLEAN, Tick(late) PROVE Latched
  <2>1. HasSession /\ Faulty(session)
    BY <1>0, <1>5 DEF Tick
  <2>2. SessionGoesOn
    BY <1>5, <2>1, TickOutcome DEF PointFollows, SessionEnds
  <2>3. \A t \in Tasks : Drained(t)' => Drained(t)
    BY <2>2 DEF SessionGoesOn, Remarks, Drained
  <2>4. /\ locked' /\ session'.task = session.task /\ session'.point = session.point
        /\ session.worker = "none" => session'.worker = "none"
        /\ AtWork(session') => AtWork(session)
    BY <2>1, <2>2 DEF SessionGoesOn
  <2> QED
    BY <2>1, <2>3, <2>4, SessionLatched
<1>6. CASE OnWorkerFault \/ TickRaises \/ SessionEvent \/ Shutdown
  <2>1. /\ UNCHANGED said
        /\ \/ \E reason \in {"known", "unknown"} : Fails(reason)
           \/ UNCHANGED <<locked, session>>
    BY <1>6 DEF OnWorkerFault, TickRaises, SessionEvent, Shutdown
  <2> QED
    BY <1>1, <1>2, <2>1 DEF Drained
<1>7. CASE Observer \/ Worker \/ ShutdownEnds
  <2>1. HasSession /\ session \in Sessions /\ UNCHANGED <<said, locked>>
    BY <1>0, <1>7 DEF Observer, Worker, ShutdownEnds, processFrame, SessionInv
  <2>2. /\ session'.task = session.task /\ session'.point = session.point
        /\ session.worker = "none" => session'.worker = "none"
        /\ AtWork(session') => AtWork(session)
    BY <1>7, <2>1, ProcessesSession DEF SameRequest
  <2> QED
    BY <2>1, <2>2, SessionLatched DEF Drained
<1>8. CASE \/ RequestLost \/ MapVerified
           \/ PublishSearchRequest \/ InvalidateSearchRequest \/ BarrierEvent
           \/ CoordinatorRestarts
           \/ UNCHANGED vars
  BY <1>1, <1>8 DEF RequestLost, MapVerified, PublishSearchRequest, InvalidateSearchRequest,
                    Invalidate, BarrierEvent, CoordinatorRestarts, coordFrame, runtime, vars
<1> QED
  BY <1>3, <1>4, <1>5, <1>6, <1>7, <1>8 DEF Next

\* A runtime that found a fault never searches again, whatever handler found
\* it, for any number of requests and points.
THEOREM FaultsStayLatched == Spec => FaultsLatch
<1>1. SessionInv /\ SessionInv' /\ [Next]_vars => [locked => Latched]_vars
  BY StepLatches
<1> QED
  BY <1>1, SessionInductive, PTL DEF Spec, FaultsLatch, Latched
=============================================================================
