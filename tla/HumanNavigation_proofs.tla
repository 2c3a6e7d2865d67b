----------------------- MODULE HumanNavigation_proofs -----------------------
(***************************************************************************)
(* The human navigation controller, for all values of its limits, and the  *)
(* sentences it makes, for every scene.                                    *)
(*                                                                         *)
(* GuidanceWithinBudget counts the automatic messages in the queue. What   *)
(* keeps the count is that there is at most one: BudgetInv says so, and    *)
(* that its place is still free. TalkInv adds what the node knows of the   *)
(* avatar's speech, of the completion and of the announced grace, from     *)
(* which the order of what it says follows.                                *)
(*                                                                         *)
(* The sentences choose minima over the furniture or the objects.          *)
(* FirstLeastIsIn shows once that there is one to choose, from the         *)
(* well-founded order of the naturals: the object and the destination are  *)
(* then never said to be on the same thing, what the object is said to be  *)
(* on is below it, and the object named as near has a name of its own.     *)
(***************************************************************************)
EXTENDS HumanNavigation, GuidancePhrases, FiniteSetTheorems, WellFoundedInduction, TLAPS

\* A queue that can be sent to its end, n messages and a automatic ones
\* having been sent before.
Fits(q, n, a) ==
  /\ q \in Seq(Guidances)
  /\ n + Len(q) <= MAX_GUIDANCE_COUNT
  /\ \A i, j \in 1 .. Len(q) :
        q[i].priority = Automatic /\ q[j].priority = Automatic => i = j
  /\ \A i \in 1 .. Len(q) : q[i].priority = Automatic => a < MAX_AUTOMATIC_GUIDANCE_COUNT

Counts ==
  /\ sent \in 0 .. MAX_GUIDANCE_COUNT
  /\ autoSent \in 0 .. MAX_AUTOMATIC_GUIDANCE_COUNT

BudgetInv == Counts /\ Fits(queue, sent, autoSent)

-----------------------------------------------------------------------------
(* The queue.                                                              *)

\* How many automatic messages wait is a number.
LEMMA QueuedNat ==
  ASSUME NEW q \in Seq(Guidances), NEW p
  PROVE  Queued(q, p) \in Nat
<1> DEFINE S == {i \in 1 .. Len(q) : q[i].priority = p}
<1>1. IsFiniteSet(1 .. Len(q))
  BY FS_Interval
<1>2. IsFiniteSet(S)
  BY <1>1, FS_Subset
<1> QED
  BY <1>2, FS_CardinalityType DEF Queued

\* An empty queue fits.
LEMMA EmptyFits ==
  ASSUME Counts
  PROVE  Fits(<<>>, sent, autoSent)
BY GuidanceAssumption DEF Counts, Fits

\* The elements of a concatenation.
LEMMA Joined ==
  ASSUME NEW S, NEW s \in Seq(S), NEW t \in Seq(S)
  PROVE  /\ s \o t \in Seq(S) /\ Len(s \o t) = Len(s) + Len(t)
         /\ \A i \in 1 .. Len(s) + Len(t) : (s \o t)[i] = IF i <= Len(s) THEN s[i] ELSE t[i - Len(s)]
OBVIOUS

\* The elements of a part of a sequence.
LEMMA Part ==
  ASSUME NEW S, NEW q \in Seq(S), NEW m \in 1 .. Len(q) + 1, NEW n \in m - 1 .. Len(q)
  PROVE  /\ SubSeq(q, m, n) \in Seq(S) /\ Len(SubSeq(q, m, n)) = n - m + 1
         /\ \A i \in 1 .. n - m + 1 : SubSeq(q, m, n)[i] = q[m + i - 1]
OBVIOUS

\* What inserting does to a queue.
LEMMA InsertedQueue ==
  ASSUME NEW q \in Seq(Guidances), NEW g \in Guidances, NEW r \in Inserted(q, g)
  PROVE  /\ r \in Seq(Guidances) /\ Len(r) = Len(q) + 1
         /\ \E k \in 0 .. Len(q) :
               \A i \in 1 .. Len(r) :
                  r[i] = IF i <= k THEN q[i] ELSE IF i = k + 1 THEN g ELSE q[i - 1]
<1>1. PICK k \in 0 .. Len(q) : r = SubSeq(q, 1, k) \o <<g>> \o SubSeq(q, k + 1, Len(q))
  BY DEF Inserted
<1> DEFINE s == SubSeq(q, 1, k)
           u == s \o <<g>>
           t == SubSeq(q, k + 1, Len(q))
<1>2. s \in Seq(Guidances) /\ Len(s) = k /\ \A i \in 1 .. k : s[i] = q[i]
  BY Part, 1 \in 1 .. Len(q) + 1, k \in 1 - 1 .. Len(q)
<1>3. t \in Seq(Guidances) /\ Len(t) = Len(q) - k /\ \A i \in 1 .. Len(q) - k : t[i] = q[k + i]
  BY Part, k + 1 \in 1 .. Len(q) + 1, Len(q) \in (k + 1) - 1 .. Len(q)
<1>4. <<g>> \in Seq(Guidances) /\ Len(<<g>>) = 1 /\ <<g>>[1] = g
  OBVIOUS
<1> HIDE DEF s, t
<1>5. /\ u \in Seq(Guidances) /\ Len(u) = k + 1
      /\ \A i \in 1 .. k + 1 : u[i] = IF i <= k THEN q[i] ELSE g
  BY <1>2, <1>4, Joined
<1> HIDE DEF u
<1>6. /\ u \o t \in Seq(Guidances) /\ Len(u \o t) = Len(q) + 1
      /\ \A i \in 1 .. Len(q) + 1 : (u \o t)[i] = IF i <= k + 1 THEN u[i] ELSE t[i - (k + 1)]
  BY <1>3, <1>5, Joined
<1>7. r = u \o t
  BY <1>1 DEF s, t, u
<1>8. \A i \in 1 .. Len(r) :
         r[i] = IF i <= k THEN q[i] ELSE IF i = k + 1 THEN g ELSE q[i - 1]
  <2> TAKE i \in 1 .. Len(r)
  <2>1. CASE i <= k + 1
    BY <1>5, <1>6, <1>7, <2>1
  <2>2. CASE i > k + 1
    <3>1. i - (k + 1) \in 1 .. Len(q) - k /\ k + (i - (k + 1)) = i - 1
      BY <1>6, <1>7, <2>2
    <3> QED
      BY <1>3, <1>6, <1>7, <2>2, <3>1
  <2> QED
    BY <2>1, <2>2, <1>6, <1>7
<1> QED
  BY <1>6, <1>7, <1>8

\* What evicting does to a queue.
LEMMA EvictedQueue ==
  ASSUME NEW q \in Seq(Guidances), NEW g \in Guidances, NEW r \in Evicted(q, g)
  PROVE  /\ r \in Seq(Guidances) /\ Len(r) = Len(q) - 1
         /\ \E k \in 1 .. Len(q) :
               \A i \in 1 .. Len(r) : r[i] = IF i < k THEN q[i] ELSE q[i + 1]
<1>1. PICK k \in 1 .. Len(q) : r = SubSeq(q, 1, k - 1) \o SubSeq(q, k + 1, Len(q))
  BY DEF Evicted
<1> DEFINE s == SubSeq(q, 1, k - 1)
           t == SubSeq(q, k + 1, Len(q))
<1>2. s \in Seq(Guidances) /\ Len(s) = k - 1 /\ \A i \in 1 .. k - 1 : s[i] = q[i]
  BY Part, 1 \in 1 .. Len(q) + 1, k - 1 \in 1 - 1 .. Len(q)
<1>3. t \in Seq(Guidances) /\ Len(t) = Len(q) - k /\ \A i \in 1 .. Len(q) - k : t[i] = q[k + i]
  BY Part, k + 1 \in 1 .. Len(q) + 1, Len(q) \in (k + 1) - 1 .. Len(q)
<1> HIDE DEF s, t
<1>4. /\ s \o t \in Seq(Guidances) /\ Len(s \o t) = Len(q) - 1
      /\ \A i \in 1 .. Len(q) - 1 : (s \o t)[i] = IF i <= k - 1 THEN s[i] ELSE t[i - (k - 1)]
  <2>1. Len(s) + Len(t) = Len(q) - 1
    BY <1>2, <1>3
  <2>2. /\ s \o t \in Seq(Guidances) /\ Len(s \o t) = Len(s) + Len(t)
        /\ \A i \in 1 .. Len(s) + Len(t) : (s \o t)[i] = IF i <= Len(s) THEN s[i] ELSE t[i - Len(s)]
    BY <1>2, <1>3, Joined
  <2> QED
    BY <2>1, <2>2, <1>2
<1>5. r = s \o t
  BY <1>1 DEF s, t
<1>6. \A i \in 1 .. Len(r) : r[i] = IF i < k THEN q[i] ELSE q[i + 1]
  <2> TAKE i \in 1 .. Len(r)
  <2>1. CASE i < k
    BY <1>2, <1>4, <1>5, <2>1
  <2>2. CASE i >= k
    <3>1. i - (k - 1) \in 1 .. Len(q) - k /\ k + (i - (k - 1)) = i + 1
      BY <1>4, <1>5, <2>2
    <3> QED
      BY <1>3, <1>4, <1>5, <2>2, <3>1
  <2> QED
    BY <2>1, <2>2, <1>4, <1>5
<1> QED
  BY <1>4, <1>5, <1>6

\* An inserted message takes a place that is free; an automatic one is alone.
LEMMA InsertedFits ==
  ASSUME Counts, NEW q, Fits(q, sent, autoSent), sent + Len(q) < MAX_GUIDANCE_COUNT,
         NEW g \in Guidances, NEW r \in Inserted(q, g),
         g.priority = Automatic =>
           /\ autoSent < MAX_AUTOMATIC_GUIDANCE_COUNT
           /\ \A i \in 1 .. Len(q) : q[i].priority # Automatic
  PROVE  Fits(r, sent, autoSent)
<1>0. q \in Seq(Guidances)
  BY DEF Fits
<1>1. r \in Seq(Guidances) /\ Len(r) = Len(q) + 1
  BY <1>0, InsertedQueue
<1>2. PICK k \in 0 .. Len(q) :
         \A i \in 1 .. Len(r) :
            r[i] = IF i <= k THEN q[i] ELSE IF i = k + 1 THEN g ELSE q[i - 1]
  BY <1>0, InsertedQueue
<1>3. sent + Len(r) <= MAX_GUIDANCE_COUNT
  BY <1>0, <1>1, GuidanceAssumption DEF Counts
<1>4. \A i, j \in 1 .. Len(r) :
         r[i].priority = Automatic /\ r[j].priority = Automatic => i = j
  <2> DEFINE place(i) == IF i <= k THEN i ELSE i - 1
  <2>1. \A i \in 1 .. Len(r) : i # k + 1 => place(i) \in 1 .. Len(q) /\ r[i] = q[place(i)]
    BY <1>0, <1>1, <1>2
  <2>2. \A i \in 1 .. Len(r) : i = k + 1 => r[i] = g
    BY <1>0, <1>1, <1>2
  <2>3. \A i, j \in 1 .. Len(r) : i # k + 1 /\ j # k + 1 /\ place(i) = place(j) => i = j
    BY <1>0, <1>1
  <2> HIDE DEF place
  <2>4. CASE g.priority = Automatic
    BY <2>1, <2>2, <2>4
  <2>5. CASE g.priority # Automatic
    BY <2>1, <2>2, <2>3, <2>5 DEF Fits
  <2> QED
    BY <2>4, <2>5
<1>5. \A i \in 1 .. Len(r) : r[i].priority = Automatic => autoSent < MAX_AUTOMATIC_GUIDANCE_COUNT
  <2>1. \A i \in 1 .. Len(r) : r[i] = g \/ \E j \in 1 .. Len(q) : r[i] = q[j]
    <3> TAKE i \in 1 .. Len(r)
    <3>1. CASE i <= k
      BY <1>0, <1>2, <3>1
    <3>2. CASE i > k + 1
      BY <1>0, <1>1, <1>2, <3>2, i - 1 \in 1 .. Len(q)
    <3> QED
      BY <1>0, <1>2, <3>1, <3>2
  <2> QED
    BY <2>1 DEF Fits
<1> QED
  BY <1>1, <1>3, <1>4, <1>5 DEF Fits

\* What is left after an eviction fits, and one more has room.
LEMMA EvictedFits ==
  ASSUME Counts, NEW q, Fits(q, sent, autoSent), NEW g \in Guidances, NEW r \in Evicted(q, g)
  PROVE  /\ Fits(r, sent, autoSent) /\ sent + Len(r) < MAX_GUIDANCE_COUNT
         /\ (\A i \in 1 .. Len(q) : q[i].priority # Automatic)
            => \A i \in 1 .. Len(r) : r[i].priority # Automatic
<1>0. q \in Seq(Guidances)
  BY DEF Fits
<1>1. r \in Seq(Guidances) /\ Len(r) = Len(q) - 1
  BY <1>0, EvictedQueue
<1>2. PICK k \in 1 .. Len(q) :
         \A i \in 1 .. Len(r) : r[i] = IF i < k THEN q[i] ELSE q[i + 1]
  BY <1>0, EvictedQueue
<1>3. sent + Len(r) < MAX_GUIDANCE_COUNT
  BY <1>0, <1>1, GuidanceAssumption DEF Counts, Fits
<1>4. \A i, j \in 1 .. Len(r) :
         r[i].priority = Automatic /\ r[j].priority = Automatic => i = j
  <2> DEFINE place(i) == IF i < k THEN i ELSE i + 1
  <2>1. \A i \in 1 .. Len(r) : place(i) \in 1 .. Len(q)
    BY <1>0, <1>1
  <2>2. \A i \in 1 .. Len(r) : r[i] = q[place(i)]
    BY <1>2
  <2>3. \A i, j \in 1 .. Len(r) : place(i) = place(j) => i = j
    BY <1>0, <1>1
  <2> HIDE DEF place
  <2> QED
    BY <2>1, <2>2, <2>3 DEF Fits
<1>5. \A i \in 1 .. Len(r) : \E j \in 1 .. Len(q) : r[i] = q[j]
  <2> TAKE i \in 1 .. Len(r)
  <2>1. i \in 1 .. Len(q) /\ i + 1 \in 1 .. Len(q)
    BY <1>0, <1>1
  <2> QED
    BY <1>2, <2>1
<1> QED
  BY <1>1, <1>3, <1>4, <1>5, GuidanceAssumption DEF Fits, Counts

\* Whatever queueGuidance is given, a queue that fits still does.
LEMMA QueueGuidanceFits ==
  ASSUME Counts, NEW q, Fits(q, sent, autoSent), NEW g \in Guidances, NEW r \in QueueGuidance(q, g)
  PROVE  Fits(r, sent, autoSent)
<1>0. q \in Seq(Guidances)
  BY DEF Fits
<1>1. CASE Refused(q, g) \/ Renewed(q, g)
  BY <1>1 DEF QueueGuidance
<1>2. CASE ~Refused(q, g) /\ ~Renewed(q, g)
  <2>1. g.priority = Automatic =>
          /\ autoSent < MAX_AUTOMATIC_GUIDANCE_COUNT
          /\ \A i \in 1 .. Len(q) : q[i].priority # Automatic
    BY <1>0, <1>2, QueuedNat, GuidanceAssumption DEF Refused, Renewed, Counts
  <2>2. CASE Room(q)
    <3>1. r \in Inserted(q, g)
      BY <1>2, <2>2 DEF QueueGuidance
    <3>2. sent + Len(q) < MAX_GUIDANCE_COUNT
      BY <1>0, <2>2, GuidanceAssumption DEF Room, Counts
    <3> QED
      BY <2>1, <3>1, <3>2, InsertedFits
  <2>3. CASE ~Room(q) /\ Evicted(q, g) # {}
    <3>1. PICK e \in Evicted(q, g) : r \in Inserted(e, g)
      BY <1>2, <2>3 DEF QueueGuidance
    <3>2. /\ Fits(e, sent, autoSent) /\ sent + Len(e) < MAX_GUIDANCE_COUNT
          /\ g.priority = Automatic => \A i \in 1 .. Len(e) : e[i].priority # Automatic
      BY <2>1, EvictedFits
    <3> QED
      BY <2>1, <3>1, <3>2, InsertedFits
  <2>4. CASE ~Room(q) /\ Evicted(q, g) = {}
    BY <1>2, <2>4 DEF QueueGuidance
  <2> QED
    BY <2>2, <2>3, <2>4
<1> QED
  BY <1>1, <1>2

\* The guidance the steps and callbacks queue is guidance.
LEMMA GuideType ==
  /\ \A p \in Automatic .. Error : Guide(p) \in Guidances
  /\ TaskCompleted \in Guidances
  /\ Automatic \in Automatic .. Error /\ Requested \in Automatic .. Error
  /\ Transition \in Automatic .. Error /\ Error \in Automatic .. Error
BY DEF Guide, TaskCompleted, Guidances, Automatic, Requested, Transition, Error

\* A message to an empty queue leaves one that fits.
LEMMA ReplacedFits ==
  ASSUME Counts, NEW p \in Automatic .. Error, NEW r \in QueueGuidance(<<>>, Guide(p))
  PROVE  Fits(r, sent, autoSent)
BY EmptyFits, GuideType, QueueGuidanceFits

-----------------------------------------------------------------------------
(* The steps. *)

\* A queue that has fitted still does while nothing is sent.
LEMMA Kept ==
  ASSUME Counts, UNCHANGED <<sent, autoSent>>, Fits(queue', sent, autoSent)
  PROVE  BudgetInv'
BY DEF Counts, BudgetInv, Fits

\* A session begins with empty counts.
LEMMA ResetBudget ==
  ASSUME Reset
  PROVE  BudgetInv'
BY GuidanceAssumption DEF Reset, BudgetInv, Counts, Fits

\* The completion message takes a place too, or is not queued.
LEMMA FinishBudget ==
  ASSUME BudgetInv, FinishWithCompletionGuidance, UNCHANGED <<sent, autoSent>>
  PROVE  BudgetInv'
<1>1. CASE finished
  BY <1>1, Kept DEF FinishWithCompletionGuidance, BudgetInv
<1>2. CASE ~finished
  <2>1. queue' \in QueueGuidance(<<>>, TaskCompleted)
    BY <1>2 DEF FinishWithCompletionGuidance
  <2>2. Fits(queue', sent, autoSent)
    BY <2>1, EmptyFits, GuideType, QueueGuidanceFits DEF BudgetInv
  <2> QED
    BY <2>2, Kept DEF BudgetInv
<1> QED
  BY <1>1, <1>2

\* What a round says has had its place: a message is no longer in the queue
\* when it is counted.
LEMMA RoundBudget ==
  ASSUME BudgetInv, NEW q, Fits(q, sent, autoSent),
         SayGuidance(q) \/ AskSpeechState(q) \/ SilenceGuidance(q) \/ KeepGuidance(q)
  PROVE  BudgetInv'
<1>1. CASE SayGuidance(q)
  <2>1. q \in Seq(Guidances) /\ q # <<>> /\ sent < MAX_GUIDANCE_COUNT
    BY <1>1 DEF SayGuidance, HasMessage, Fits
  <2>2. Len(q) \in Nat /\ Len(q) > 0 /\ Head(q) = q[1]
    BY <2>1
  <2>3. /\ Tail(q) \in Seq(Guidances) /\ Len(Tail(q)) = Len(q) - 1
        /\ \A i \in 1 .. Len(q) - 1 : Tail(q)[i] = q[i + 1]
    BY <2>1
  <2>4. sent' = sent + 1 /\ autoSent' = IF q[1].priority = Automatic THEN autoSent + 1 ELSE autoSent
    BY <1>1, <2>2 DEF SayGuidance
  <2>5. Counts'
    <3>1. q[1].priority = Automatic => autoSent < MAX_AUTOMATIC_GUIDANCE_COUNT
      BY <2>2 DEF Fits
    <3> QED
      BY <2>1, <2>4, <3>1, GuidanceAssumption DEF BudgetInv, Counts
  <2>6. CASE completing
    <3>1. queue' = <<>>
      BY <1>1, <2>6 DEF SayGuidance
    <3>2. Len(<<>>) = 0 /\ <<>> \in Seq(Guidances) /\ sent' <= MAX_GUIDANCE_COUNT /\ sent' \in Nat
      BY <2>5, GuidanceAssumption DEF Counts
    <3> QED
      BY <2>5, <3>1, <3>2 DEF BudgetInv, Fits
  <2>7. CASE ~completing
    <3>1. queue' = Tail(q)
      BY <1>1, <2>7 DEF SayGuidance
    <3>2. sent' + Len(queue') <= MAX_GUIDANCE_COUNT
      BY <2>2, <2>3, <2>4, <3>1, GuidanceAssumption DEF BudgetInv, Counts, Fits
    <3>3. \A i \in 1 .. Len(q) - 1 : i + 1 \in 1 .. Len(q) /\ i + 1 # 1 /\ 1 \in 1 .. Len(q)
      BY <2>2
    <3>4. \A i, j \in 1 .. Len(q) - 1 :
             Tail(q)[i].priority = Automatic /\ Tail(q)[j].priority = Automatic => i = j
      BY <2>2, <2>3, <3>3 DEF Fits
    <3>5. \A i \in 1 .. Len(q) - 1 :
             Tail(q)[i].priority = Automatic => autoSent' < MAX_AUTOMATIC_GUIDANCE_COUNT
      <4> TAKE i \in 1 .. Len(q) - 1
      <4> HAVE Tail(q)[i].priority = Automatic
      <4>1. q[i + 1].priority = Automatic
        BY <2>3
      <4>2. q[1].priority # Automatic /\ autoSent < MAX_AUTOMATIC_GUIDANCE_COUNT
        BY <3>3, <4>1 DEF Fits
      <4> QED
        BY <2>4, <4>2
    <3> QED
      BY <2>3, <2>5, <3>1, <3>2, <3>4, <3>5 DEF BudgetInv, Fits
  <2> QED
    BY <2>6, <2>7
<1>2. CASE AskSpeechState(q) \/ KeepGuidance(q)
  <2>1. queue' = q /\ UNCHANGED <<sent, autoSent>>
    BY <1>2 DEF AskSpeechState, KeepGuidance
  <2> QED
    BY <2>1, Kept DEF BudgetInv
<1>3. CASE SilenceGuidance(q)
  <2>1. queue' = <<>> /\ UNCHANGED <<sent, autoSent>>
    BY <1>3 DEF SilenceGuidance
  <2> QED
    BY <2>1, EmptyFits, Kept DEF BudgetInv
<1> QED
  BY <1>1, <1>2, <1>3

\* A round of the loop keeps the invariant.
LEMMA LoopBudget ==
  ASSUME BudgetInv, Loop
  PROVE  BudgetInv'
<1>1. CASE ForwardRound \/ QuietRound
  <2>1. PICK q \in Queues : SayGuidance(q) \/ AskSpeechState(q) \/ SilenceGuidance(q) \/ KeepGuidance(q)
    BY <1>1 DEF ForwardRound, QuietRound
  <2>2. Fits(q, sent, autoSent)
    BY GuideType, ReplacedFits DEF Queues, BudgetInv
  <2> QED
    BY <2>1, <2>2, RoundBudget
<1>2. CASE StepPass
  <2>1. CASE Initialize
    BY <2>1, ResetBudget DEF Initialize
  <2>2. CASE Ready \/ WaitTaskInfo \/ GuidePass
    <3>1. UNCHANGED <<queue, sent, autoSent>>
      BY <2>2 DEF Ready, WaitTaskInfo, GuidePass, guidance
    <3> QED
      BY <3>1, Kept DEF BudgetInv
  <2>3. CASE GuideForTakingObject
    <3> DEFINE wrong    == cached \in {"unflagged", "other"}
               released == placing.wrongHold /\ ~wrong
               Before   == IF released THEN QueueGuidance(<<>>, Guide(Transition)) ELSE {queue}
    <3>1. UNCHANGED <<sent, autoSent>>
      BY <2>3 DEF GuideForTakingObject
    <3>2. PICK q \in Before :
             \/ queue' = q
             \/ \E p \in Automatic .. Error : queue' \in QueueGuidance(q, Guide(p))
      BY <2>3, GuideType DEF GuideForTakingObject
    <3>3. Fits(q, sent, autoSent)
      BY GuideType, ReplacedFits DEF BudgetInv
    <3>4. Fits(queue', sent, autoSent)
      BY <3>2, <3>3, GuideType, QueueGuidanceFits DEF BudgetInv
    <3> QED
      BY <3>1, <3>4, Kept DEF BudgetInv
  <2> QED
    BY <1>2, <2>1, <2>2, <2>3 DEF StepPass
<1> QED
  BY <1>1, <1>2 DEF Loop

\* The callback queues up to three messages, one after the other.
LEMMA AvatarStatusBudget ==
  ASSUME BudgetInv, NEW h, ReadAvatarStatus(h)
  PROVE  BudgetInv'
<1>1. UNCHANGED <<sent, autoSent>>
  BY DEF ReadAvatarStatus
<1>2. PICK r \in IF step = "GuideForPlacement" THEN Reactions(h)
                  ELSE {[placing |-> placing, says |-> {}]} :
         \E q1 \in IF r.says = {} THEN {queue}
                    ELSE UNION {QueueGuidance(<<>>, Guide(p)) : p \in r.says} :
         \E q2 \in IF awaiting /\ ~r.placing.locked THEN QueueGuidance(q1, Guide(Requested))
                    ELSE {q1} :
            queue' = q2 \/ queue' \in QueueGuidance(q2, Guide(Automatic))
  BY DEF ReadAvatarStatus
<1>3. r.says \subseteq Automatic .. Error
  BY <1>2, GuideType DEF Reactions
<1>4. PICK q1 \in IF r.says = {} THEN {queue}
                   ELSE UNION {QueueGuidance(<<>>, Guide(p)) : p \in r.says} :
         \E q2 \in IF awaiting /\ ~r.placing.locked THEN QueueGuidance(q1, Guide(Requested))
                    ELSE {q1} :
            queue' = q2 \/ queue' \in QueueGuidance(q2, Guide(Automatic))
  BY <1>2
<1>5. Fits(q1, sent, autoSent)
  BY <1>3, <1>4, ReplacedFits DEF BudgetInv
<1>6. PICK q2 \in IF awaiting /\ ~r.placing.locked THEN QueueGuidance(q1, Guide(Requested))
                   ELSE {q1} :
         queue' = q2 \/ queue' \in QueueGuidance(q2, Guide(Automatic))
  BY <1>4
<1>7. Fits(q2, sent, autoSent)
  BY <1>5, <1>6, GuideType, QueueGuidanceFits DEF BudgetInv
<1>8. Fits(queue', sent, autoSent)
  BY <1>6, <1>7, GuideType, QueueGuidanceFits DEF BudgetInv
<1> QED
  BY <1>1, <1>8, Kept DEF BudgetInv

\* So do the callbacks.
LEMMA CallbackBudget ==
  ASSUME BudgetInv, Callback
  PROVE  BudgetInv'
<1>1. CASE ReadMessage
  <2>1. CASE FinishWithCompletionGuidance /\ UNCHANGED <<sent, autoSent>>
    BY <2>1, FinishBudget
  <2>2. CASE Reset
    BY <2>2, ResetBudget
  <2>3. CASE UNCHANGED <<queue, sent, autoSent>>
    BY <2>3, Kept DEF BudgetInv
  <2> QED
    BY <1>1, <2>1, <2>2, <2>3 DEF ReadMessage, OnMessage, guidance
<1>2. CASE ReadSpeechState \/ ReadTaskInfo
  <2>1. UNCHANGED <<queue, sent, autoSent>>
    BY <1>2 DEF ReadSpeechState, ReadTaskInfo, guidance
  <2> QED
    BY <2>1, Kept DEF BudgetInv
<1>3. CASE ReadObjectStatus
  <2>1. UNCHANGED <<sent, autoSent>>
    BY <1>3 DEF ReadObjectStatus
  <2>2. CASE UNCHANGED queue
    BY <2>1, <2>2, Kept DEF BudgetInv
  <2>3. CASE FinishWithCompletionGuidance
    BY <2>1, <2>3, FinishBudget
  <2>4. CASE \E p \in Automatic .. Error : queue' \in QueueGuidance(<<>>, Guide(p))
    BY <2>1, <2>4, ReplacedFits, Kept DEF BudgetInv
  <2> QED
    BY <1>3, <2>2, <2>3, <2>4, GuideType DEF ReadObjectStatus, LockPlacementGuidance
<1>4. CASE \E h \in Reported : ReadAvatarStatus(h)
  <2>1. ASSUME NEW h \in Reported, ReadAvatarStatus(h)
        PROVE  BudgetInv'
    BY <2>1, AvatarStatusBudget
  <2> QED
    BY <1>4, <2>1
<1> QED
  BY <1>1, <1>2, <1>3, <1>4 DEF Callback

\* The surroundings do not touch the queue.
LEMMA SurroundingsBudget ==
  ASSUME BudgetInv, Surroundings
  PROVE  BudgetInv'
<1>1. UNCHANGED <<queue, sent, autoSent>>
  BY DEF Surroundings, Lose, EndSpeech, TakeObject, PutObject, AskReady, StartTask,
     RequestGuidance, EndTask, NextSession, moderatorFrame, node, guidance
<1> QED
  BY <1>1, Kept DEF BudgetInv

\* At most one automatic message, which has its place, is what the limit needs.
LEMMA BudgetCounted ==
  ASSUME BudgetInv
  PROVE  GuidanceWithinBudget
<1> DEFINE S == {i \in 1 .. Len(queue) : queue[i].priority = Automatic}
<1>1. CASE S = {}
  <2>1. Cardinality(S) = 0
    BY <1>1, FS_EmptySet
  <2> QED
    BY <2>1, GuidanceAssumption DEF BudgetInv, Counts, Fits, GuidanceWithinBudget, Queued
<1>2. CASE S # {}
  <2>1. PICK i \in S : S = {i}
    BY <1>2 DEF BudgetInv, Fits
  <2>2. Cardinality(S) = 1
    BY <2>1, FS_Singleton
  <2>3. autoSent < MAX_AUTOMATIC_GUIDANCE_COUNT
    BY <2>1 DEF BudgetInv, Fits
  <2> QED
    BY <2>2, <2>3, GuidanceAssumption DEF BudgetInv, Counts, Fits, GuidanceWithinBudget, Queued
<1> QED
  BY <1>1, <1>2

\* Whatever the limits are, and whatever is queued, replaced, evicted and sent
\* in any number of sessions: no message waits without a place, and neither
\* limit is exceeded (queueGuidance, processGuidanceQueue).
THEOREM WithinBudget == Spec => []GuidanceWithinBudget
<1>1. Init => BudgetInv
  BY GuidanceAssumption DEF Init, BudgetInv, Counts, Fits
<1>2. BudgetInv /\ [Next]_vars => BudgetInv'
  <2> SUFFICES ASSUME BudgetInv, [Next]_vars
               PROVE  BudgetInv'
    OBVIOUS
  <2>1. CASE Next
    BY <2>1, LoopBudget, CallbackBudget, SurroundingsBudget DEF Next
  <2>2. CASE UNCHANGED vars
    BY <2>2, Kept DEF vars, node, guidance, BudgetInv
  <2> QED
    BY <2>1, <2>2
<1>3. BudgetInv => GuidanceWithinBudget
  BY BudgetCounted
<1> QED
  BY <1>1, <1>2, <1>3, PTL DEF Spec

-----------------------------------------------------------------------------
(* What is said, and when.                                                 *)

Plain(q) == \A i \in 1 .. Len(q) : ~q[i].completes

\* The invariant of what is said and when: with its three parts, the types and
\* the budget, which bounds the queue.
TalkInv == /\ BudgetInv /\ HumanNavigationTypeOK
           /\ SpeechIsKnown /\ CompletionIsAlone

\* A guide is no completion message.
LEMMA GuidePlain ==
  \A p \in Automatic .. Error : ~Guide(p).completes /\ Guide(p).priority = p
BY DEF Guide

\* What queueGuidance returns: nothing new once the task is over, and what it
\* is given has a place unless the limit is reached.
LEMMA QueueGuidanceEffect ==
  ASSUME Counts, NEW q \in Seq(Guidances), NEW g \in Guidances, NEW r \in QueueGuidance(q, g)
  PROVE  /\ r \in Seq(Guidances)
         /\ finished => r = q
         /\ Plain(q) /\ ~g.completes => Plain(r)
         /\ q # <<>> => r # <<>>
         /\ ~finished /\ sent < MAX_GUIDANCE_COUNT /\ g.priority # Automatic => r # <<>>
<1>1. ASSUME NEW e \in Seq(Guidances), r \in Inserted(e, g), Plain(q) => Plain(e)
      PROVE  r \in Seq(Guidances) /\ r # <<>> /\ (Plain(q) /\ ~g.completes => Plain(r))
  <2>1. r \in Seq(Guidances) /\ Len(r) = Len(e) + 1
    BY <1>1, InsertedQueue
  <2>2. PICK k \in 0 .. Len(e) :
           \A i \in 1 .. Len(r) :
              r[i] = IF i <= k THEN e[i] ELSE IF i = k + 1 THEN g ELSE e[i - 1]
    BY <1>1, InsertedQueue
  <2>3. \A i \in 1 .. Len(r) : r[i] = g \/ \E j \in 1 .. Len(e) : r[i] = e[j]
    <3> TAKE i \in 1 .. Len(r)
    <3>1. CASE i <= k
      BY <2>2, <3>1
    <3>2. CASE i > k + 1
      BY <2>1, <2>2, <3>2, i - 1 \in 1 .. Len(e)
    <3> QED
      BY <2>2, <3>1, <3>2
  <2>4. r # <<>>
    BY <2>1
  <2> QED
    BY <1>1, <2>1, <2>3, <2>4 DEF Plain
<1>2. ASSUME NEW e \in Evicted(q, g)
      PROVE  e \in Seq(Guidances) /\ (Plain(q) => Plain(e))
  <2>1. e \in Seq(Guidances) /\ Len(e) = Len(q) - 1
    BY EvictedQueue
  <2>2. PICK k \in 1 .. Len(q) : \A i \in 1 .. Len(e) : e[i] = IF i < k THEN q[i] ELSE q[i + 1]
    BY EvictedQueue
  <2>3. \A i \in 1 .. Len(e) : \E j \in 1 .. Len(q) : e[i] = q[j]
    <3> TAKE i \in 1 .. Len(e)
    <3>1. i \in 1 .. Len(q) /\ i + 1 \in 1 .. Len(q)
      BY <2>1
    <3> QED
      BY <2>2, <3>1
  <2> QED
    BY <2>1, <2>3 DEF Plain
<1>3. CASE Refused(q, g) \/ Renewed(q, g)
  <2>1. r = q
    BY <1>3 DEF QueueGuidance
  <2>2. q = <<>> => ~Renewed(q, g)
    BY DEF Renewed
  <2>3. ~finished /\ sent < MAX_GUIDANCE_COUNT /\ g.priority # Automatic => ~Refused(q, g)
    BY GuidanceAssumption DEF Refused, Counts
  <2> QED
    BY <1>3, <2>1, <2>2, <2>3
<1>4. CASE ~Refused(q, g) /\ ~Renewed(q, g)
  <2>1. ~finished /\ sent < MAX_GUIDANCE_COUNT
    BY <1>4, GuidanceAssumption DEF Refused, Counts
  <2>2. CASE Room(q)
    BY <1>1, <1>4, <2>1, <2>2 DEF QueueGuidance
  <2>3. CASE ~Room(q) /\ Evicted(q, g) # {}
    <3>1. PICK e \in Evicted(q, g) : r \in Inserted(e, g)
      BY <1>4, <2>3 DEF QueueGuidance
    <3> QED
      BY <1>1, <1>2, <2>1, <3>1
  <2>4. CASE ~Room(q) /\ Evicted(q, g) = {}
    <3>1. r = q
      BY <1>4, <2>4 DEF QueueGuidance
    <3>2. q # <<>>
      BY <2>1, <2>4, GuidanceAssumption DEF Room, Counts
    <3> QED
      BY <2>1, <3>1, <3>2
  <2> QED
    BY <2>2, <2>3, <2>4
<1> QED
  BY <1>3, <1>4

\* Alone in an empty queue, the completion message is what the queue holds.
LEMMA CompletionQueued ==
  ASSUME Counts, NEW r \in QueueGuidance(<<>>, TaskCompleted)
  PROVE  r \in {<<>>, <<TaskCompleted>>}
<1>1. <<>> \in Seq(Guidances) /\ Len(<<>>) = 0
  OBVIOUS
<1>2. ASSUME NEW e \in Seq(Guidances), Len(e) = 0, NEW g \in Guidances,
             NEW u \in Inserted(e, g)
      PROVE  u = <<g>>
  <2>1. u \in Seq(Guidances) /\ Len(u) = Len(e) + 1
    BY InsertedQueue
  <2>2. PICK k \in 0 .. Len(e) :
           \A i \in 1 .. Len(u) :
              u[i] = IF i <= k THEN e[i] ELSE IF i = k + 1 THEN g ELSE e[i - 1]
    BY InsertedQueue
  <2>3. u[1] = g
    BY <1>2, <2>1, <2>2
  <2> QED
    BY <1>2, <2>1, <2>3
<1>3. Evicted(<<>>, TaskCompleted) = {}
  BY <1>1 DEF Evicted
<1>4. \A u \in Inserted(<<>>, TaskCompleted) : u = <<TaskCompleted>>
  BY <1>1, <1>2, GuideType
<1> QED
  BY <1>3, <1>4 DEF QueueGuidance

\* How the queue goes from q to r in a step that says nothing: a task that is
\* over queues nothing new, one that is not keeps something to say.
Goes(q, r) ==
  /\ r \in Seq(Guidances)
  /\ finished => r \in {q, <<>>}
  /\ ~finished /\ Plain(q) => Plain(r)
  /\ ~finished /\ sent < MAX_GUIDANCE_COUNT /\ q # <<>> => r # <<>>

\* A plain guide is added, or it replaces the whole queue.
LEMMA GuideGoes ==
  ASSUME Counts, NEW q \in Seq(Guidances), NEW p \in Automatic .. Error
  PROVE  /\ \A r \in QueueGuidance(q, Guide(p)) : Goes(q, r)
         /\ p # Automatic => \A r \in QueueGuidance(<<>>, Guide(p)) : Goes(q, r)
<1>1. Guide(p) \in Guidances /\ ~Guide(p).completes /\ Guide(p).priority = p
  BY GuideType, GuidePlain
<1>2. <<>> \in Seq(Guidances) /\ Plain(<<>>)
  BY DEF Plain
<1> QED
  BY <1>1, <1>2, QueueGuidanceEffect DEF Goes

LEMMA GoesOn ==
  ASSUME NEW q \in Seq(Guidances), NEW r, NEW u, Goes(q, r), Goes(r, u)
  PROVE  Goes(q, u)
BY DEF Goes

\* Such a step keeps what is said in order.
LEMMA GoesKeeps ==
  ASSUME TalkInv, Goes(queue, queue'),
         UNCHANGED <<finished, sent, completing, speech, speechAsked, outdated, talking>>
  PROVE  SpeechIsKnown' /\ CompletionIsAlone'
<1>1. SpeechIsKnown'
  BY DEF TalkInv, SpeechIsKnown
<1>2. CompletionIsAlone'
  BY DEF TalkInv, CompletionIsAlone, Goes, Plain
<1> QED
  BY <1>1, <1>2

\* A session begins with nothing to say.
LEMMA ResetTalk ==
  ASSUME TalkInv, Reset
  PROVE  /\ started' \in BOOLEAN /\ informed' \in BOOLEAN /\ finished' \in BOOLEAN
         /\ cached' \in Hands /\ awaiting' \in BOOLEAN /\ placing' \in Placing
         /\ speech' \in Speeches /\ queue' \in Seq(Guidances) /\ sent' \in Nat /\ autoSent' \in Nat
         /\ completing' \in BOOLEAN
         /\ SpeechIsKnown' /\ CompletionIsAlone'
<1>1. NotPlacing \in Placing
  BY DEF NotPlacing, Placing, Checks, Names
<1>2. queue' = <<>> /\ finished' = FALSE /\ completing' = FALSE /\ speech' = "Unknown"
      /\ placing' = NotPlacing /\ sent' = 0 /\ autoSent' = 0
  BY DEF Reset
<1>3. SpeechIsKnown' /\ CompletionIsAlone'
  BY <1>1, <1>2 DEF TalkInv, SpeechIsKnown, CompletionIsAlone
<1>4. speech' \in Speeches
  BY <1>2 DEF Speeches
<1>5. queue' \in Seq(Guidances) /\ sent' \in Nat /\ autoSent' \in Nat /\ placing' \in Placing
  BY <1>1, <1>2
<1>6. /\ started' \in BOOLEAN /\ informed' \in BOOLEAN /\ finished' \in BOOLEAN
      /\ cached' \in Hands /\ awaiting' \in BOOLEAN /\ completing' \in BOOLEAN
  BY DEF Reset, Hands
<1> QED
  BY <1>3, <1>4, <1>5, <1>6

\* The end of the task leaves its completion message, or nothing.
LEMMA FinishTalk ==
  ASSUME TalkInv, FinishWithCompletionGuidance,
         UNCHANGED <<sent, speech, speechAsked, outdated, talking>>
  PROVE  /\ finished' \in BOOLEAN /\ placing' \in Placing /\ queue' \in Seq(Guidances)
         /\ completing' \in BOOLEAN
         /\ SpeechIsKnown' /\ CompletionIsAlone'
<1>1. placing \in Placing /\ queue \in Seq(Guidances) /\ completing \in BOOLEAN /\ finished \in BOOLEAN
  BY DEF TalkInv, HumanNavigationTypeOK
<1>2. CASE finished
  <2>1. UNCHANGED <<finished, placing, queue, completing>>
    BY <1>2 DEF FinishWithCompletionGuidance
  <2> QED
    BY <1>1, <2>1 DEF TalkInv, SpeechIsKnown, CompletionIsAlone
<1>3. CASE ~finished
  <2>1. /\ placing' = [placing EXCEPT !.check = "Idle", !.locked = TRUE]
        /\ queue' \in QueueGuidance(<<>>, TaskCompleted)
        /\ completing' = (queue' # <<>>) /\ finished' = TRUE
    BY <1>3 DEF FinishWithCompletionGuidance
  <2>2. placing' \in Placing
    BY <1>1, <2>1 DEF Placing, Checks
  <2>3. queue' \in {<<>>, <<TaskCompleted>>}
    BY <2>1, CompletionQueued DEF TalkInv, BudgetInv
  <2>4. queue' \in Seq(Guidances)
    <3>1. <<>> \in Seq(Guidances) /\ <<TaskCompleted>> \in Seq(Guidances)
      BY GuideType
    <3> QED
      BY <2>3, <3>1
  <2>5. SpeechIsKnown' /\ CompletionIsAlone'
    BY <2>1, <2>2, <2>3 DEF TalkInv, SpeechIsKnown, CompletionIsAlone
  <2> QED
    BY <2>1, <2>2, <2>4, <2>5
<1> QED
  BY <1>2, <1>3

\* What the placement check hands on: the queue as it is, or, at the end of the
\* grace period, a new prompt.
LEMMA CheckHandsOn ==
  ASSUME TalkInv, NEW q, processPlacementCheck(q)
  PROVE  /\ placing' \in Placing /\ objectAsked' \in BOOLEAN /\ q \in Seq(Guidances)
         /\ q = queue \/ (~finished /\ Plain(q))
<1>1. placing \in Placing /\ queue \in Seq(Guidances) /\ objectAsked \in BOOLEAN /\ Counts
  BY DEF TalkInv, HumanNavigationTypeOK, BudgetInv
<1>2. CASE q = queue /\ placing' \in {placing, [placing EXCEPT !.check = "WaitingObjectStatus"]}
           /\ (UNCHANGED objectAsked \/ AskObjectStatus)
  <2>1. placing' \in Placing
    BY <1>1, <1>2 DEF Placing, Checks
  <2> QED
    BY <1>1, <1>2, <2>1 DEF AskObjectStatus
<1>3. CASE /\ ~finished /\ placing.check = "SuccessGrace" /\ LockPlacementGuidance(q, Error, "Idle")
           /\ UNCHANGED objectAsked
  <2>1. /\ q \in QueueGuidance(<<>>, Guide(Error))
        /\ placing' = [placing EXCEPT !.locked = TRUE, !.seeking = TRUE, !.check = "Idle"]
    BY <1>3 DEF LockPlacementGuidance
  <2>2. placing' \in Placing
    BY <1>1, <2>1 DEF Placing, Checks
  <2>3. <<>> \in Seq(Guidances) /\ Plain(<<>>)
    BY DEF Plain
  <2>4. q \in Seq(Guidances) /\ Plain(q)
    BY <1>1, <2>1, <2>3, GuideType, GuidePlain, QueueGuidanceEffect
  <2> QED
    BY <1>1, <1>3, <2>2, <2>4
<1> QED
  BY <1>2, <1>3 DEF processPlacementCheck

\* A round says only what is due.
LEMMA RoundTalk ==
  ASSUME TalkInv, BudgetInv', NEW q, Checked(q),
         SayGuidance(q) \/ AskSpeechState(q) \/ SilenceGuidance(q) \/ KeepGuidance(q)
  PROVE  TalkInv'
<1>1. /\ placing' \in Placing /\ objectAsked' \in BOOLEAN /\ q \in Seq(Guidances)
      /\ q = queue \/ (~finished /\ Plain(q))
  BY CheckHandsOn DEF Checked
<1>2. /\ turn' = "step" /\ heard' = 0
      /\ UNCHANGED <<step, started, informed, finished, cached, awaiting, phase, hand>>
  BY DEF Checked, life
<1>3. queue' \in Seq(Guidances) /\ sent' \in Nat /\ autoSent' \in Nat
  BY DEF BudgetInv, Counts, Fits
<1>4. /\ completing' \in BOOLEAN /\ talking' \in BOOLEAN
      /\ speech' \in Speeches
  BY DEF SayGuidance, AskSpeechState, SilenceGuidance, KeepGuidance, SaidUnknown, TalkInv,
         HumanNavigationTypeOK, Speeches
<1>10. speechAsked' \in 0 .. MaxAsked /\ outdated' \in 0 .. MaxAsked
  <2>1. speechAsked \in 0 .. MaxAsked /\ outdated \in 0 .. MaxAsked
    BY DEF TalkInv, HumanNavigationTypeOK
  <2> QED
    BY <2>1, GuidanceAssumption
       DEF SayGuidance, AskSpeechState, SilenceGuidance, KeepGuidance
<1>5. HumanNavigationTypeOK'
  BY <1>1, <1>2, <1>3, <1>4, <1>10 DEF TalkInv, HumanNavigationTypeOK
<1>6. CASE SayGuidance(q)
  <2>1. /\ speech' = "Unknown"
        /\ queue' = (IF completing THEN <<>> ELSE Tail(q)) /\ completing' = FALSE
        /\ q # <<>> /\ ~(finished /\ ~completing)
    BY <1>6 DEF SayGuidance, HasMessage, Silenced, SaidUnknown
  <2>2. ~finished => Plain(Tail(q))
    <3>1. ~finished => Plain(q)
      BY <1>1 DEF TalkInv, CompletionIsAlone, Plain
    <3>2. Len(Tail(q)) = Len(q) - 1 /\ \A i \in 1 .. Len(q) - 1 : Tail(q)[i] = q[i + 1]
      BY <1>1, <2>1
    <3>3. \A i \in 1 .. Len(q) - 1 : i + 1 \in 1 .. Len(q)
      BY <1>1
    <3> QED
      BY <3>1, <3>2, <3>3 DEF Plain
  <2>3. CompletionIsAlone'
    BY <1>2, <2>1, <2>2 DEF TalkInv, CompletionIsAlone, Plain
  <2> QED
    BY <1>5, <2>1, <2>3 DEF TalkInv, SpeechIsKnown
<1>7. CASE AskSpeechState(q)
  <2>1. /\ queue' = q /\ q # <<>> /\ speech' = "WaitingState"
        /\ UNCHANGED completing
    BY <1>7 DEF AskSpeechState, HasMessage
  <2>2. CompletionIsAlone'
    BY <1>1, <1>2, <2>1 DEF TalkInv, CompletionIsAlone, Plain
  <2> QED
    BY <1>5, <2>1, <2>2 DEF TalkInv, SpeechIsKnown
<1>8. CASE SilenceGuidance(q)
  <2>1. finished /\ queue' = <<>> /\ UNCHANGED <<speech, speechAsked, outdated, talking>>
    BY <1>8 DEF SilenceGuidance, Silenced
  <2> QED
    BY <1>2, <1>5, <2>1 DEF TalkInv, SpeechIsKnown, CompletionIsAlone
<1>9. CASE KeepGuidance(q)
  <2>1. queue' = q /\ UNCHANGED <<sent, completing, speech, speechAsked, outdated, talking>>
    BY <1>9 DEF KeepGuidance
  <2>2. CompletionIsAlone'
    BY <1>1, <1>2, <2>1 DEF TalkInv, CompletionIsAlone, Plain
  <2> QED
    BY <1>5, <2>1, <2>2 DEF TalkInv, SpeechIsKnown
<1> QED
  BY <1>6, <1>7, <1>8, <1>9

\* So does a step of the controller.
LEMMA PassTalk ==
  ASSUME TalkInv, BudgetInv', StepPass
  PROVE  TalkInv'
<1>1. /\ turn' = "spin"
      /\ UNCHANGED <<heard, objectAsked, speechAsked, outdated, phase, hand, talking>>
  BY DEF StepPass, stepFrame, lines, world
<1>2. CASE Initialize
  <2>1. step' = "Ready"
    BY <1>2 DEF Initialize
  <2>2. HumanNavigationTypeOK'
    BY <1>1, <1>2, <2>1, ResetTalk DEF Initialize, TalkInv, HumanNavigationTypeOK, Steps
  <2> QED
    BY <1>1, <1>2, <2>2, ResetTalk DEF Initialize, TalkInv
<1>3. CASE Ready \/ WaitTaskInfo \/ GuidePass
  <2>1. /\ step' \in Steps
        /\ UNCHANGED <<started, informed, finished, cached, awaiting, placing, speech, queue, sent,
                       autoSent, completing>>
    BY <1>3 DEF Ready, WaitTaskInfo, GuidePass, life, guidance, Steps, TalkInv, HumanNavigationTypeOK
  <2>2. HumanNavigationTypeOK'
    BY <1>1, <2>1 DEF TalkInv, HumanNavigationTypeOK
  <2> QED
    BY <1>1, <2>1, <2>2 DEF TalkInv, SpeechIsKnown, CompletionIsAlone
<1>4. CASE GuideForTakingObject
  <2> DEFINE wrong    == cached \in {"unflagged", "other"}
             released == placing.wrongHold /\ ~wrong
             p == [placing EXCEPT !.wrongHold = IF released THEN FALSE ELSE placing.wrongHold,
                                  !.lastWrong = IF released THEN "none" ELSE placing.lastWrong]
             Before == IF released THEN QueueGuidance(<<>>, Guide(Transition)) ELSE {queue}
  <2>0. /\ UNCHANGED <<started, informed, finished, cached, awaiting, speech, sent, autoSent,
                       completing>>
        /\ cached \in Hands /\ placing \in Placing /\ queue \in Seq(Guidances) /\ Counts
    BY <1>4 DEF GuideForTakingObject, life, TalkInv, HumanNavigationTypeOK, BudgetInv
  <2>1. p \in Placing
    <3>1. (IF released THEN FALSE ELSE placing.wrongHold) \in BOOLEAN
          /\ (IF released THEN "none" ELSE placing.lastWrong) \in Names
      BY <2>0 DEF Placing, Names
    <3> QED
      BY <2>0, <3>1 DEF Placing
  <2>2. PICK q \in Before :
          \/ /\ cached = "target"
             /\ queue' \in QueueGuidance(q, Guide(Transition))
             /\ step' = "GuideForPlacement"
             /\ placing' = [NotPlacing EXCEPT !.check = p.check, !.held = TRUE]
          \/ /\ wrong
             /\ queue' \in IF Name(cached) = p.lastWrong THEN {q} ELSE QueueGuidance(q, Guide(Error))
             /\ placing' = [p EXCEPT !.wrongHold = TRUE, !.lastWrong = Name(cached)]
             /\ UNCHANGED step
          \/ /\ cached = "none"
             /\ queue' = q /\ placing' = p
             /\ UNCHANGED step
    BY <1>4 DEF GuideForTakingObject
  <2> HIDE DEF p
  <2>3. placing' \in Placing
    <3>1. Name(cached) \in Names
      BY <2>0 DEF Name, Names, Hands
    <3>2. [NotPlacing EXCEPT !.check = p.check, !.held = TRUE] \in Placing
      BY <2>1 DEF NotPlacing, Placing, Names
    <3>3. [p EXCEPT !.wrongHold = TRUE, !.lastWrong = Name(cached)] \in Placing
      BY <2>1, <3>1 DEF Placing
    <3> QED
      BY <2>1, <2>2, <3>2, <3>3
  <2>4. Goes(queue, q)
    <3>1. Goes(queue, queue)
      BY <2>0 DEF Goes
    <3>2. \A r \in QueueGuidance(<<>>, Guide(Transition)) : Goes(queue, r)
      BY <2>0, GuideType, GuideGoes DEF Transition, Automatic
    <3> QED
      BY <3>1, <3>2
  <2>5. q \in Seq(Guidances)
    BY <2>4 DEF Goes
  <2>6. queue' = q \/ \E g \in Automatic .. Error : queue' \in QueueGuidance(q, Guide(g))
    BY <2>2, GuideType
  <2>7. Goes(q, queue')
    <3>1. Goes(q, q)
      BY <2>5 DEF Goes
    <3>2. \A g \in Automatic .. Error : \A r \in QueueGuidance(q, Guide(g)) : Goes(q, r)
      BY <2>0, <2>5, GuideGoes
    <3> QED
      BY <2>6, <3>1, <3>2
  <2>8. Goes(queue, queue')
    BY <2>0, <2>4, <2>7, GoesOn
  <2>9. step' \in Steps
    BY <2>2 DEF Steps, TalkInv, HumanNavigationTypeOK
  <2>10. HumanNavigationTypeOK'
    BY <1>1, <2>0, <2>3, <2>8, <2>9 DEF Goes, TalkInv, HumanNavigationTypeOK
  <2> QED
    BY <1>1, <2>0, <2>3, <2>8, <2>10, GoesKeeps DEF TalkInv
<1> QED
  BY <1>2, <1>3, <1>4 DEF StepPass

\* What a look at the hands makes of the placement.
LEMMA ReactionsType ==
  ASSUME TalkInv, NEW h \in Hands, NEW r \in Reactions(h)
  PROVE  r.placing \in Placing /\ r.says \subseteq {Transition, Error}
<1>0. placing \in Placing
  BY DEF TalkInv, HumanNavigationTypeOK
<1>1. Dropped(h) \in Placing
  BY <1>0 DEF Dropped, Placing, Checks, Names
<1> DEFINE p == [Dropped(h) EXCEPT !.held = HasTarget(h)]
<1>2. p \in Placing
  <2>1. HasTarget(h) \in BOOLEAN
    BY DEF HasTarget
  <2> QED
    BY <1>1, <2>1 DEF Placing
<1> HIDE DEF p
<1>3. [NotPlacing EXCEPT !.held = TRUE] \in Placing
  BY DEF NotPlacing, Placing, Checks, Names
<1>4. [p EXCEPT !.locked = TRUE, !.wrongHold = TRUE, !.lastWrong = "other"] \in Placing
  BY <1>2 DEF Placing, Names
<1>5. [p EXCEPT !.locked = FALSE, !.seeking = TRUE, !.wrongHold = FALSE, !.lastWrong = "none"] \in Placing
  BY <1>2 DEF Placing, Names
<1>6. \/ r = [placing |-> [NotPlacing EXCEPT !.held = TRUE], says |-> {Transition}]
      \/ r = [placing |-> [p EXCEPT !.locked = TRUE, !.wrongHold = TRUE, !.lastWrong = "other"],
              says |-> {Error}]
      \/ r = [placing |-> [p EXCEPT !.locked = FALSE, !.seeking = TRUE,
                                    !.wrongHold = FALSE, !.lastWrong = "none"],
              says |-> {Transition}]
      \/ r = [placing |-> p, says |-> {}]
  BY DEF Reactions, p
<1>7. ASSUME NEW z \in Placing, NEW s \in SUBSET {Transition, Error},
             r = [placing |-> z, says |-> s]
      PROVE  r.placing \in Placing /\ r.says \subseteq {Transition, Error}
  BY <1>7
<1>8. {Transition} \in SUBSET {Transition, Error} /\ {Error} \in SUBSET {Transition, Error}
      /\ {} \in SUBSET {Transition, Error}
  OBVIOUS
<1> QED
  BY <1>2, <1>3, <1>4, <1>5, <1>6, <1>7, <1>8

LEMMA AvatarStatusTalk ==
  ASSUME TalkInv, BudgetInv', NEW h \in Reported, ReadAvatarStatus(h)
  PROVE  TalkInv'
<1>0. /\ heard' = 2 /\ cached' = h /\ awaiting' = FALSE
      /\ UNCHANGED <<turn, step, started, informed, finished, speech, sent, autoSent, completing,
                     objectAsked, speechAsked, outdated, phase, hand, talking>>
      /\ h \in Hands
  BY DEF ReadAvatarStatus, life, lines, world, Reported, Hands, Names, TalkInv, HumanNavigationTypeOK
<1>1. placing \in Placing /\ queue \in Seq(Guidances) /\ Counts
  BY DEF TalkInv, HumanNavigationTypeOK, BudgetInv
<1>2. PICK r \in IF step = "GuideForPlacement" THEN Reactions(h)
                  ELSE {[placing |-> placing, says |-> {}]} :
         /\ placing' = r.placing
         /\ \E q1 \in IF r.says = {} THEN {queue}
                      ELSE UNION {QueueGuidance(<<>>, Guide(p)) : p \in r.says} :
            \E q2 \in IF awaiting /\ ~r.placing.locked THEN QueueGuidance(q1, Guide(Requested))
                      ELSE {q1} :
              queue' = q2 \/ queue' \in QueueGuidance(q2, Guide(Automatic))
  BY DEF ReadAvatarStatus
<1>3. placing' \in Placing /\ r.says \subseteq {Transition, Error}
  BY <1>0, <1>1, <1>2, ReactionsType
<1>4. PICK q1 \in IF r.says = {} THEN {queue}
                   ELSE UNION {QueueGuidance(<<>>, Guide(p)) : p \in r.says} :
         \E q2 \in IF awaiting /\ ~r.placing.locked THEN QueueGuidance(q1, Guide(Requested))
                   ELSE {q1} :
            queue' = q2 \/ queue' \in QueueGuidance(q2, Guide(Automatic))
  BY <1>2
<1>5. PICK q2 \in IF awaiting /\ ~r.placing.locked THEN QueueGuidance(q1, Guide(Requested))
                   ELSE {q1} :
         queue' = q2 \/ queue' \in QueueGuidance(q2, Guide(Automatic))
  BY <1>4
<1>6. \A q \in Seq(Guidances) :
        /\ Goes(q, q)
        /\ \A p \in Automatic .. Error : \A u \in QueueGuidance(q, Guide(p)) : Goes(q, u)
        /\ \A p \in {Transition, Error} : \A u \in QueueGuidance(<<>>, Guide(p)) : Goes(q, u)
  <2> TAKE q \in Seq(Guidances)
  <2>1. Goes(q, q)
    BY DEF Goes
  <2>2. \A p \in {Transition, Error} : p \in Automatic .. Error /\ p # Automatic
    BY DEF Automatic, Transition, Error
  <2> QED
    BY <1>1, <2>1, <2>2, GuideGoes
<1>7. Goes(queue, q1)
  BY <1>1, <1>3, <1>4, <1>6
<1>8. q1 \in Seq(Guidances)
  BY <1>7 DEF Goes
<1>9. Goes(q1, q2)
  BY <1>5, <1>6, <1>8, GuideType
<1>10. q2 \in Seq(Guidances)
  BY <1>9 DEF Goes
<1>11. Goes(q2, queue')
  BY <1>5, <1>6, <1>10, GuideType
<1>12. Goes(queue, queue')
  BY <1>1, <1>7, <1>8, <1>9, <1>11, GoesOn
<1>13. HumanNavigationTypeOK'
  <2>1. queue' \in Seq(Guidances)
    BY <1>12 DEF Goes
  <2>2. heard' \in 0 .. 2
    BY <1>0
  <2>3. awaiting' \in BOOLEAN
    BY <1>0
  <2> QED
    BY <1>0, <1>3, <2>1, <2>2, <2>3 DEF TalkInv, HumanNavigationTypeOK
<1> QED
  BY <1>0, <1>3, <1>12, <1>13, GoesKeeps DEF TalkInv

\* Messages, answers and the task information.
LEMMA CallbackTalk ==
  ASSUME TalkInv, BudgetInv', Callback
  PROVE  TalkInv'
<1>0. placing \in Placing /\ queue \in Seq(Guidances) /\ Counts
  BY DEF TalkInv, HumanNavigationTypeOK, BudgetInv
<1>1. CASE ReadMessage
  <2>1. /\ heard' \in 0 .. 2 /\ UNCHANGED <<turn, objectAsked, speechAsked, outdated, phase, hand, talking>>
        /\ OnMessage(Head(inbox))
    BY <1>1 DEF ReadMessage, world
  <2>2. CASE /\ step' \in Steps /\ started' \in BOOLEAN /\ awaiting' \in BOOLEAN
             /\ UNCHANGED <<informed, finished, cached, placing, speech, queue, sent, autoSent,
                            completing>>
    <3>1. HumanNavigationTypeOK'
      BY <2>1, <2>2 DEF TalkInv, HumanNavigationTypeOK
    <3> QED
      BY <2>1, <2>2, <3>1 DEF TalkInv, SpeechIsKnown, CompletionIsAlone
  <2>3. CASE /\ FinishWithCompletionGuidance
             /\ UNCHANGED <<step, started, informed, cached, awaiting, speech, sent, autoSent>>
    <3>1. HumanNavigationTypeOK'
      BY <2>1, <2>3, FinishTalk DEF TalkInv, HumanNavigationTypeOK
    <3> QED
      BY <2>1, <2>3, <3>1, FinishTalk DEF TalkInv
  <2>4. CASE step' = "Initialize" /\ Reset
    <3>1. HumanNavigationTypeOK'
      BY <2>1, <2>4, ResetTalk DEF TalkInv, HumanNavigationTypeOK, Steps
    <3> QED
      BY <2>1, <2>4, <3>1, ResetTalk DEF TalkInv
  <2>5. started \in BOOLEAN /\ step \in Steps /\ (awaiting \/ (informed /\ ~finished)) \in BOOLEAN
        /\ awaiting \in BOOLEAN
    BY DEF TalkInv, HumanNavigationTypeOK
  <2> QED
    BY <2>1, <2>2, <2>3, <2>4, <2>5 DEF OnMessage, life, guidance, Steps
<1>2. CASE ReadSpeechState
  <2>1. /\ OutdatedAnswer \/ SpeechAnswer
        /\ speechAsked > 0 /\ speechAsked' = speechAsked - 1
        /\ heard' = 1
        /\ UNCHANGED <<turn, step, started, informed, finished, cached, awaiting, placing, queue, sent,
                       autoSent, completing, objectAsked, phase, hand, talking>>
    BY <1>2 DEF ReadSpeechState, life, guidance, world
  <2>2. HumanNavigationTypeOK'
    <3>1. speech' \in Speeches
      BY <2>1 DEF OutdatedAnswer, SpeechAnswer, Speeches
    <3>2. speechAsked' \in 0 .. MaxAsked /\ outdated' \in 0 .. MaxAsked
      <4>1. speechAsked \in 0 .. MaxAsked /\ outdated \in 0 .. MaxAsked
        BY DEF TalkInv, HumanNavigationTypeOK
      <4> QED
        BY <2>1, <4>1, GuidanceAssumption DEF OutdatedAnswer, SpeechAnswer
    <3>3. heard' \in 0 .. 2
      BY <2>1
    <3> QED
      BY <2>1, <3>1, <3>2, <3>3 DEF TalkInv, HumanNavigationTypeOK
  <2>3. SpeechIsKnown'
    BY <2>1 DEF SpeechIsKnown, OutdatedAnswer, SpeechAnswer
  <2> QED
    BY <2>1, <2>2, <2>3 DEF TalkInv, CompletionIsAlone
<1>3. CASE ReadTaskInfo
  <2>1. /\ informed' = TRUE
        /\ UNCHANGED <<turn, heard, step, started, finished, cached, awaiting, placing, speech, queue,
                       sent, autoSent, completing, objectAsked, speechAsked, outdated, phase, hand, talking>>
    BY <1>3 DEF ReadTaskInfo, guidance, lines, world
  <2>2. HumanNavigationTypeOK'
    BY <2>1 DEF TalkInv, HumanNavigationTypeOK
  <2> QED
    BY <2>1, <2>2 DEF TalkInv, SpeechIsKnown, CompletionIsAlone
<1>4. CASE ReadObjectStatus
  <2>1. /\ objectAsked' \in BOOLEAN
        /\ UNCHANGED <<turn, heard, step, started, informed, cached, awaiting, speech, sent, autoSent,
                       speechAsked, outdated, phase, hand, talking>>
    BY <1>4 DEF ReadObjectStatus, world
  <2>0. finished' \in BOOLEAN /\ placing' \in Placing /\ queue' \in Seq(Guidances)
        /\ completing' \in BOOLEAN => HumanNavigationTypeOK'
    <3>1. objectAsked' \in BOOLEAN
      BY <2>1
    <3> QED
      BY <2>1, <3>1 DEF TalkInv, HumanNavigationTypeOK
  <2>2. CASE UNCHANGED <<finished, placing, queue, completing>>
    <3>1. HumanNavigationTypeOK'
      BY <2>0, <2>2 DEF TalkInv, HumanNavigationTypeOK
    <3> QED
      BY <2>1, <2>2, <3>1 DEF TalkInv, SpeechIsKnown, CompletionIsAlone
  <2>3. CASE FinishWithCompletionGuidance
    <3>1. HumanNavigationTypeOK'
      BY <2>0, <2>1, <2>3, FinishTalk
    <3> QED
      BY <2>1, <2>3, <3>1, FinishTalk DEF TalkInv
  <2>4. ASSUME NEW p \in {Transition, Error}, NEW c \in {"SuccessGrace", "Idle"},
               LockPlacementGuidance(queue', p, c), UNCHANGED <<finished, completing>>
        PROVE  TalkInv'
    <3>1. /\ queue' \in QueueGuidance(<<>>, Guide(p))
          /\ placing' = [placing EXCEPT !.locked = TRUE, !.seeking = TRUE, !.check = c]
      BY <2>4 DEF LockPlacementGuidance
    <3>2. placing' \in Placing
      BY <1>0, <3>1 DEF Placing, Checks
    <3>3. /\ Guide(p) \in Guidances /\ ~Guide(p).completes /\ Guide(p).priority # Automatic
          /\ <<>> \in Seq(Guidances) /\ Plain(<<>>)
      BY GuideType, GuidePlain DEF Transition, Error, Automatic, Plain
    <3>4. /\ queue' \in Seq(Guidances) /\ (finished => queue' = <<>>) /\ Plain(queue')
          /\ ~finished /\ sent < MAX_GUIDANCE_COUNT => queue' # <<>>
      BY <1>0, <3>1, <3>3, QueueGuidanceEffect
    <3>5. HumanNavigationTypeOK'
      BY <2>0, <2>4, <3>2, <3>4 DEF TalkInv, HumanNavigationTypeOK
    <3>6. SpeechIsKnown' /\ CompletionIsAlone'
      BY <2>1, <2>4, <3>4 DEF TalkInv, SpeechIsKnown, CompletionIsAlone, Plain
    <3> QED
      BY <3>5, <3>6 DEF TalkInv
  <2> QED
    BY <1>4, <2>2, <2>3, <2>4 DEF ReadObjectStatus
<1> QED
  BY <1>1, <1>2, <1>3, <1>4, AvatarStatusTalk DEF Callback

\* The surroundings may lose questions and end speech.
LEMMA SurroundingsTalk ==
  ASSUME TalkInv, BudgetInv', Surroundings
  PROVE  TalkInv'
<1>1. /\ UNCHANGED <<turn, heard, step, started, informed, finished, cached, awaiting, placing, speech,
                     queue, sent, autoSent, completing>>
      /\ UNCHANGED <<speechAsked, outdated>> \/ LoseSpeechQuestion
      /\ talking' = talking \/ talking' = FALSE
      /\ objectAsked' = objectAsked \/ objectAsked' = FALSE
      /\ phase' \in {"asking", "loading", "running", "ended"} /\ hand' \in Names
  BY DEF Surroundings, Lose, EndSpeech, TakeObject, PutObject, AskReady, StartTask, RequestGuidance,
         EndTask, NextSession, moderatorFrame, node, life, guidance, lines, world, TalkInv,
         HumanNavigationTypeOK, Names
<1>2. talking' \in BOOLEAN /\ objectAsked' \in BOOLEAN
  BY <1>1 DEF TalkInv, HumanNavigationTypeOK
<1>6. /\ speechAsked' \in 0 .. MaxAsked /\ outdated' \in 0 .. MaxAsked
  <2>1. speechAsked \in 0 .. MaxAsked /\ outdated \in 0 .. MaxAsked
    BY DEF TalkInv, HumanNavigationTypeOK
  <2> QED
    BY <1>1, <2>1, GuidanceAssumption DEF LoseSpeechQuestion
<1>3. HumanNavigationTypeOK'
  BY <1>1, <1>2, <1>6 DEF TalkInv, HumanNavigationTypeOK
<1>4. SpeechIsKnown'
  <2>1. talking' => talking
    BY <1>1
  <2> QED
    BY <1>1, <2>1 DEF TalkInv, SpeechIsKnown
<1>5. CompletionIsAlone'
  BY <1>1 DEF TalkInv, CompletionIsAlone
<1> QED
  BY <1>3, <1>4, <1>5 DEF TalkInv

\* The invariant of what is said, for every value of the limits.
THEOREM TalkInductive == Spec => [](BudgetInv /\ TalkInv)
<1>1. Init => BudgetInv /\ TalkInv
  <2> SUFFICES ASSUME Init PROVE BudgetInv /\ TalkInv
    OBVIOUS
  <2>1. BudgetInv
    BY GuidanceAssumption DEF Init, BudgetInv, Counts, Fits
  <2>2. HumanNavigationTypeOK
    <3>1. NotPlacing \in Placing
      BY DEF NotPlacing, Placing, Checks, Names
    <3>2. queue \in Seq(Guidances) /\ sent \in Nat /\ autoSent \in Nat /\ heard \in 0 .. 2
      BY DEF Init
    <3>3. /\ started \in BOOLEAN /\ informed \in BOOLEAN /\ finished \in BOOLEAN
          /\ awaiting \in BOOLEAN /\ completing \in BOOLEAN /\ objectAsked \in BOOLEAN
          /\ talking \in BOOLEAN
      BY DEF Init
    <3>4. speechAsked \in 0 .. MaxAsked /\ outdated \in 0 .. MaxAsked /\ speech \in Speeches
      BY GuidanceAssumption DEF Init, Speeches
    <3> QED
      BY <3>1, <3>2, <3>3, <3>4 DEF Init, HumanNavigationTypeOK, Steps, Hands, Names
  <2>3. SpeechIsKnown /\ CompletionIsAlone
    BY DEF Init, SpeechIsKnown, CompletionIsAlone, NotPlacing
  <2> QED
    BY <2>1, <2>2, <2>3 DEF TalkInv
<1>2. BudgetInv /\ TalkInv /\ [Next]_vars => (BudgetInv /\ TalkInv)'
  <2> SUFFICES ASSUME BudgetInv, TalkInv, [Next]_vars
               PROVE  BudgetInv' /\ TalkInv'
    OBVIOUS
  <2>1. BudgetInv'
    <3>1. CASE UNCHANGED vars
      BY <3>1, Kept DEF vars, node, guidance, BudgetInv
    <3> QED
      BY <3>1, LoopBudget, CallbackBudget, SurroundingsBudget DEF Next
  <2>2. CASE UNCHANGED vars
    BY <2>1, <2>2
       DEF vars, node, life, guidance, lines, world, TalkInv, HumanNavigationTypeOK, SpeechIsKnown,
           CompletionIsAlone
  <2>3. CASE ForwardRound \/ QuietRound
    BY <2>1, <2>3, RoundTalk DEF ForwardRound, QuietRound
  <2> QED
    BY <2>1, <2>2, <2>3, PassTalk, CallbackTalk, SurroundingsTalk DEF Next, Loop
<1> QED
  BY <1>1, <1>2, PTL DEF Spec

\* The variables of the controller keep their types.
THEOREM HumanNavigationTypes == Spec => []HumanNavigationTypeOK
<1>1. TalkInv => HumanNavigationTypeOK
  BY DEF TalkInv
<1> QED
  BY <1>1, TalkInductive, PTL

\* A message is counted only where it is said: everything else leaves the count
\* or sets it back.
LEMMA SaidInRound ==
  ASSUME BudgetInv, [Next]_vars, sent' = sent + 1
  PROVE  \E q : Checked(q) /\ SayGuidance(q)
<1>1. sent \in Nat
  BY DEF BudgetInv, Counts
<1>2. sent' # sent /\ sent' # 0
  BY <1>1
<1>3. ~Callback
  BY <1>2 DEF Callback, ReadMessage, OnMessage, Reset, guidance, ReadSpeechState, ReadTaskInfo,
              ReadObjectStatus, ReadAvatarStatus
<1>4. ~Surroundings
  BY <1>2 DEF Surroundings, Lose, EndSpeech, TakeObject, PutObject, AskReady, StartTask,
              RequestGuidance, EndTask, NextSession, moderatorFrame, node, guidance
<1>5. ~StepPass
  BY <1>2 DEF StepPass, Initialize, Reset, Ready, WaitTaskInfo, GuidePass, GuideForTakingObject, guidance
<1>6. ~UNCHANGED vars
  BY <1>2 DEF vars, node, guidance
<1> QED
  BY <1>2, <1>3, <1>4, <1>5, <1>6
     DEF Next, Loop, ForwardRound, QuietRound, AskSpeechState, SilenceGuidance, KeepGuidance

\* The node talks over the avatar only on an answer to a question of before the
\* message that is being said, for every value of the limits.
THEOREM TalksInTurn == Spec => TalksOverOnlyIfLate
<1>1. BudgetInv /\ TalkInv /\ [Next]_vars =>
        [sent' = sent + 1 /\ talking => speech = "WasSpeakable"]_vars
  <2> SUFFICES ASSUME TalkInv, BudgetInv, [Next]_vars, sent' = sent + 1, talking
               PROVE  speech = "WasSpeakable"
    OBVIOUS
  <2> QED
    BY SaidInRound DEF SayGuidance, TalkInv, SpeechIsKnown
<1> QED
  BY <1>1, TalkInductive, PTL DEF Spec, TalksOverOnlyIfLate

\* The completion message is the last thing said of a task, and is not said of
\* one that goes on.
THEOREM CompletionIsLast == Spec => OnlyCompletionAfterEnd
<1>1. BudgetInv /\ TalkInv /\ [Next]_vars =>
        [sent' = sent + 1 => finished = (queue # <<>> /\ Head(queue).completes)]_vars
  <2> SUFFICES ASSUME TalkInv, BudgetInv, [Next]_vars, sent' = sent + 1
               PROVE  finished = (queue # <<>> /\ Head(queue).completes)
    OBVIOUS
  <2>1. PICK q : Checked(q) /\ SayGuidance(q)
    BY SaidInRound
  <2>2. q # <<>> /\ ~(finished /\ ~completing)
    BY <2>1 DEF SayGuidance, HasMessage, Silenced
  <2>3. finished => q = queue
    BY <2>1, CheckHandsOn DEF Checked
  <2>4. queue \in Seq(Guidances) /\ finished \in BOOLEAN
    BY DEF TalkInv, HumanNavigationTypeOK
  <2>5. queue # <<>> => /\ Head(queue) = queue[1] /\ 1 \in 1 .. Len(queue)
                        /\ queue[1].completes \in BOOLEAN
    <3>1. queue # <<>> => Head(queue) = queue[1] /\ 1 \in 1 .. Len(queue) /\ queue[1] \in Guidances
      BY <2>4
    <3> QED
      BY <3>1 DEF Guidances
  <2>6. CASE finished
    <3>1. queue = <<TaskCompleted>> /\ TaskCompleted.completes = TRUE /\ queue # <<>>
      BY <2>2, <2>3, <2>6 DEF TalkInv, CompletionIsAlone, TaskCompleted
    <3>2. queue[1] = TaskCompleted
      BY <3>1
    <3> QED
      BY <2>4, <2>5, <2>6, <3>1, <3>2
  <2>7. CASE ~finished
    BY <2>4, <2>5, <2>7 DEF TalkInv, CompletionIsAlone
  <2> QED
    BY <2>6, <2>7
<1> QED
  BY <1>1, TalkInductive, PTL DEF Spec, OnlyCompletionAfterEnd

-----------------------------------------------------------------------------
(* Minima.                                                                 *)

\* A set of naturals has a least element.
LEMMA LeastExists ==
  ASSUME NEW T \in SUBSET Nat, T # {}
  PROVE  \E m \in T : \A n \in T : m <= n
<1> DEFINE R == OpToRel(<, Nat)
<1>1. \E x \in T : \A y \in T : ~ (<<y, x>> \in R)
  BY NatLessThanWellFounded, WFMin
<1>2. \A x, y \in Nat : <<y, x>> \in R <=> y < x
  BY DEF OpToRel
<1> HIDE DEF R
<1>3. PICK x \in T : \A y \in T : ~ (<<y, x>> \in R)
  BY <1>1
<1>4. ASSUME NEW y \in T PROVE x <= y
  <2>1. x \in Nat /\ y \in Nat OBVIOUS
  <2>2. <<y, x>> \notin R BY <1>3
  <2>3. ~ (y < x) BY <1>2, <2>1, <2>2
  <2> QED BY <2>1, <2>3
<1> QED BY <1>4

\* A square is no negative number.
LEMMA SquareIsNat == \A n \in Int : n * n \in Nat
  OBVIOUS

\* FirstLeast chooses one of the indices.
LEMMA FirstLeastIsIn ==
  ASSUME NEW is \in SUBSET Nat, is # {}, NEW a, NEW b,
         \A i \in is : a[i] \in Nat /\ b[i] \in Nat
  PROVE  FirstLeast(is, a, b) \in is
<1> DEFINE A == {a[i] : i \in is}
<1>1. PICK m \in A : \A n \in A : m <= n
  <2>1. A \in SUBSET Nat /\ A # {} OBVIOUS
  <2> QED BY <2>1, LeastExists
<1> DEFINE B == {b[i] : i \in {j \in is : a[j] = m}}
<1>2. PICK k \in B : \A n \in B : k <= n
  <2>1. B \in SUBSET Nat /\ B # {} BY <1>1
  <2> QED BY <2>1, LeastExists
<1> DEFINE C == {i \in is : a[i] = m /\ b[i] = k}
<1>3. PICK l \in C : \A n \in C : l <= n
  <2>1. C \in SUBSET Nat /\ C # {} BY <1>2
  <2> QED BY <2>1, LeastExists
<1>4. \A j \in is : a[l] < a[j] \/ (a[l] = a[j] /\ (b[l] < b[j] \/ (b[l] = b[j] /\ l <= j)))
  <2> TAKE j \in is
  <2>1. m <= a[j] /\ a[l] = m /\ b[l] = k /\ l \in is BY <1>1, <1>3
  <2>2. ASSUME a[j] = m PROVE k <= b[j] BY <2>2, <1>2
  <2>3. ASSUME a[j] = m, b[j] = k PROVE l <= j BY <2>3, <1>3
  <2>4. m \in Nat /\ k \in Nat BY <1>1, <1>2
  <2> QED BY <2>1, <2>2, <2>3, <2>4
<1>5. l \in is BY <1>3
<1> QED BY <1>4, <1>5 DEF FirstLeast

\* The distances are naturals.
LEMMA DistancesAreNat ==
  ASSUME NEW p \in Points, NEW q \in Points
  PROVE  PlaneSq(p, q) \in Nat /\ DistSq(p, q) \in Nat
<1>1. p.x - q.x \in Int /\ p.y - q.y \in Int /\ p.z - q.z \in Int
  BY DEF Points
<1>2. /\ (p.x - q.x) * (p.x - q.x) \in Nat
      /\ (p.y - q.y) * (p.y - q.y) \in Nat
      /\ (p.z - q.z) * (p.z - q.z) \in Nat
  BY <1>1, SquareIsNat
<1> DEFINE x2 == (p.x - q.x) * (p.x - q.x)
           y2 == (p.y - q.y) * (p.y - q.y)
           z2 == (p.z - q.z) * (p.z - q.z)
<1>3. PlaneSq(p, q) = x2 + y2 /\ DistSq(p, q) = x2 + y2 + z2
  BY DEF PlaneSq, DistSq
<1>4. x2 \in Nat /\ y2 \in Nat /\ z2 \in Nat
  BY <1>2
<1> HIDE DEF x2, y2, z2
<1> QED BY <1>3, <1>4

-----------------------------------------------------------------------------
(* The phrases.                                                            *)

\* A phrase about a thing is none of the empty ones, and bans its name.
LEMMA PhraseMentions ==
  ASSUME NEW how, NEW thing, how # ""
  PROVE  /\ Phrase(how, thing) # NoPhrase
         /\ Phrase(how, thing).how = how
         /\ Mentioned(Phrase(how, thing)) = {Key(thing)}
<1>1. Phrase(how, thing).how = how /\ NoPhrase.how = ""
  BY DEF Phrase, NoPhrase
<1>2. Phrase(how, thing) # NoPhrase
  BY <1>1
<1> QED BY <1>1, <1>2 DEF Phrase, Mentioned, Key

\* The name in a phrase is the thing's.
LEMMA PhraseNames ==
  ASSUME NEW how, NEW thing
  PROVE  /\ Phrase(how, thing).thing = ToReadableName(thing.name)
         /\ Lowered(Phrase(how, thing).thing) = Key(thing)
BY DEF Phrase, Key

\* Where the furniture is.
LEMMA FurniturePlaces ==
  ASSUME NEW scene \in Scenes, NEW i \in DOMAIN scene.furniture
  PROVE  scene.furniture[i].at \in Points /\ i \in Nat
<1>1. scene.furniture \in Seq(Things)
  BY DEF Scenes
<1>2. i \in Nat /\ scene.furniture[i] \in Things
  BY <1>1
<1> QED BY <1>2 DEF Things

\* The nearest of some pieces that are below is one of them.
LEMMA NearestBelowIsIn ==
  ASSUME NEW scene \in Scenes, NEW p \in Points,
         NEW is \in SUBSET Below(scene, p), is # {}
  PROVE  \E i \in is : NearestBelow(scene, p, is) = scene.furniture[i]
<1>1. is \subseteq DOMAIN scene.furniture
  BY DEF Below
<1>2. is \in SUBSET Nat
  BY <1>1, FurniturePlaces
<1>3. ASSUME NEW i \in is
      PROVE  Plane(scene, p)[i] \in Nat /\ Height(scene, p)[i] \in Nat
  <2>1. scene.furniture[i].at \in Points
    BY <1>1, FurniturePlaces
  <2>2. Plane(scene, p)[i] \in Nat
    BY <1>1, <2>1, DistancesAreNat DEF Plane
  <2>3. scene.furniture[i].at.z < p.z
    BY DEF Below
  <2>4. Height(scene, p)[i] = p.z - scene.furniture[i].at.z
    BY <1>1 DEF Height
  <2>5. p.z \in Int /\ scene.furniture[i].at.z \in Int
    BY <2>1 DEF Points
  <2> QED BY <2>2, <2>3, <2>4, <2>5
<1>4. FirstLeast(is, Plane(scene, p), Height(scene, p)) \in is
  BY <1>2, <1>3, FirstLeastIsIn
<1> QED BY <1>4 DEF NearestBelow

\* A relation that tells a support names a piece that is below.
LEMMA RelationNamesSupport ==
  ASSUME NEW scene \in Scenes, NEW p \in Points, NEW size,
         RelationPhrase(scene, p, size).how \in {"on", "inside"}
  PROVE  \E i \in Below(scene, p), how \in {"on", "inside"} :
           RelationPhrase(scene, p, size) = Phrase(how, scene.furniture[i])
<1> DEFINE support == {i \in Below(scene, p) :
                         FurnitureRelation(scene.furniture[i], p, size) \in {"on", "inside"}}
           best == NearestBelow(scene, p, support)
<1>1. support # {}
  <2> SUFFICES ASSUME support = {} PROVE FALSE
    OBVIOUS
  <2>1. RelationPhrase(scene, p, size) = NoPhrase
        \/ \E thing : RelationPhrase(scene, p, size) = Phrase("near", thing)
    BY DEF RelationPhrase
  <2>2. ASSUME NEW thing PROVE Phrase("near", thing).how = "near"
    BY DEF Phrase
  <2>3. NoPhrase.how = ""
    BY DEF NoPhrase
  <2>4. CASE RelationPhrase(scene, p, size) = NoPhrase
    BY <2>3, <2>4
  <2>5. ASSUME NEW thing, RelationPhrase(scene, p, size) = Phrase("near", thing)
        PROVE  FALSE
    BY <2>2, <2>5
  <2> QED BY <2>1, <2>4, <2>5
<1>2. RelationPhrase(scene, p, size) = Phrase(FurnitureRelation(best, p, size), best)
  BY <1>1 DEF RelationPhrase
<1>3. PICK i \in support : best = scene.furniture[i]
  BY <1>1, NearestBelowIsIn
<1> QED BY <1>2, <1>3

\* What the object may be said to be on: a piece below it whose name is not banned.
LEMMA PickOnIsBelow ==
  ASSUME NEW scene \in Scenes, NEW p \in Points, NEW banned,
         PickOnSlotPhrase(scene, p, banned) # NoPhrase
  PROVE  \E i \in Below(scene, p), how \in {"on", "inside"} :
           /\ PickOnSlotPhrase(scene, p, banned) = Phrase(how, scene.furniture[i])
           /\ Key(scene.furniture[i]) \notin banned
<1> DEFINE relation == RelationPhrase(scene, p, PICK_SIZE)
           below == Unbanned(scene, Below(scene, p), banned)
           close == {i \in below : Space(scene, p)[i] <= ON_RANGE_SQ}
           kept == relation.how \in {"on", "inside"} /\ Mentioned(relation) \cap banned = {}
<1>1. CASE kept
  <2>1. PickOnSlotPhrase(scene, p, banned) = relation
    BY <1>1 DEF PickOnSlotPhrase
  <2>2. PICK i \in Below(scene, p), how \in {"on", "inside"} : relation = Phrase(how, scene.furniture[i])
    BY <1>1, RelationNamesSupport
  <2>3. Mentioned(relation) = {Key(scene.furniture[i])}
    BY <2>2, PhraseMentions
  <2>4. Key(scene.furniture[i]) \notin banned
    BY <1>1, <2>3
  <2> QED BY <2>1, <2>2, <2>4
<1>2. CASE ~kept
  <2>1. below # {}
    BY <1>2 DEF PickOnSlotPhrase
  <2> DEFINE is == IF close # {} THEN close ELSE below
  <2>2. PickOnSlotPhrase(scene, p, banned) = Phrase("on", NearestBelow(scene, p, is))
    BY <1>2, <2>1 DEF PickOnSlotPhrase
  <2>3. is \in SUBSET below /\ is # {}
    BY <2>1
  <2>4. below \in SUBSET Below(scene, p) /\ \A i \in below : Key(scene.furniture[i]) \notin banned
    BY DEF Unbanned
  <2>5. PICK i \in is : NearestBelow(scene, p, is) = scene.furniture[i]
    BY <2>3, <2>4, NearestBelowIsIn
  <2> QED BY <2>2, <2>3, <2>4, <2>5
<1> QED BY <1>1, <1>2

\* What the destination is said to be on: a piece whose name is not banned.
LEMMA OnSlotIsNamed ==
  ASSUME NEW scene \in Scenes, NEW p \in Points, NEW size, NEW banned,
         OnSlotPhrase(scene, p, size, banned) # NoPhrase
  PROVE  \E i \in DOMAIN scene.furniture :
           /\ OnSlotPhrase(scene, p, size, banned) = Phrase("on", scene.furniture[i])
           /\ Key(scene.furniture[i]) \notin banned
<1> DEFINE relation == RelationPhrase(scene, p, size)
           plain == {i \in DOMAIN scene.furniture : ~IsFusedSlotName(scene, scene.furniture[i])}
           named == Unbanned(scene, plain, banned)
           kept == relation.how = "on" /\ Mentioned(relation) \cap banned = {}
           chosen == FirstLeast(named, Space(scene, p), Space(scene, p))
<1>1. CASE kept
  <2>1. OnSlotPhrase(scene, p, size, banned) = relation
    BY <1>1 DEF OnSlotPhrase
  <2>2. PICK i \in Below(scene, p), how \in {"on", "inside"} : relation = Phrase(how, scene.furniture[i])
    BY <1>1, RelationNamesSupport
  <2>3. Mentioned(relation) = {Key(scene.furniture[i])} /\ relation.how = how
    BY <2>2, PhraseMentions
  <2>4. Key(scene.furniture[i]) \notin banned /\ how = "on"
    BY <1>1, <2>3
  <2>5. i \in DOMAIN scene.furniture
    BY DEF Below
  <2> QED BY <2>1, <2>2, <2>4, <2>5
<1>2. CASE ~kept
  <2>1. named # {}
    BY <1>2 DEF OnSlotPhrase
  <2>2. OnSlotPhrase(scene, p, size, banned) = Phrase("on", scene.furniture[chosen])
    BY <1>2, <2>1 DEF OnSlotPhrase
  <2>3. named \subseteq DOMAIN scene.furniture /\ \A i \in named : Key(scene.furniture[i]) \notin banned
    BY DEF Unbanned
  <2>4. named \in SUBSET Nat
    BY <2>3, FurniturePlaces
  <2>5. \A i \in named : Space(scene, p)[i] \in Nat
    BY <2>3, FurniturePlaces, DistancesAreNat DEF Space
  <2>6. chosen \in named
    BY <2>1, <2>4, <2>5, FirstLeastIsIn
  <2> QED BY <2>2, <2>3, <2>6
<1> QED BY <1>1, <1>2

\* Where the object and the destination are.
LEMMA ScenePlaces ==
  ASSUME NEW scene \in Scenes
  PROVE  scene.target.at \in Points /\ scene.destination.at \in Points
BY DEF Scenes, Things

\* What the object is said to be on.
LEMMA PickOnIsChosen ==
  ASSUME NEW scene \in Scenes, PickTemplate(scene).on # NoPhrase
  PROVE  \E i \in Below(scene, scene.target.at), how \in {"on", "inside"} :
           /\ PickTemplate(scene).on = Phrase(how, scene.furniture[i])
           /\ Key(scene.furniture[i]) \notin PickBans(scene)
<1>1. PickTemplate(scene).on = PickOnSlotPhrase(scene, scene.target.at, PickBans(scene))
  BY DEF PickTemplate
<1> QED BY <1>1, ScenePlaces, PickOnIsBelow

-----------------------------------------------------------------------------
(* The sentences.                                                          *)

\* The sentence about the object and the one about the destination never name
\* the same furniture, nor does either name the object itself: the person who
\* is sent for an object is not sent to where it belongs, whichever branch of
\* buildPickOnSlotPhrase and buildOnSlotPhrase each of the two comes from.
THEOREM SentencesDiffer ==
  ASSUME NEW scene \in Scenes
  PROVE  LET on == PickTemplate(scene).on
             place == PlaceTemplate(scene)
         IN  /\ on # NoPhrase => Lowered(on.thing) # Key(scene.target)
             /\ place # NoPhrase => Lowered(place.thing) # Key(scene.target)
             /\ on # NoPhrase /\ place # NoPhrase => Lowered(on.thing) # Lowered(place.thing)
<1> DEFINE on == PickTemplate(scene).on
           place == PlaceTemplate(scene)
<1>1. ASSUME on # NoPhrase PROVE Lowered(on.thing) \notin PickBans(scene)
  <2>1. PICK i \in Below(scene, scene.target.at), how \in {"on", "inside"} :
          /\ on = Phrase(how, scene.furniture[i])
          /\ Key(scene.furniture[i]) \notin PickBans(scene)
    BY <1>1, PickOnIsChosen
  <2>2. Lowered(on.thing) = Key(scene.furniture[i])
    BY <2>1, PhraseNames
  <2> QED BY <2>1, <2>2
<1>2. Key(scene.target) \in PickBans(scene)
  BY DEF PickBans
<1>3. place # NoPhrase => Lowered(place.thing) \in PickBans(scene)
  BY DEF PickBans, Mentioned, PlaceTemplate
<1>4. ASSUME place # NoPhrase PROVE Lowered(place.thing) # Key(scene.target)
  <2>1. place = OnSlotPhrase(scene, scene.destination.at, scene.destination.size, {Key(scene.target)})
    BY DEF PlaceTemplate, PlaceSlot
  <2>2. PICK i \in DOMAIN scene.furniture :
          place = Phrase("on", scene.furniture[i]) /\ Key(scene.furniture[i]) \notin {Key(scene.target)}
    BY <1>4, <2>1, ScenePlaces, OnSlotIsNamed
  <2>3. Lowered(place.thing) = Key(scene.furniture[i])
    BY <2>2, PhraseNames
  <2> QED BY <2>2, <2>3
<1> QED BY <1>1, <1>2, <1>3, <1>4

\* What the object is said to be on is a piece of furniture below it that is
\* named by itself, also where no piece supports it by its kind and size and
\* the nearest one is named instead.
THEOREM SupportIsBelow ==
  ASSUME NEW scene \in Scenes, PickTemplate(scene).on # NoPhrase
  PROVE  \E i \in DOMAIN scene.furniture :
           /\ PickTemplate(scene).on.thing = ToReadableName(scene.furniture[i].name)
           /\ scene.furniture[i].at.z < scene.target.at.z
           /\ ~IsFusedSlotName(scene, scene.furniture[i])
<1>1. PICK i \in Below(scene, scene.target.at), how \in {"on", "inside"} :
        PickTemplate(scene).on = Phrase(how, scene.furniture[i])
  BY PickOnIsChosen
<1>2. PickTemplate(scene).on.thing = ToReadableName(scene.furniture[i].name)
  BY <1>1, PhraseNames
<1> QED BY <1>2 DEF Below

\* The object that is named as near is the only one of its name, is within
\* three metres, and is neither of the name of the object to take nor of the
\* furniture of either sentence.
THEOREM NearbyIsUnambiguous ==
  ASSUME NEW scene \in Scenes, PickTemplate(scene).near # NoPhrase
  PROVE  LET name == Lowered(PickTemplate(scene).near.thing)
         IN  /\ name \notin PickBans(scene) \cup Mentioned(PickTemplate(scene).on)
             /\ \E i \in DOMAIN scene.objects :
                  /\ Key(scene.objects[i]) = name
                  /\ DistSq(scene.target.at, scene.objects[i].at) <= NEAR_RANGE_SQ
                  /\ \A j \in DOMAIN scene.objects : Key(scene.objects[j]) = name => j = i
<1> DEFINE p == scene.target.at
           banned == PickBans(scene) \cup Mentioned(PickTemplate(scene).on)
           near == NearbyObjects(scene, p, banned)
           dist == [i \in DOMAIN scene.objects |-> DistSq(p, scene.objects[i].at)]
           later == [i \in DOMAIN scene.objects |-> Len(scene.objects) - i]
           chosen == FirstLeast(near, dist, later)
<1>1. PickTemplate(scene).near = NearestNearbyObject(scene, p, banned)
  BY DEF PickTemplate
<1>2. near # {} /\ PickTemplate(scene).near = Phrase("near", scene.objects[chosen])
  BY <1>1 DEF NearestNearbyObject
<1>3. near \subseteq DOMAIN scene.objects
  BY DEF NearbyObjects
<1>4. scene.objects \in Seq(Things)
  BY DEF Scenes
<1>5. DOMAIN scene.objects = 1 .. Len(scene.objects) /\ Len(scene.objects) \in Nat
  BY <1>4
<1>6. near \in SUBSET Nat
  <2>1. DOMAIN scene.objects \subseteq Nat
    BY <1>5
  <2> HIDE DEF near
  <2> QED BY <1>3, <2>1
<1>7. ASSUME NEW i \in near PROVE dist[i] \in Nat /\ later[i] \in Nat
  <2> HIDE DEF near
  <2>1. i \in DOMAIN scene.objects
    BY <1>3
  <2>2. scene.objects[i].at \in Points
    <3>1. scene.objects[i] \in Things
      BY <2>1, <1>4
    <3> QED BY <3>1 DEF Things
  <2>3. dist[i] \in Nat
    BY <2>1, <2>2, ScenePlaces, DistancesAreNat
  <2>4. later[i] = Len(scene.objects) - i /\ i \in 1 .. Len(scene.objects)
    BY <2>1, <1>5
  <2> QED BY <2>3, <2>4, <1>5
<1>8. chosen \in near
  <2> HIDE DEF near, dist, later
  <2> QED BY <1>2, <1>6, <1>7, FirstLeastIsIn
<1>9. Lowered(PickTemplate(scene).near.thing) = Key(scene.objects[chosen])
  BY <1>2, PhraseNames
<1> QED BY <1>3, <1>8, <1>9 DEF NearbyObjects

\* The person is told where the destination is whenever some furniture has a
\* name of its own other than the object's.
THEOREM PlaceIsNamed ==
  ASSUME NEW scene \in Scenes, NEW i \in DOMAIN scene.furniture,
         ~IsFusedSlotName(scene, scene.furniture[i]),
         Key(scene.furniture[i]) # Key(scene.target)
  PROVE  PlaceTemplate(scene) # NoPhrase
<1> DEFINE p == scene.destination.at
           size == scene.destination.size
           relation == RelationPhrase(scene, p, size)
           banned == {Key(scene.target)}
           kept == relation.how = "on" /\ Mentioned(relation) \cap banned = {}
<1>1. PlaceTemplate(scene) = OnSlotPhrase(scene, p, size, banned)
  BY DEF PlaceTemplate, PlaceSlot
<1>2. CASE kept
  <2>1. PlaceTemplate(scene) = relation
    BY <1>1, <1>2 DEF OnSlotPhrase
  <2>2. PlaceTemplate(scene).how = "on" /\ NoPhrase.how = ""
    BY <1>2, <2>1 DEF NoPhrase
  <2> QED BY <2>2
<1>3. CASE ~kept
  <2>1. i \in Unbanned(scene, {j \in DOMAIN scene.furniture :
                                 ~IsFusedSlotName(scene, scene.furniture[j])}, banned)
    BY DEF Unbanned
  <2>2. \E thing : PlaceTemplate(scene) = Phrase("on", thing)
    BY <1>1, <1>3, <2>1 DEF OnSlotPhrase
  <2> QED BY <2>2, PhraseMentions
<1> QED BY <1>2, <1>3
=============================================================================
