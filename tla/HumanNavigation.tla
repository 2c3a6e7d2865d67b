--------------------------- MODULE HumanNavigation ---------------------------
(***************************************************************************)
(* The human navigation controller (human_navigation_sample.cpp): it       *)
(* guides a person by short messages to an object and on to its            *)
(* destination. With it the moderator, the person and the avatar's speech. *)
(*                                                                         *)
(* The node has one thread. Each round of its loop runs the callbacks      *)
(* (rclcpp::spin_some), then processPlacementCheck, processGuidanceQueue   *)
(* and the current step; turn says which of them is next. A round takes no *)
(* time: the surroundings move between rounds. A time limit of the node is *)
(* the choice between the pass that sees it and one that does not. What    *)
(* the two sentences name is GuidancePhrases' matter; of the other words   *)
(* (ways, distances, directions) nothing is kept.                          *)
(***************************************************************************)
EXTENDS Naturals, Sequences, FiniteSets

CONSTANTS
  MAX_GUIDANCE_COUNT,            \* messages of a session, 15 in the code
  MAX_AUTOMATIC_GUIDANCE_COUNT,  \* of these automatic ones, 12 in the code
  MaxAsked                       \* questions about the speech under way at a time (bound)

ASSUME GuidanceAssumption ==
  /\ MAX_GUIDANCE_COUNT \in Nat /\ MAX_GUIDANCE_COUNT > 0
  /\ MAX_AUTOMATIC_GUIDANCE_COUNT \in Nat
  /\ MaxAsked \in Nat /\ MaxAsked > 0

VARIABLES
  \* the node
  turn, heard,                 \* what the loop does next; the topics read in this spin, in their order
  step,
  started, informed, finished, \* isStarted, isTaskInfoReceived, isFinished
  cached,                      \* what the cached avatarStatus says of the hands
  awaiting,                    \* awaiting_requested_avatar_status_
  placing,                     \* the flags of the placement check and of the wrong object
  speech,                      \* speechState, see Speeches
  queue, sent, autoSent,       \* guidance_queue_ and the two counts
  completing,                  \* completion_guidance_pending_
  \* the topics
  inbox, ready, taskIn,        \* the moderator's messages; I_am_ready; the task information
  objectAsked,                 \* Get_object_status or its answer is under way, once or more
  speechAsked,                 \* how often Get_speech_state or its answer is
  outdated,                    \* of these, asked before the last message was said
  \* the surroundings
  phase,                       \* the moderator
  hand,                        \* what the person holds
  talking                      \* the avatar is speaking

life     == <<started, informed, finished>>
guidance == <<queue, sent, autoSent, completing>>
lines    == <<ready, objectAsked, speechAsked, outdated>>
node     == <<turn, heard, step, life, cached, awaiting, placing, speech, guidance>>
world    == <<phase, hand, talking>>
vars     == <<node, inbox, taskIn, lines, world>>

Steps    == {"Initialize", "Ready", "WaitTaskInfo", "GuideForTakingObject", "GuideForPlacement"}
Checks   == {"Idle", "DropDelay", "WaitingObjectStatus", "SuccessGrace"}
\* "unflagged": the target's name is reported, its flag is still missing.
Hands    == {"none", "target", "unflagged", "other"}
Names    == {"none", "target", "other"}

Automatic  == 0
Requested  == 1
Transition == 2
Error      == 3
Guidances  == [priority : Automatic .. Error, completes : BOOLEAN]
Guide(p)   == [priority |-> p, completes |-> FALSE]
TaskCompleted == [priority |-> Error, completes |-> TRUE]

\* "Unknown" is None or Speaking, between which nothing makes a difference.
\* "WasSpeakable" is Speakable on the answer to a question asked before the last
\* message was said, which the code cannot know.
Speeches == {"Unknown", "WaitingState", "Speakable", "WasSpeakable"}

Placing == [check : Checks, locked : BOOLEAN, seeking : BOOLEAN, held : BOOLEAN,
            wrongHold : BOOLEAN, lastWrong : Names]
NotPlacing == [check |-> "Idle", locked |-> FALSE, seeking |-> FALSE, held |-> FALSE,
               wrongHold |-> FALSE, lastWrong |-> "none"]

HumanNavigationTypeOK ==
  /\ turn \in {"spin", "step"} /\ step \in Steps
  /\ heard \in 0 .. 2 /\ started \in BOOLEAN /\ informed \in BOOLEAN /\ finished \in BOOLEAN
  /\ awaiting \in BOOLEAN /\ completing \in BOOLEAN
  /\ cached \in Hands /\ placing \in Placing
  /\ speech \in Speeches
  /\ queue \in Seq(Guidances) /\ sent \in Nat /\ autoSent \in Nat
  /\ objectAsked \in BOOLEAN /\ speechAsked \in 0 .. MaxAsked /\ outdated \in 0 .. MaxAsked
  /\ phase \in {"asking", "loading", "running", "ended"}
  /\ hand \in Names /\ talking \in BOOLEAN

Init ==
  /\ turn = "spin" /\ heard = 0 /\ step = "Initialize"
  /\ started = FALSE /\ informed = FALSE /\ finished = FALSE
  /\ cached = "none" /\ awaiting = FALSE /\ placing = NotPlacing
  /\ speech = "Unknown" /\ queue = <<>> /\ sent = 0 /\ autoSent = 0 /\ completing = FALSE
  /\ inbox = <<>> /\ ready = FALSE /\ taskIn = FALSE
  /\ objectAsked = FALSE /\ speechAsked = 0 /\ outdated = 0
  /\ phase = "asking"
  /\ hand = "none" /\ talking = FALSE

-----------------------------------------------------------------------------
(* queueGuidance: the queues that may come of q when g is added.           *)

Queued(q, p) == Cardinality({i \in 1 .. Len(q) : q[i].priority = p})

\* Seeded fault: guidance is still taken when the task is over.
RefusedNotFinished(q, g) ==
  \/ sent >= MAX_GUIDANCE_COUNT
  \/ g.priority = Automatic /\ autoSent + Queued(q, Automatic) >= MAX_AUTOMATIC_GUIDANCE_COUNT

Refused(q, g) ==
  \/ finished
  \/ sent >= MAX_GUIDANCE_COUNT
  \/ g.priority = Automatic /\ autoSent + Queued(q, Automatic) >= MAX_AUTOMATIC_GUIDANCE_COUNT

\* Of these two kinds the queue holds one message, which gets the new text.
Renewed(q, g) ==
  g.priority \in {Automatic, Requested} /\ \E i \in 1 .. Len(q) : q[i].priority = g.priority

\* The last message of a lower priority makes room.
Evicted(q, g) ==
  {SubSeq(q, 1, k - 1) \o SubSeq(q, k + 1, Len(q)) :
     k \in {k \in 1 .. Len(q) : /\ q[k].priority < g.priority
                                /\ \A i \in k + 1 .. Len(q) : q[i].priority >= g.priority}}

\* g goes in front of the first message of a lower priority.
Inserted(q, g) ==
  {SubSeq(q, 1, k) \o <<g>> \o SubSeq(q, k + 1, Len(q)) :
     k \in {k \in 0 .. Len(q) : /\ \A i \in 1 .. k : q[i].priority >= g.priority
                                /\ k < Len(q) => q[k + 1].priority < g.priority}}

\* Seeded fault: what was sent already takes no room.
RoomUnsent(q) == Len(q) < MAX_GUIDANCE_COUNT

Room(q) == Len(q) < MAX_GUIDANCE_COUNT - sent

QueueGuidance(q, g) ==
  IF Refused(q, g) \/ Renewed(q, g) THEN {q}
  ELSE IF Room(q) THEN Inserted(q, g)
  ELSE IF Evicted(q, g) = {} THEN {q}
  ELSE UNION {Inserted(r, g) : r \in Evicted(q, g)}

\* lockPlacementGuidance
LockPlacementGuidance(q, p, next) ==
  /\ q \in QueueGuidance(<<>>, Guide(p))
  /\ placing' = [placing EXCEPT !.locked = TRUE, !.seeking = TRUE, !.check = next]

FinishWithCompletionGuidance ==
  IF finished
  THEN UNCHANGED <<finished, placing, queue, completing>>
  ELSE /\ placing' = [placing EXCEPT !.check = "Idle", !.locked = TRUE]
       /\ queue' \in QueueGuidance(<<>>, TaskCompleted)
       /\ completing' = (queue' # <<>>)
       /\ finished' = TRUE

Reset ==
  /\ started' = FALSE /\ informed' = FALSE /\ finished' = FALSE
  /\ cached' = "none" /\ awaiting' = FALSE /\ placing' = NotPlacing
  /\ speech' = "Unknown" /\ queue' = <<>> /\ sent' = 0 /\ autoSent' = 0 /\ completing' = FALSE

-----------------------------------------------------------------------------
(* The main loop. A question is asked again when its limit is over, whatever *)
(* of the last one is still under way.                                     *)

AskObjectStatus == objectAsked' = TRUE

\* Its result is the queue q that processGuidanceQueue finds.
processPlacementCheck(q) ==
  \/ /\ ~finished /\ placing.check = "DropDelay"
     /\ placing' = [placing EXCEPT !.check = "WaitingObjectStatus"] /\ AskObjectStatus
     /\ q = queue
  \/ /\ ~finished /\ placing.check = "WaitingObjectStatus"  \* timed out
     /\ AskObjectStatus
     /\ q = queue /\ UNCHANGED placing
  \/ /\ ~finished /\ placing.check = "SuccessGrace"
     /\ LockPlacementGuidance(q, Error, "Idle")
     /\ UNCHANGED objectAsked
  \/ q = queue /\ UNCHANGED <<placing, objectAsked>>

\* processGuidanceQueue. After the completion message nothing is said.
Silenced      == finished /\ ~completing
HasMessage(q) == ~Silenced /\ q # <<>> /\ sent < MAX_GUIDANCE_COUNT

SilenceGuidance(q) ==
  /\ Silenced /\ queue' = <<>>
  /\ UNCHANGED <<sent, autoSent, completing, speech, speechAsked, outdated, talking>>

\* Seeded fault: the speech state outlives the message that was sent on it.
SaidStillSpeakable == speech

SaidUnknown == "Unknown"

\* The interval after the last message is over and the avatar does not speak.
\* It begins to when the message arrives.
SayGuidance(q) ==
  /\ HasMessage(q) /\ speech \in {"Speakable", "WasSpeakable"}
  /\ queue' = IF completing THEN <<>> ELSE Tail(q)
  /\ completing' = FALSE
  /\ sent' = sent + 1
  /\ autoSent' = IF Head(q).priority = Automatic THEN autoSent + 1 ELSE autoSent
  /\ speech' = SaidUnknown
  /\ talking' = TRUE /\ outdated' = speechAsked
  /\ UNCHANGED speechAsked

\* Seeded fault: there is no timeout for the speech state.
SpeechUnknownAnswered == speech = "Unknown"

SpeechUnknown == speech \in {"Unknown", "WaitingState"}

\* The poll interval is over, or the timeout while waiting: the question or
\* its answer was lost, or it is late.
AskSpeechState(q) ==
  /\ HasMessage(q) /\ SpeechUnknown /\ speechAsked < MaxAsked
  /\ speech' = "WaitingState" /\ speechAsked' = speechAsked + 1
  /\ queue' = q /\ UNCHANGED <<sent, autoSent, completing, outdated, talking>>

\* Nothing to say, or an interval that is not over.
KeepGuidance(q) ==
  /\ ~Silenced
  /\ queue' = q /\ UNCHANGED <<sent, autoSent, completing, speech, speechAsked, outdated, talking>>

Queues == {queue} \cup QueueGuidance(<<>>, Guide(Error))

\* The part of a round before the step.
Checked(q) ==
  /\ turn = "spin" /\ turn' = "step" /\ heard' = 0
  /\ processPlacementCheck(q)
  /\ UNCHANGED <<step, life, cached, awaiting, inbox, taskIn, ready, phase, hand>>

ForwardRound == \E q \in Queues : Checked(q) /\ (SayGuidance(q) \/ AskSpeechState(q))
QuietRound   == \E q \in Queues : Checked(q) /\ (SilenceGuidance(q) \/ KeepGuidance(q))

stepFrame == <<heard, inbox, taskIn, lines, world>>

Initialize ==
  /\ step = "Initialize" /\ step' = "Ready"
  /\ Reset

Ready ==
  /\ step = "Ready"
  /\ step' = IF started THEN "WaitTaskInfo" ELSE "Ready"
  /\ UNCHANGED <<life, cached, awaiting, placing, speech, guidance>>

WaitTaskInfo ==
  /\ step = "WaitTaskInfo"
  /\ step' = IF informed THEN "GuideForTakingObject" ELSE "WaitTaskInfo"
  /\ UNCHANGED <<life, cached, awaiting, placing, speech, guidance>>

Name(h) == IF h = "unflagged" THEN "target" ELSE h

\* The step goes by the flags of the cached status, the callback by the names
\* too. It asks for a new status at the same time.
GuideForTakingObject ==
  /\ step = "GuideForTakingObject"
  /\ LET wrong    == cached \in {"unflagged", "other"}
         released == placing.wrongHold /\ ~wrong
         p == [placing EXCEPT !.wrongHold = IF released THEN FALSE ELSE @,
                              !.lastWrong = IF released THEN "none" ELSE @]
     IN \E q \in IF released THEN QueueGuidance(<<>>, Guide(Transition)) ELSE {queue} :
          \/ /\ cached = "target"
             /\ queue' \in QueueGuidance(q, Guide(Transition))
             /\ step' = "GuideForPlacement"
             /\ placing' = [NotPlacing EXCEPT !.check = p.check, !.held = TRUE]
          \/ /\ wrong
             /\ queue' \in IF Name(cached) = p.lastWrong THEN {q} ELSE QueueGuidance(q, Guide(Error))
             /\ placing' = [p EXCEPT !.wrongHold = TRUE, !.lastWrong = Name(cached)]
             /\ UNCHANGED step
          \/ /\ cached = "none"
             /\ queue' = q /\ placing' = p
             /\ UNCHANGED step
  /\ UNCHANGED <<life, cached, awaiting, speech, sent, autoSent, completing>>

\* The step GuideForPlacement, and a pass of the other one within 0.1 s of the
\* last: at most the avatar's status is asked for.
GuidePass ==
  /\ step \in {"GuideForTakingObject", "GuideForPlacement"}
  /\ UNCHANGED <<step, life, cached, awaiting, placing, speech, guidance>>

StepPass ==
  /\ turn = "step" /\ turn' = "spin"
  /\ \/ Initialize \/ Ready \/ WaitTaskInfo
     \/ GuideForTakingObject \/ GuidePass
  /\ UNCHANGED stepFrame

Loop == ForwardRound \/ QuietRound \/ StepPass

-----------------------------------------------------------------------------
(* The callbacks. Of each topic at most one message is read in a spin, those *)
(* of the moderator (with the speech state) before the avatar's status.    *)

\* messageCallback
OnMessage(m) ==
  \/ /\ m = "Are_you_ready?"
     /\ started' = TRUE /\ step' = "Ready" /\ ready' = TRUE
     /\ UNCHANGED <<informed, finished, cached, awaiting, placing, speech, guidance>>
  \/ /\ m = "Guidance_request"
     /\ awaiting' = (awaiting \/ (informed /\ ~finished))
     /\ UNCHANGED <<step, life, cached, placing, speech, guidance, ready>>
  \/ /\ m \in {"Task_succeeded", "Task_finished"}
     /\ FinishWithCompletionGuidance
     /\ UNCHANGED <<step, started, informed, cached, awaiting, speech, sent, autoSent,
                    ready>>
  \/ /\ m \in {"Task_failed", "Go_to_next_session"}
     /\ step' = "Initialize" /\ Reset
     /\ UNCHANGED <<ready>>

ReadMessage ==
  /\ turn = "spin" /\ heard = 0 /\ inbox # <<>>
  /\ OnMessage(Head(inbox))
  /\ inbox' = Tail(inbox) /\ heard' = 1
  /\ UNCHANGED <<turn, taskIn, objectAsked, speechAsked, outdated, world>>

\* The node takes an answer to any of its questions as the one to the last. The
\* answers come in the order of the questions; an outdated one may say anything.
OutdatedAnswer ==
  /\ outdated > 0 /\ outdated' = outdated - 1
  /\ speech' \in {"Unknown", "WasSpeakable"}

SpeechAnswer ==
  /\ outdated = 0 /\ UNCHANGED outdated
  /\ speech' = IF talking THEN "Unknown" ELSE "Speakable"

ReadSpeechState ==
  /\ turn = "spin" /\ heard = 0 /\ heard' = 1
  /\ speechAsked > 0 /\ speechAsked' = speechAsked - 1
  /\ OutdatedAnswer \/ SpeechAnswer
  /\ UNCHANGED <<turn, step, life, cached, awaiting, placing, guidance,
                 inbox, taskIn, ready, objectAsked, world>>

ReadTaskInfo ==
  /\ turn = "spin" /\ taskIn
  /\ informed' = TRUE /\ taskIn' = FALSE
  /\ UNCHANGED <<turn, heard, step, started, finished, cached, awaiting, placing, speech, guidance,
                 inbox, lines, world>>

HasTarget(h) == h \in {"target", "unflagged"}

\* avatarStatusMessageCallback notes that the target was put down.
Dropped(h) ==
  IF placing.held /\ ~HasTarget(h)
  THEN [placing EXCEPT !.check = "DropDelay", !.locked = TRUE, !.seeking = TRUE,
                       !.wrongHold = FALSE, !.lastWrong = "none"]
  ELSE placing

\* What it then makes of the hands while placing: the flags and, if any, the
\* priority of the message that replaces the queue.
Reactions(h) ==
  LET p == [Dropped(h) EXCEPT !.held = HasTarget(h)]
      retaken  == HasTarget(h) /\ p.locked
      mistaken == h = "other" /\ (~p.wrongHold \/ p.lastWrong # "other")
      released == h = "none" /\ p.wrongHold
  IN {r \in {[placing |-> [NotPlacing EXCEPT !.held = TRUE], says |-> {Transition}]} : retaken}
     \cup {r \in {[placing |-> [p EXCEPT !.locked = TRUE, !.wrongHold = TRUE, !.lastWrong = "other"],
                   says |-> {Error}]} : mistaken}
     \cup {r \in {[placing |-> [p EXCEPT !.locked = FALSE, !.seeking = TRUE,
                                         !.wrongHold = FALSE, !.lastWrong = "none"],
                   says |-> {Transition}]} : released}
     \cup {r \in {[placing |-> p, says |-> {}]} : ~retaken /\ ~mistaken /\ ~released}

\* No automatic message covers a prompt that is locked.
MayRemind(p) ==
  \/ step = "GuideForPlacement" /\ ~p.locked
  \/ step = "GuideForTakingObject" /\ ~p.wrongHold

\* The guiding steps ask every 0.1 s; what they asked for last may be answered
\* after the task, and is cached then.
Reported == IF hand = "target" THEN {"target", "unflagged"} ELSE {hand}

StatusAsked ==
  awaiting \/ step \in {"GuideForTakingObject", "GuideForPlacement"} \/ phase = "ended"

\* avatarStatusMessageCallback: the reaction, the answer to a request, and the
\* automatic message when its interval is over.
ReadAvatarStatus(h) ==
  /\ turn = "spin" /\ heard < 2 /\ StatusAsked
  /\ heard' = 2
  /\ cached' = h /\ awaiting' = FALSE
  /\ \E r \in IF step = "GuideForPlacement" THEN Reactions(h)
              ELSE {[placing |-> placing, says |-> {}]} :
       /\ placing' = r.placing
       /\ \E q1 \in IF r.says = {} THEN {queue}
                    ELSE UNION {QueueGuidance(<<>>, Guide(p)) : p \in r.says} :
          \E q2 \in IF awaiting /\ ~r.placing.locked THEN QueueGuidance(q1, Guide(Requested))
                    ELSE {q1} :
            \/ queue' = q2
            \/ MayRemind(r.placing) /\ queue' \in QueueGuidance(q2, Guide(Automatic))
  /\ UNCHANGED <<turn, step, life, speech, sent, autoSent, completing,
                 inbox, taskIn, lines, world>>

\* objectStatusMessageCallback. It may be the last that was under way, or not.
ReadObjectStatus ==
  /\ turn = "spin" /\ objectAsked
  /\ objectAsked' \in BOOLEAN
  /\ IF placing.check # "WaitingObjectStatus" THEN UNCHANGED <<finished, placing, queue, completing>>
     ELSE \/ FinishWithCompletionGuidance              \* in the destination
          \/ /\ LockPlacementGuidance(queue', Transition, "SuccessGrace")  \* where it was first
             /\ UNCHANGED <<finished, completing>>
          \/ /\ LockPlacementGuidance(queue', Error, "Idle")               \* elsewhere
             /\ UNCHANGED <<finished, completing>>
  /\ UNCHANGED <<turn, heard, step, started, informed, cached, awaiting, speech, sent, autoSent,
                 inbox, taskIn, ready, speechAsked, outdated, world>>

Callback == ReadMessage \/ ReadSpeechState \/ ReadTaskInfo \/ ReadObjectStatus
            \/ \E h \in Reported : ReadAvatarStatus(h)

-----------------------------------------------------------------------------
(* The moderator, the person and the speech of the avatar.                 *)

\* Of the questions about the speech an outdated one is lost, or another one.
LoseSpeechQuestion ==
  /\ speechAsked > 0 /\ speechAsked' = speechAsked - 1
  /\ \/ outdated > 0 /\ outdated' = outdated - 1
     \/ outdated < speechAsked /\ UNCHANGED outdated

\* The questions about the speech and the object, or their answers, may get
\* lost; the one about the hands is asked again every 0.1 s.
Lose ==
  /\ turn = "spin"
  /\ \/ objectAsked /\ objectAsked' = FALSE /\ UNCHANGED <<speechAsked, outdated>>
     \/ LoseSpeechQuestion /\ UNCHANGED objectAsked
  /\ UNCHANGED <<node, inbox, taskIn, ready, world>>

\* This may happen in the middle of a round too.
EndSpeech ==
  /\ talking /\ talking' = FALSE
  /\ UNCHANGED <<node, inbox, taskIn, lines, phase, hand>>

\* The hands change more slowly than the node asks for them.
HandsKnown == phase = "running" /\ Name(cached) = hand

TakeObject ==
  /\ turn = "spin" /\ HandsKnown /\ hand = "none"
  /\ hand' \in {"target", "other"}
  /\ UNCHANGED <<node, inbox, taskIn, lines, phase, talking>>

PutObject ==
  /\ turn = "spin" /\ HandsKnown /\ hand # "none"
  /\ hand' = "none"
  /\ UNCHANGED <<node, inbox, taskIn, lines, phase, talking>>

moderatorFrame == <<node, objectAsked, speechAsked, outdated, talking>>

\* The question is repeated until it is answered.
AskReady ==
  /\ turn = "spin" /\ phase = "asking" /\ inbox = <<>> /\ ~ready
  /\ inbox' = <<"Are_you_ready?">>
  /\ UNCHANGED <<moderatorFrame, taskIn, ready, phase, hand>>

StartTask ==
  /\ turn = "spin" /\ phase = "asking" /\ ready /\ ready' = FALSE
  /\ phase' = "running" /\ taskIn' = TRUE
  /\ UNCHANGED <<moderatorFrame, inbox, hand>>

RequestGuidance ==
  /\ turn = "spin" /\ phase = "running" /\ inbox = <<>>
  /\ inbox' = <<"Guidance_request">>
  /\ UNCHANGED <<moderatorFrame, taskIn, ready, phase, hand>>

\* The verdict, or the time is up, long after the task information was there.
\* (Task_finished, which may also end a session, is handled like Task_succeeded.)
EndTask ==
  /\ turn = "spin" /\ phase = "running" /\ inbox = <<>> /\ ~taskIn
  /\ inbox' \in {<<"Task_failed">>, <<"Task_succeeded">>}
  /\ phase' = "ended"
  /\ UNCHANGED <<moderatorFrame, taskIn, ready, hand>>

\* The next session has a scene of its own. (After the last one the node only
\* notes Mission_complete: there the model stays in "ended".)
NextSession ==
  /\ turn = "spin" /\ phase = "ended" /\ inbox = <<>>
  /\ phase' = "asking" /\ inbox' = <<"Go_to_next_session">>
  /\ hand' = "none"
  /\ UNCHANGED <<moderatorFrame, taskIn, ready>>

Surroundings ==
  \/ Lose \/ EndSpeech
  \/ TakeObject \/ PutObject
  \/ AskReady \/ StartTask \/ RequestGuidance \/ EndTask \/ NextSession

Next == Loop \/ Callback \/ Surroundings

\* The loop goes round and its intervals pass; of the questions about the
\* speech state some are answered, and speech ends. Nothing is assumed of the
\* person, of the moderator or of the other answers.
Fairness ==
  /\ WF_vars(Loop) /\ SF_vars(ForwardRound)
  /\ SF_vars(ReadSpeechState) /\ WF_vars(EndSpeech)

Spec == Init /\ [][Next]_vars /\ Fairness

-----------------------------------------------------------------------------
(* Properties.                                                             *)

\* Messages that wait have their place in the session's limit reserved, and
\* so have the automatic ones in theirs: whatever is queued, replaced, evicted
\* and sent, no message is left over when the limit is reached.
GuidanceWithinBudget ==
  /\ sent + Len(queue) <= MAX_GUIDANCE_COUNT
  /\ autoSent + Queued(queue, Automatic) <= MAX_AUTOMATIC_GUIDANCE_COUNT

\* The node talks over the avatar only on a late answer: while the last message
\* is still spoken another one is said only when the answer it is said on is to
\* a question of before that message, across lost and late answers, timeouts and
\* resets ("it must not assume by itself that the speech is idle").
TalksOverOnlyIfLate == [][sent' = sent + 1 /\ talking => speech = "WasSpeakable"]_vars

\* Once the task is over "Task completed." is all that is still said, and
\* before it is over that is not said.
OnlyCompletionAfterEnd ==
  [][sent' = sent + 1 => finished = (queue # <<>> /\ Head(queue).completes)]_vars

\* What the two rest on. Only an answer makes the speech state speakable, and one
\* to a question asked since the last message says so when the avatar is done.
SpeechIsKnown == speech = "Speakable" => ~talking

\* The completion message is alone in the queue, and only once the task is over.
CompletionIsAlone ==
  IF finished THEN queue \in {<<>>, <<TaskCompleted>>}
              ELSE ~completing /\ \A i \in 1 .. Len(queue) : ~queue[i].completes

\* What is queued does not stay there: it is said or given up, although new
\* messages push in front, answers get lost and the person goes on asking.
GuidanceGetsOut == []<>(queue = <<>>)

=============================================================================
