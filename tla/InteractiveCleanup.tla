-------------------------- MODULE InteractiveCleanup --------------------------
(***************************************************************************)
(* The interactive cleanup controller (interactive_cleanup_sample.cpp)     *)
(* with the moderator, whose avatar points at an object and at a place     *)
(* for it, and the Nav2 action server.                                     *)
(*                                                                         *)
(* The node has one thread: it alternates rclcpp::spin_some, which runs    *)
(* each subscription's callback at most once, with one pass of             *)
(* runStateMachine. The passes are the actions of Loop; a timed wait is    *)
(* the choice between another pass and the pass that sees the timeout.     *)
(* No goal is ever cancelled, and a goal has no identity for the callbacks *)
(* of the action client. Poses, arm, head and camera servoing are left     *)
(* out: what they decide is a choice.                                      *)
(***************************************************************************)
EXTENDS Naturals, Sequences

CONSTANTS
  NTasks,      \* tasks of the mission
  MaxRepeats,  \* how often the avatar points again within a task (bound)
  Slots,       \* goals the action server knows at a time (bound)
  None

ASSUME CleanupAssumption == NTasks \in Nat /\ NTasks > 0 /\ MaxRepeats \in Nat

MAX_POINT_AGAIN   == 2
MAX_GRASP_RETRIES == 2

Tasks == 1 .. NTasks
\* A pointing of the avatar: the task and how often it had pointed before.
Pointings == [task : Tasks, round : 0 .. MaxRepeats]

VARIABLES
  \* the node
  step, sub,                  \* step_, sub_step_
  started, finished, failed,  \* is_started_, is_finished_, is_failed_
  pickCmd, cleanCmd,          \* received_pick_command_, received_clean_command_: for which pointing
  window,                     \* what the cue capture window holds
  pickCue, placeCue,          \* the latched cues: their pointing and what was seen of it
  target, dest,               \* the pointing that target_ and dest_ were resolved from
  again, retries,             \* point_again_count_, grasp_retry_count_
  sent,                       \* nav_goal_sent_
  reached,                    \* what the goal was for that set nav_goal_reached_, or None
  navFailed,                  \* nav_goal_failed_
  heard,                      \* a message came in the spin before the next pass
  \* its surroundings
  nav,                        \* the goals at the action server
  inbox, outbox,              \* the messages from and to the moderator
  task, phase, repeats        \* the moderator: task, progress, repeated pointings

told      == <<started, finished, failed, pickCmd, cleanCmd>>
cues      == <<window, pickCue, placeCue, target, dest>>
counts    == <<again, retries>>
navFlags  == <<sent, reached, navFailed>>
navVars   == <<navFlags, nav>>
moderator == <<task, phase, repeats>>
vars == <<step, sub, told, cues, counts, navVars, heard, inbox, outbox, moderator>>

\* The steps between a resolved destination and the report.
Acting == {"PlanPregrasp", "NavigateToPregrasp", "DeployArmForApproach", "HandCameraApproach",
           "CloseAndVerifyGrasp", "SendObjectGrasped", "MoveToDestination", "ReleaseObject",
           "SendTaskFinished"}
Steps == Acting \cup {"Initialize", "Ready", "WaitForPickTrackAvatar", "ResolvePickTarget",
           "WaitForCleanTrackAvatar", "ResolvePlaceDestination", "WaitForResult", "Shutdown"}
\* What the perception may have seen in a stretch of time: an object with a
\* position, an arm that points to a region.
Seen  == {{}, {"object"}, {"pointing"}}
Cues  == [at : Pointings, seen : Seen]
Aims  == [task : Tasks, aim : {"pregrasp", "destination"}]

ASSUME NoneAssumption == None \notin Pointings \cup Cues

TypeOK ==
  /\ step \in Steps /\ sub \in 0 .. 3
  /\ {started, finished, failed, sent, navFailed, heard} \subseteq BOOLEAN
  /\ window \in Seen
  /\ {pickCmd, cleanCmd, target, dest} \subseteq Pointings \cup {None}
  /\ {pickCue, placeCue} \subseteq Cues \cup {None}
  /\ again \in 0 .. MAX_POINT_AGAIN /\ retries \in 0 .. MAX_GRASP_RETRIES
  /\ reached \in Aims \cup {None}
  /\ nav \in [Slots -> [at : {"free"}] \cup
                       [at : {"sent", "executing", "succeeded", "failed"}, for : Aims]]
  /\ task \in Tasks /\ repeats \in 0 .. MaxRepeats
  /\ phase \in {"waiting", "pointing", "pointed", "grasped", "over"}

Pointing == [task |-> task, round |-> repeats]
Message(m) == [m |-> m, at |-> Pointing]

Init ==
  /\ step = "Initialize" /\ sub = 0
  /\ started = FALSE /\ finished = FALSE /\ failed = FALSE /\ pickCmd = None /\ cleanCmd = None
  /\ window = {} /\ pickCue = None /\ placeCue = None /\ target = None /\ dest = None
  /\ again = 0 /\ retries = 0
  /\ sent = FALSE /\ reached = None /\ navFailed = FALSE /\ heard = FALSE
  /\ nav = [g \in Slots |-> [at |-> "free"]]
  /\ task = 1 /\ phase = "waiting" /\ repeats = 0
  /\ inbox = <<Message("Are_you_ready?")>> /\ outbox = <<>>

-----------------------------------------------------------------------------
(* The passes of runStateMachine.                                          *)

At(s, k) == ~failed /\ step = s /\ sub = k
Goto(s)  == step' = s /\ sub' = 0
Say(m)   == outbox' = Append(outbox, m)
GiveUp   == Goto("WaitForResult") /\ Say("Give_up")

\* A message is read within one spin, a timeout or time limit of the node or of
\* the moderator lasts a minute: none of these finds a message under way that
\* was there when it began. An assumption on timing: the code has no such guard.
MinutePasses == inbox = <<>> /\ outbox = <<>>

\* The handler of is_failed_ at the top: nothing else is reset yet, and no
\* goal is cancelled.
Failure ==
  /\ failed
  /\ failed' = FALSE /\ step' = "Initialize"
  /\ UNCHANGED <<sub, started, finished, pickCmd, cleanCmd, cues, counts, navVars, outbox>>

\* reset(): the goals of the last task stay with the action server.
Reset ==
  /\ started' = FALSE /\ finished' = FALSE /\ failed' = FALSE
  /\ pickCmd' = None /\ cleanCmd' = None
  /\ window' = {} /\ pickCue' = None /\ placeCue' = None /\ target' = None /\ dest' = None
  /\ again' = 0 /\ retries' = 0
  /\ sent' = FALSE /\ reached' = None /\ navFailed' = FALSE

Initialize ==
  /\ ~failed /\ step = "Initialize"
  /\ Goto("Ready")
  /\ Reset
  /\ UNCHANGED <<nav, outbox>>

\* The second I_am_ready of a handshake comes within the resend interval of
\* the callback's and is not sent.
Ready ==
  /\ At("Ready", 0) /\ started
  /\ Goto("WaitForPickTrackAvatar")
  /\ UNCHANGED <<told, cues, counts, navVars, outbox>>

\* latchPickCueFromRecentObservations, latchPlaceCueFromRecentObservations:
\* what is older than the window is pruned first, and the first pass of a
\* step has just emptied it.
Latched(pointing) ==
  {[at |-> pointing, seen |-> s] : s \in SUBSET (IF sub = 0 THEN {} ELSE window)}

WaitForPick ==
  /\ ~failed /\ step = "WaitForPickTrackAvatar"
  /\ window' = {}
  /\ \/ /\ sub = 0 /\ pickCmd = None
        /\ sub' = 1 /\ pickCue' = None
        /\ UNCHANGED <<step, pickCmd>>
     \/ /\ pickCmd # None
        /\ pickCue' \in Latched(pickCmd) /\ pickCmd' = None
        /\ Goto("WaitForCleanTrackAvatar")
  /\ IF sub = 0 THEN placeCue' = None /\ target' = None /\ dest' = None
                ELSE UNCHANGED <<placeCue, target, dest>>
  /\ UNCHANGED <<started, finished, failed, cleanCmd, counts, navVars, outbox>>

WaitForClean ==
  /\ ~failed /\ step = "WaitForCleanTrackAvatar"
  /\ window' = {}
  /\ \/ /\ sub = 0 /\ cleanCmd = None
        /\ sub' = 1 /\ placeCue' = None
        /\ UNCHANGED <<step, cleanCmd>>
     \/ /\ cleanCmd # None
        /\ placeCue' \in Latched(cleanCmd) /\ cleanCmd' = None
        /\ Goto("ResolvePickTarget")
  /\ UNCHANGED <<started, finished, failed, pickCmd, pickCue, target, dest, counts, navVars, outbox>>

\* No command for TIMEOUT_WAIT_COMMAND seconds.
CommandTimeout ==
  /\ \/ At("WaitForPickTrackAvatar", 1) /\ pickCmd = None
     \/ At("WaitForCleanTrackAvatar", 1) /\ cleanCmd = None
  /\ MinutePasses
  /\ GiveUp
  /\ UNCHANGED <<told, cues, counts, navVars>>

\* resolvePickTarget scores every object that was seen and takes the best: it
\* needs no pointing, which only adds to the score.
ResolvesPick(seen) == "object" \in seen

\* resolvePlaceDestination needs a valid pointing with a region ahead of it.
ResolvesPlace(seen) == "pointing" \in seen

PickResolved ==
  /\ target' = pickCue.at /\ again' = 0
  /\ Goto("ResolvePlaceDestination")
  /\ UNCHANGED <<window, pickCue, placeCue, dest, outbox>>

ResolveLatchedPick ==
  /\ At("ResolvePickTarget", 0)
  /\ \/ ResolvesPick(pickCue.seen) /\ PickResolved
     \/ /\ ~ResolvesPick(pickCue.seen)
        /\ sub' = 1
        /\ UNCHANGED <<step, cues, again, outbox>>
  /\ UNCHANGED <<told, retries, navVars>>

\* runPointingAlignment is done or out of time; the head sweep begins.
AlignmentEnds ==
  /\ At("ResolvePickTarget", 1)
  /\ sub' = 2
  /\ UNCHANGED <<step, told, cues, counts, navVars, outbox>>

\* The avatar is asked to point again, if that was not tried too often.
AskToPointAgain(from) ==
  IF again < MAX_POINT_AGAIN
  THEN /\ again' = again + 1 /\ Say("Point_it_again")
       /\ placeCue' = None /\ window' = {}
       /\ Goto(from)
  ELSE GiveUp /\ UNCHANGED <<again, placeCue, window>>

\* The sweep is complete. It looked for objects only.
ResolveObservedPick ==
  /\ At("ResolvePickTarget", 2)
  /\ \E seen \in SUBSET {"object"} :
       IF ResolvesPick(seen)
       THEN PickResolved
       ELSE /\ AskToPointAgain("WaitForPickTrackAvatar")
            /\ pickCue' = IF again < MAX_POINT_AGAIN THEN None ELSE pickCue
            /\ UNCHANGED <<target, dest>>
  /\ UNCHANGED <<told, retries, navVars>>

ResolvePlace ==
  /\ At("ResolvePlaceDestination", 0)
  /\ IF ResolvesPlace(placeCue.seen)
     THEN /\ dest' = placeCue.at /\ again' = 0
          /\ Goto("PlanPregrasp")
          /\ UNCHANGED <<window, placeCue, outbox>>
     ELSE AskToPointAgain("WaitForCleanTrackAvatar") /\ UNCHANGED dest
  /\ UNCHANGED <<told, pickCue, target, retries, navVars>>

\* buildPregraspPlanFromTarget needs the transform to the base; it is tried
\* for a second.
PlanPregrasp ==
  /\ At("PlanPregrasp", 0)
  /\ \/ Goto("NavigateToPregrasp") /\ UNCHANGED outbox
     \/ GiveUp
  /\ UNCHANGED <<told, cues, counts, navVars>>

\* sendNavGoal. When the action server does not show up in 10 s only
\* nav_goal_failed_ is set.
SendNavGoal(aim) ==
  \/ \E g \in Slots :
       /\ nav[g].at = "free"
       /\ nav' = [nav EXCEPT ![g] = [at |-> "sent", for |-> [task |-> target.task, aim |-> aim]]]
       /\ sent' = TRUE /\ reached' = None /\ navFailed' = FALSE
  \/ navFailed' = TRUE /\ UNCHANGED <<sent, reached, nav>>

\* case 0 of both moves: without a pose in the map there is no goal.
StartMove(s, aim) ==
  /\ At(s, 0)
  /\ \/ SendNavGoal(aim) /\ sub' = 1 /\ UNCHANGED <<step, outbox>>
     \/ GiveUp /\ UNCHANGED navVars
  /\ UNCHANGED <<told, cues, counts>>

\* case 1: reached goes before failed, and a goal may be out for
\* TIMEOUT_MOVE seconds, in which nothing is cancelled.
Arrive(s, next) ==
  /\ At(s, 1) /\ reached # None
  /\ Goto(next)
  /\ UNCHANGED <<told, cues, counts, navVars, outbox>>
\* Seeded fault: a navigation that failed is tried again from the start.
MoveFailsRetried(s) ==
  /\ At(s, 1) /\ reached = None /\ (navFailed \/ ~sent)
  /\ Goto("PlanPregrasp")
  /\ UNCHANGED <<told, cues, counts, navVars, outbox>>

MoveFails(s) ==
  /\ At(s, 1) /\ reached = None /\ (navFailed \/ ~sent)
  /\ GiveUp
  /\ UNCHANGED <<told, cues, counts, navVars>>
\* Seeded fault: a goal that is out is waited for however long it takes.
OutOfTimeWithoutGoal(s) == At(s, 1) /\ MinutePasses /\ ~sent

OutOfTime(s) == At(s, 1) /\ MinutePasses

MoveTimeout(s) ==
  /\ OutOfTime(s) /\ GiveUp
  /\ UNCHANGED <<told, cues, counts, navVars>>

Move ==
  \/ StartMove("NavigateToPregrasp", "pregrasp") \/ StartMove("MoveToDestination", "destination")
  \/ Arrive("NavigateToPregrasp", "DeployArmForApproach")
  \/ Arrive("MoveToDestination", "ReleaseObject")
  \/ \E s \in {"NavigateToPregrasp", "MoveToDestination"} : MoveFails(s) \/ MoveTimeout(s)

\* Steps that only take their time: 1.7 s for the arm, 9 s for the release.
Timed(s, next) ==
  /\ At(s, 0)
  /\ Goto(next)
  /\ UNCHANGED <<told, cues, counts, navVars, outbox>>

\* Another approach, after backing off for 0.8 s.
Retry(backOff) ==
  IF retries < MAX_GRASP_RETRIES
  THEN retries' = retries + 1 /\ sub' = backOff /\ UNCHANGED <<step, outbox>>
  ELSE GiveUp /\ UNCHANGED retries

\* The servo brings the target into the grasp window, or it is lost for
\* seven frames or not reached in 8 s.
HandCameraApproach ==
  /\ At("HandCameraApproach", 0)
  /\ \/ Goto("CloseAndVerifyGrasp") /\ UNCHANGED <<retries, outbox>>
     \/ Retry(2)
  /\ UNCHANGED <<told, cues, again, navVars>>

\* verifyCurrentGrasp: the gripper did not close fully, the hand camera sees the
\* target, or the head has seen objects at all and the target not among them.
Verified(holds, hand, fresh, visible) == holds \/ hand \/ (fresh /\ ~visible)

\* The gripper closes; the grasp is verified two seconds later.
CloseAndVerify ==
  /\ At("CloseAndVerifyGrasp", 0)
  /\ \E holds, hand, fresh, visible \in BOOLEAN :
       IF Verified(holds, hand, fresh, visible)
       THEN Goto("SendObjectGrasped") /\ UNCHANGED <<retries, outbox>>
       ELSE Retry(3)
  /\ UNCHANGED <<told, cues, again, navVars>>

BackOff ==
  /\ At("HandCameraApproach", 2) \/ At("CloseAndVerifyGrasp", 3)
  /\ Goto("PlanPregrasp")
  /\ UNCHANGED <<told, cues, counts, navVars, outbox>>

Report(s, m, next) ==
  /\ At(s, 0)
  /\ Goto(next) /\ Say(m)
  /\ UNCHANGED <<told, cues, counts, navVars>>

\* Task_succeeded, or TIMEOUT_WAIT_RESULT.
WaitForResult ==
  /\ At("WaitForResult", 0) /\ (finished \/ MinutePasses)
  /\ Goto("Initialize")
  /\ UNCHANGED <<told, cues, counts, navVars, outbox>>

Pass ==
  /\ \/ Failure \/ Initialize \/ Ready
     \/ WaitForPick \/ WaitForClean \/ CommandTimeout
     \/ ResolveLatchedPick \/ AlignmentEnds \/ ResolveObservedPick \/ ResolvePlace
     \/ PlanPregrasp \/ Move
     \/ Timed("DeployArmForApproach", "HandCameraApproach")
     \/ HandCameraApproach \/ CloseAndVerify \/ BackOff
     \/ Report("SendObjectGrasped", "Object_grasped", "MoveToDestination")
     \/ Timed("ReleaseObject", "SendTaskFinished")
     \/ Report("SendTaskFinished", "Task_finished", "WaitForResult")
     \/ WaitForResult
  /\ heard' = FALSE
  /\ UNCHANGED <<inbox, moderator>>

\* A pass that goes on waiting.
Idle ==
  /\ heard /\ ~failed
  /\ \/ step = "Ready" /\ ~started
     \/ At("WaitForPickTrackAvatar", 1) /\ pickCmd = None
     \/ At("WaitForCleanTrackAvatar", 1) /\ cleanCmd = None
     \/ step \in {"NavigateToPregrasp", "MoveToDestination"} /\ sub = 1
          /\ reached = None /\ ~navFailed /\ sent
     \/ step = "ResolvePickTarget" /\ sub \in {1, 2}
     \/ step \in {"PlanPregrasp", "DeployArmForApproach", "HandCameraApproach",
                  "CloseAndVerifyGrasp", "ReleaseObject"}
     \/ step = "WaitForResult" /\ ~finished
  /\ heard' = FALSE
  /\ UNCHANGED <<step, sub, told, cues, counts, navVars, inbox, outbox, moderator>>

-----------------------------------------------------------------------------
(* The callbacks.                                                          *)

\* handleIncomingMessage. Nothing is kept of a message that comes in another
\* step than the one that waits for it; the verdicts count in every step.
OnReady(msg) ==
  \/ /\ msg.m = "Are_you_ready?" /\ step = "Ready"
     /\ started' = TRUE /\ Say("I_am_ready")
     /\ UNCHANGED <<step, finished, failed, pickCmd, cleanCmd>>
  \/ /\ msg.m = "Are_you_ready?" /\ step = "WaitForPickTrackAvatar"
     /\ Say("I_am_ready") \/ UNCHANGED outbox  \* within 0.5 s of the last
     /\ UNCHANGED <<step, told>>
OnCommand(msg) ==
  \/ /\ msg.m = "Pick_it_up!" /\ step = "WaitForPickTrackAvatar"
     /\ pickCmd' = msg.at
     /\ UNCHANGED <<step, started, finished, failed, cleanCmd, outbox>>
  \/ /\ msg.m = "Clean_up!" /\ step = "WaitForCleanTrackAvatar"
     /\ cleanCmd' = msg.at
     /\ UNCHANGED <<step, started, finished, failed, pickCmd, outbox>>
\* Seeded fault: a failure counts only where the robot waits for the verdict.
OnVerdictAwaited(msg) ==
  /\ msg.m \in {"Task_succeeded", "Task_failed", "Mission_complete"}
  /\ finished' = (finished \/ msg.m = "Task_succeeded")
  /\ failed' = (failed \/ (msg.m = "Task_failed" /\ step = "WaitForResult"))
  /\ step' = IF msg.m = "Mission_complete" THEN "Shutdown" ELSE step
  /\ UNCHANGED <<started, pickCmd, cleanCmd, outbox>>

OnVerdict(msg) ==
  /\ msg.m \in {"Task_succeeded", "Task_failed", "Mission_complete"}
  /\ finished' = (finished \/ msg.m = "Task_succeeded")
  /\ failed' = (failed \/ msg.m = "Task_failed")
  /\ step' = IF msg.m = "Mission_complete" THEN "Shutdown" ELSE step
  /\ UNCHANGED <<started, pickCmd, cleanCmd, outbox>>
Accepts(m) ==
  \/ m = "Are_you_ready?" /\ step \in {"Ready", "WaitForPickTrackAvatar"}
  \/ m = "Pick_it_up!" /\ step = "WaitForPickTrackAvatar"
  \/ m = "Clean_up!" /\ step = "WaitForCleanTrackAvatar"
  \/ m \in {"Task_succeeded", "Task_failed", "Mission_complete"}

\* Seeded fault: spin_some works off everything that has come in.
SpinAll == TRUE

\* spin_some runs the callback of a subscription once; the next message waits
\* for the next spin. The moderator's messages come on the one topic it is known
\* to use: nobody publishes on /hsrb/message/to_robot, which the node subscribes
\* to with the same handler. A moderator that used both could have two messages
\* handled in one spin.
SpinOnce == ~heard

Receive ==
  /\ step # "Shutdown" /\ inbox # <<>> /\ SpinOnce
  /\ LET msg == Head(inbox)
     IN  \/ OnReady(msg) \/ OnCommand(msg) \/ OnVerdict(msg)
         \/ ~Accepts(msg.m) /\ UNCHANGED <<step, told, outbox>>
  /\ inbox' = Tail(inbox) /\ heard' = TRUE
  /\ UNCHANGED <<sub, cues, counts, navVars, moderator>>

\* objectsCallback, pointingCallback: of the two, the one that the cue of the
\* step is resolved from.
Observe ==
  /\ window = {}
  /\ \/ step = "WaitForPickTrackAvatar" /\ window' = {"object"}
     \/ step = "WaitForCleanTrackAvatar" /\ window' = {"pointing"}
  /\ UNCHANGED <<step, sub, told, pickCue, placeCue, target, dest, counts, navVars, heard,
                 inbox, outbox, moderator>>

navFrame == <<step, sub, told, cues, counts, heard, inbox, outbox, moderator>>

\* result_callback, and goal_response_callback of a refused goal, of whatever
\* goal it is.
NavResult(g) ==
  /\ step # "Shutdown" /\ nav[g].at \in {"succeeded", "failed"}
  /\ sent' = FALSE
  /\ IF nav[g].at = "succeeded" THEN reached' = nav[g].for /\ UNCHANGED navFailed
                                ELSE navFailed' = TRUE /\ UNCHANGED reached
  /\ nav' = [nav EXCEPT ![g] = [at |-> "free"]]
  /\ UNCHANGED navFrame

-----------------------------------------------------------------------------
(* The Nav2 action server: a goal it accepts takes the place of the one it *)
(* carries out. What it does after the mission is nobody's concern.        *)

NavAccept(g) ==
  /\ phase # "over" /\ nav[g].at = "sent"
  /\ nav' = [h \in Slots |->
       IF h = g THEN [nav[g] EXCEPT !.at = "executing"]
       ELSE IF nav[h].at = "executing" THEN [nav[h] EXCEPT !.at = "failed"] ELSE nav[h]]
  /\ UNCHANGED <<navFlags, navFrame>>

NavFinish(g) ==
  /\ phase # "over"
  /\ \/ nav[g].at = "executing" /\ nav' = [nav EXCEPT ![g].at = "succeeded"]
     \/ nav[g].at \in {"sent", "executing"} /\ nav' = [nav EXCEPT ![g].at = "failed"]
  /\ UNCHANGED <<navFlags, navFrame>>

-----------------------------------------------------------------------------
(* The moderator and its avatar.                                           *)

node == <<step, sub, told, cues, counts, navVars, heard>>

\* The question is repeated while no answer was read; no third one goes out
\* while two answers are under way (bound).
AskAgain ==
  /\ phase = "waiting" /\ inbox = <<>> /\ Len(outbox) < 2
  /\ inbox' = <<Message("Are_you_ready?")>>
  /\ UNCHANGED <<outbox, moderator, node>>

\* The avatar has pointed at the place too.
PointAtPlace ==
  /\ phase = "pointing"
  /\ phase' = "pointed" /\ inbox' = Append(inbox, Message("Clean_up!"))
  /\ UNCHANGED <<outbox, task, repeats, node>>

Verdict(m) ==
  IF task < NTasks
  THEN /\ task' = task + 1 /\ phase' = "waiting" /\ repeats' = 0
       /\ inbox' = inbox \o <<Message(m), [m |-> "Are_you_ready?",
                                           at |-> [task |-> task + 1, round |-> 0]]>>
  ELSE /\ phase' = "over" /\ UNCHANGED <<task, repeats>>
       /\ inbox' = inbox \o <<Message(m), Message("Mission_complete")>>

TimeUp ==
  /\ phase # "over" /\ MinutePasses
  /\ Verdict("Task_failed")
  /\ UNCHANGED <<outbox, node>>

\* The avatar points at the object, for the n-th time after the first.
PointAtObject(n) ==
  /\ phase' = "pointing" /\ repeats' = n
  /\ inbox' = Append(inbox, [m |-> "Pick_it_up!", at |-> [task |-> task, round |-> n]])
  /\ UNCHANGED task

Expected(m) ==
  \/ m = "I_am_ready" /\ phase = "waiting"
  \/ m = "Point_it_again" /\ phase = "pointed" /\ repeats < MaxRepeats
  \/ m = "Object_grasped" /\ phase = "pointed"
  \/ m = "Task_finished" /\ phase = "grasped"
  \/ m = "Give_up" /\ phase \notin {"waiting", "over"}

Judge ==
  /\ outbox # <<>> /\ outbox' = Tail(outbox)
  /\ LET m == Head(outbox)
     IN  \/ m = "I_am_ready" /\ Expected(m) /\ PointAtObject(0)
         \/ m = "Point_it_again" /\ Expected(m) /\ PointAtObject(repeats + 1)
         \/ m = "Object_grasped" /\ Expected(m) /\ phase' = "grasped"
              /\ UNCHANGED <<inbox, task, repeats>>
         \/ m = "Task_finished" /\ Expected(m) /\ (Verdict("Task_succeeded") \/ Verdict("Task_failed"))
         \/ m = "Give_up" /\ Expected(m) /\ Verdict("Task_failed")
         \/ ~Expected(m) /\ UNCHANGED <<inbox, moderator>>
  /\ UNCHANGED node

Next ==
  \/ Pass \/ Idle \/ Receive \/ Observe
  \/ AskAgain \/ PointAtPlace \/ TimeUp \/ Judge
  \/ \E g \in Slots : NavResult(g) \/ NavAccept(g) \/ NavFinish(g)

\* The node loops for ever, and its timeouts pass; messages are delivered; the
\* moderator keeps asking and reads what it is sent. Nothing is assumed of
\* Nav2, of the perception, or of the moderator's patience.
Fairness ==
  /\ WF_vars(Pass) /\ WF_vars(Idle) /\ WF_vars(Receive)
  /\ WF_vars(AskAgain) /\ WF_vars(Judge)

Spec == Init /\ [][Next]_vars /\ Fairness

-----------------------------------------------------------------------------
(* Properties.                                                             *)

FailureUnderWay == failed \/ \E i \in 1 .. Len(inbox) : inbox[i].m = "Task_failed"

\* While the robot acts, it acts on the place the avatar pointed at last, and
\* on an object of the same task, unless Task_failed is known or on its way:
\* across repeated pointings, repeated handshakes, late messages and the cues
\* that are kept when only the place is pointed at again.
ActsOnLatestPointing ==
  step \in Acting /\ ~FailureUnderWay =>
    /\ dest = Pointing
    /\ target.task = task

\* A command the avatar gives is never dropped by a robot that is in the middle
\* of the task: it is waiting for it when it comes. (The object pointed at again
\* when the robot only lost the place is the exception the code makes.)
NoCommandLost ==
  [][inbox # <<>> /\ inbox' = Tail(inbox) /\ Head(inbox).m \in {"Pick_it_up!", "Clean_up!"} =>
       \/ Accepts(Head(inbox).m)
       \/ step \in {"WaitForResult", "Initialize"} \/ (step = "Ready" /\ ~started)
       \/ Head(inbox).m = "Pick_it_up!" /\ step = "WaitForCleanTrackAvatar"
            /\ Head(inbox).at.round > 0]_vars

\* Whatever Nav2, the perception and the moderator do or fail to do, the robot
\* gets back to where it can take a task: every wait of the node ends, and so
\* do the repeated grasps. The repeated pointings end because the avatar's do
\* (MaxRepeats): the node itself would go on asking for the place for ever,
\* since every pass through ResolvePickTarget sets point_again_count_ to 0.
SessionEnds == []<>(step \in {"Ready", "Shutdown"})

\* What the robot reports is what the moderator of a task under way expects
\* next, or comes after the verdict: a grasp that is retried, a pointing that is
\* repeated and a session that is cut short never make it report a milestone
\* twice, out of order, or into the next task.
ReportsAreExpected ==
  [][outbox # <<>> /\ outbox' = Tail(outbox) /\ phase \notin {"waiting", "over"} =>
       \/ Expected(Head(outbox))
       \/ Head(outbox) = "I_am_ready" \/ (Head(outbox) = "Point_it_again" /\ repeats = MaxRepeats)]_vars

-----------------------------------------------------------------------------
(* Why the safety properties hold: where the robot is in the conversation, *)
(* for every phase of the task.                                            *)

Reports  == {"I_am_ready", "Point_it_again", "Object_grasped", "Task_finished", "Give_up"}
Orders   == {"Are_you_ready?", "Pick_it_up!", "Clean_up!", "Task_succeeded", "Task_failed",
             "Mission_complete"}
Messages == [m : Orders, at : Pointings]
ChannelsOK == inbox \in Seq(Messages) /\ outbox \in Seq(Reports)

InboxIs(ms) == Len(inbox) = Len(ms) /\ \A i \in 1 .. Len(ms) : inbox[i].m = ms[i]
Said(m)     == \E i \in 1 .. Len(outbox) : outbox[i] = m

\* The steps after the object was reported as grasped.
Bringing == {"MoveToDestination", "ReleaseObject", "SendTaskFinished"}

\* A step has what it works on, whatever it was told meanwhile.
StepHasItsCues ==
  /\ pickCmd # None  => step \in {"WaitForPickTrackAvatar", "Initialize", "Shutdown"}
  /\ cleanCmd # None => step \in {"WaitForCleanTrackAvatar", "Initialize", "Shutdown"}
  /\ step \in {"WaitForCleanTrackAvatar", "ResolvePickTarget", "ResolvePlaceDestination"}
       => pickCue # None
  /\ step \in {"ResolvePickTarget", "ResolvePlaceDestination"} => placeCue # None
  /\ step \in Acting \cup {"ResolvePlaceDestination"} => target # None
  /\ step \in Acting => dest # None

\* Ready, with the answer on its way.
Answered ==
  \/ step = "Ready" /\ started /\ heard
  \/ step = "WaitForPickTrackAvatar" /\ pickCmd = None

\* Between two tasks, with the last one forgotten: when the robot is ready, its
\* answer is the last thing that it said, and nothing but answers follows one.
BetweenTasks ==
  /\ phase = "waiting" /\ ~failed
  /\ InboxIs(<<>>) \/ InboxIs(<<"Are_you_ready?">>)
  /\ \/ step = "Initialize" /\ ~Said("I_am_ready")
     \/ step = "Ready" /\ ~started /\ ~finished /\ ~Said("I_am_ready")
     \/ Answered /\ ~finished /\ outbox # <<>> /\ outbox[Len(outbox)] = "I_am_ready"
  /\ \A i, j \in 1 .. Len(outbox) :
       i < j /\ outbox[i] = "I_am_ready" => outbox[j] = "I_am_ready"

\* The mission is over, or its end is all that the robot has not heard of.
MissionOver ==
  /\ phase = "over" /\ ~failed
  /\ InboxIs(<<>>) \/ InboxIs(<<"Mission_complete">>)
  /\ step \in {"Initialize", "Shutdown"} \/ (step = "Ready" /\ ~started)

\* The moderator is done with a task and the robot is not: the verdict is on its
\* way, or has just been read.
VerdictDue ==
  LET then == IF phase = "waiting" THEN "Are_you_ready?" ELSE "Mission_complete"
  IN  /\ phase \in {"waiting", "over"} /\ step # "Shutdown" /\ ~Said("I_am_ready")
      /\ \/ failed /\ heard /\ InboxIs(<<then>>)
         \/ ~failed /\ finished /\ step = "WaitForResult" /\ heard /\ InboxIs(<<then>>)
         \/ ~failed /\ (finished => step = "Initialize") /\ InboxIs(<<"Task_failed", then>>)
         \/ /\ ~failed /\ ~finished /\ step = "WaitForResult"
            /\ InboxIs(<<"Task_succeeded", then>>) \/ InboxIs(<<"Clean_up!", "Task_failed", then>>)

\* The object was pointed at, and the robot does not know yet.
PickAhead ==
  \/ Answered
  \/ /\ step = "WaitForCleanTrackAvatar" /\ cleanCmd = None
     /\ repeats > 0 /\ pickCue.at.task = task

\* The robot knows of the object and waits for the place, unless it gave up.
PickKnown ==
  \/ step = "WaitForPickTrackAvatar" /\ pickCmd = Pointing /\ heard
  \/ step = "WaitForCleanTrackAvatar" /\ cleanCmd = None /\ pickCue.at.task = task
  \/ step = "WaitForResult"

\* The avatar has pointed at both, and the robot knows, or has asked for more.
BothKnown ==
  \/ step = "WaitForCleanTrackAvatar" /\ cleanCmd = Pointing /\ pickCue.at.task = task
  \/ step = "ResolvePickTarget" /\ pickCue.at.task = task /\ placeCue.at = Pointing
  \/ /\ step = "ResolvePlaceDestination"
     /\ pickCue.at.task = task /\ target.task = task /\ placeCue.at = Pointing
  \/ step \in Acting /\ target.task = task /\ dest = Pointing

AskedAgain ==
  \/ step = "WaitForPickTrackAvatar" /\ pickCmd = None
  \/ step = "WaitForCleanTrackAvatar" /\ cleanCmd = None /\ pickCue.at.task = task

\* In the middle of a task: what is on its way to the robot says where it is.
InTask ==
  /\ ~failed /\ ~finished
  /\ \A i \in 1 .. Len(inbox) :
       inbox[i].m \in {"Pick_it_up!", "Clean_up!"} => inbox[i].at = Pointing
  /\ \/ /\ phase = "pointing"
        /\ \/ PickAhead /\ (InboxIs(<<"Are_you_ready?", "Pick_it_up!">>) \/ InboxIs(<<"Pick_it_up!">>))
           \/ PickKnown /\ InboxIs(<<>>)
     \/ /\ phase = "pointed"
        /\ \/ /\ PickAhead
              /\ \/ InboxIs(<<"Are_you_ready?", "Pick_it_up!", "Clean_up!">>)
                 \/ InboxIs(<<"Pick_it_up!", "Clean_up!">>)
           \/ PickKnown /\ InboxIs(<<"Clean_up!">>)
           \/ (BothKnown \/ AskedAgain \/ step = "WaitForResult") /\ InboxIs(<<>>)
     \/ /\ phase = "grasped" /\ InboxIs(<<>>)
        /\ \/ step \in Bringing /\ target.task = task /\ dest = Pointing
           \/ step = "WaitForResult"

\* What the robot has said in the middle of a task and is not read yet.
ReportsInTask ==
  /\ Said("Point_it_again") => phase = "pointed" /\ InboxIs(<<>>) /\ AskedAgain
  /\ Said("Object_grasped") =>
       phase = "pointed" /\ InboxIs(<<>>) /\ step \in Bringing \cup {"WaitForResult"}
  /\ step \in Bringing => phase = "grasped" \/ Said("Object_grasped")
  /\ step = "WaitForResult" => Said("Task_finished") \/ Said("Give_up")
  /\ \A i \in 1 .. Len(outbox) :
       /\ outbox[i] \in {"Task_finished", "Give_up"} =>
            i = Len(outbox) /\ step = "WaitForResult"
       /\ outbox[i] = "Task_finished" =>
            phase = "grasped" \/ \E j \in 1 .. i - 1 : outbox[j] = "Object_grasped"
       /\ \A j \in 1 .. Len(outbox) :
            outbox[i] \in {"Point_it_again", "Object_grasped"} /\ outbox[j] = outbox[i] => i = j

ConversationInv ==
  /\ TypeOK /\ ChannelsOK /\ StepHasItsCues
  /\ BetweenTasks \/ MissionOver \/ VerdictDue \/ (InTask /\ ReportsInTask)
=============================================================================
