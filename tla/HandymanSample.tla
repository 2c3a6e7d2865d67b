---------------------------- MODULE HandymanSample ----------------------------
(***************************************************************************)
(* The one-node handyman controller (handyman_ros2/handyman_sample.cpp)    *)
(* with the moderator and the Nav2 action server it talks to.              *)
(*                                                                         *)
(* The node has one thread. Each pass of the main loop runs one step and   *)
(* then rclcpp::spin_some, which delivers the callbacks that are due; two  *)
(* steps spin the node themselves while they wait ("inner" below). A goal  *)
(* has no identity for the callbacks of the action client: they set flags  *)
(* that the steps read later. Detail that no property tells apart, such as *)
(* poses, the arm and the image coordinates of a detection, is left out.   *)
(***************************************************************************)
EXTENDS HandymanPlaces

CONSTANTS
  Job,        \* the task list: the layout and the text of each task, and what it means
  Goals,      \* navigation goals the node may send (bound)
  RobotPoses  \* where the robot may stand when it looks whether it is in the room

Tasks == 1 .. Len(Job)

ASSUME JobAssumption ==
  /\ Len(Job) \in Nat \ {0}
  /\ \A t \in Tasks : DOMAIN Job[t] = {"layout", "text", "means"} /\ Job[t].layout # None
  /\ \A t \in Tasks : Readable(Job[t].text)

ASSUME NoneAssumption == None \notin Tasks /\ None \notin Goals /\ None \notin Registered

VARIABLES
  \* the node
  step,        \* step_
  inner,       \* the nested wait it is in: one of Waits, "none" or "exited"
  environment, \* ENVIRONMENT
  started, finished, failed,  \* is_started_, is_finished_, is_failed_
  instruction, \* instruction_msg_ and what extractInfo made of it: the task it is of
  patrol,      \* patrol_step
  sent,        \* nav_goal_sent_
  reached,     \* the goal whose result set nav_goal_reached_, or None
  navFailed,   \* nav_goal_failed_
  handle,      \* nav_goal_handle_
  roomReached, found,         \* room_reached, found_object
  mapSeen,     \* latest_map_msg_ holds a map
  \* its surroundings
  mapServed,   \* the layout the map server serves, or None
  nav,         \* each goal at the action server: its state and what it was sent for
  inbox,       \* /handyman/message/to_robot, with the task each message is of
  outbox,      \* /handyman/message/to_moderator, with the task the node worked on
  task, phase  \* the moderator: the current task and how far it got

flags   == <<started, finished, failed>>
navVars == <<patrol, sent, reached, navFailed, handle, nav>>
search  == <<roomReached, found>>
maps    == <<mapSeen, mapServed>>
channels == <<inbox, outbox>>
moderator == <<task, phase>>
vars == <<step, inner, environment, flags, instruction, navVars, search, maps, channels, moderator>>

Steps == {"Initialize", "Ready", "WaitForInstruction", "GoToRoom1", "MoveToInFrontOfTarget",
          "Grasp", "GoToRoom2", "Release", "TaskFinished"}
\* The steps in which it carries out an instruction.
Working == Steps \ {"Initialize", "Ready", "WaitForInstruction", "TaskFinished"}

Layout(t) == Job[t].layout

\* What the steps make of the text of a task, when they come to use it.
Reading == [t \in Tasks |->
  [room |-> SearchRoom(Job[t].text), dest |-> Destination(Job[t].text),
   destRoom |-> DestRoom(Job[t].text)]]

\* Waits that let the callbacks in, and those that do not.
Spinning == {"none", "map", "costmaps", "system", "stopping"}
Waits == Spinning \cup {"starting"}

\* What a goal can be sent for, and the messages.
Errands ==
  LET layouts == {Layout(t) : t \in Tasks}
  IN  [task : Tasks, aim : {"room"},
       to : {RoomLocation(l, Reading[t].room, n) : l \in layouts, t \in Tasks, n \in 0 .. 3}]
      \cup
      [task : Tasks, aim : {"destination"},
       to : {DestLocation(l, Reading[t].dest, Reading[t].destRoom) : l \in layouts, t \in Tasks}]
Orders  == {"Environment", "Are_you_ready?", "Instruction", "Task_succeeded", "Task_failed",
            "Mission_complete"}
Reports == {"I_am_ready", "Room_reached", "Object_grasped", "Task_finished"}
ToRobot == [m : Orders, task : Tasks]
ToModerator == [m : Reports, task : Tasks \cup {None}]

TypeOK ==
  /\ step \in Steps /\ inner \in Waits \cup {"exited"}
  /\ environment \in {Layout(t) : t \in Tasks} \cup {None}
  /\ {started, finished, failed, sent, navFailed, roomReached, found, mapSeen} \subseteq BOOLEAN
  /\ instruction \in Tasks \cup {None}
  /\ reached \in Goals \cup {None} /\ handle \in Goals \cup {None}
  /\ mapServed \in Registered \cup {None}
  /\ nav \in [Goals -> [at : {"unused"}] \cup
                       [at : {"sent", "executing", "succeeded", "failed", "killed", "over"},
                        for : Errands]]
  /\ inbox \in Seq(ToRobot) /\ \A i \in 1 .. Len(inbox) : inbox[i].task <= task
  /\ outbox \in Seq(ToModerator)
  /\ patrol \in 0 .. 3
  /\ task \in Tasks /\ phase \in {"waiting", "instructed", "entered", "grasped", "over"}

Say(m) == outbox' = Append(outbox, [m |-> m, task |-> instruction])

\* The moderator opens every task with these two messages.
Opening(t) == <<[m |-> "Environment", task |-> t], [m |-> "Are_you_ready?", task |-> t]>>

Init ==
  /\ step = "Initialize" /\ inner = "none" /\ environment = None
  /\ started = FALSE /\ finished = FALSE /\ failed = FALSE /\ instruction = None
  /\ patrol = 0 /\ sent = FALSE /\ reached = None /\ navFailed = FALSE /\ handle = None
  \* room_reached and found_object have no initialiser and reset() leaves them
  /\ roomReached \in BOOLEAN /\ found \in BOOLEAN
  /\ mapSeen = FALSE /\ mapServed = None
  /\ nav = [g \in Goals |-> [at |-> "unused"]]
  /\ task = 1 /\ phase = "waiting" /\ inbox = Opening(1) /\ outbox = <<>>

-----------------------------------------------------------------------------
(* The main loop.                                                          *)

\* A pass of the loop in step s. is_failed_ is looked at before every pass.
At(s) == inner = "none" /\ ~failed /\ step = s

\* Seeded fault: reset() forgets the instruction.
InitializeKeepsInstruction ==
  /\ inner = "none" /\ (failed \/ step = "Initialize")
  /\ step' = "Ready" /\ environment' = None
  /\ started' = FALSE /\ finished' = FALSE /\ failed' = FALSE
  /\ sent' = FALSE /\ reached' = None /\ navFailed' = FALSE
  /\ UNCHANGED <<inner, instruction, patrol, handle, nav, search, maps, channels, moderator>>

\* case Initialize, also what a pass does after Task_failed: reset().
Initialize ==
  /\ inner = "none" /\ (failed \/ step = "Initialize")
  /\ step' = "Ready"
  /\ instruction' = None /\ environment' = None
  /\ started' = FALSE /\ finished' = FALSE /\ failed' = FALSE
  /\ sent' = FALSE /\ reached' = None /\ navFailed' = FALSE
  /\ UNCHANGED <<inner, patrol, handle, nav, search, maps, channels, moderator>>

\* loadMap for a layout without a registered map.
LoadUnregistered ==
  /\ At("Ready") /\ started /\ environment \notin Registered \cup {None}
  /\ step' = "Initialize"
  /\ UNCHANGED <<inner, environment, flags, instruction, navVars, search, maps, channels, moderator>>

\* gracefulStopNavigation: move_base_active_ is never set, so nothing is
\* cancelled first; Nav2 is stopped with pkill and no goal survives.
NavKilled ==
  [g \in Goals |-> IF nav[g].at \in {"unused", "over"} THEN nav[g]
                   ELSE [nav[g] EXCEPT !.at = "killed"]]

\* startMapServer: the shell command in the background always succeeds, the
\* server need not come up.
ServedBy(l) == {l, None}

\* switchEnvironment, up to its first wait that spins the node.
StartLoading ==
  /\ At("Ready") /\ started /\ environment \in Registered
  /\ inner' = "map"
  /\ nav' = NavKilled /\ mapServed' \in ServedBy(environment)
  /\ UNCHANGED <<step, environment, flags, instruction, patrol, sent, reached, navFailed, handle,
                 search, mapSeen, channels, moderator>>

loadFrame == <<step, environment, flags, instruction, navVars, search, mapServed, channels,
               moderator>>

\* waitForMapService is content with any map it ever received.
MapArrives ==
  /\ inner = "map" /\ (mapServed # None \/ mapSeen)
  /\ inner' = "starting" /\ mapSeen' = TRUE
  /\ UNCHANGED loadFrame

\* startAMCL, publishInitialPose and startNav2: eleven seconds without a callback,
\* in which the moderator reads what the node had said, and never a failure. Whether
\* the processes came up shows later, whether AMCL heard the pose never does.
NavigationStarted ==
  /\ inner = "starting" /\ (outbox = <<>> \/ phase = "over")
  /\ inner' = "costmaps"
  /\ UNCHANGED <<mapSeen, loadFrame>>

\* forceClearCostmaps; a failure is only a warning. An instruction for an earlier
\* I_am_ready has come, and is lost, before the answers to its requests do.
CostmapsCleared ==
  /\ inner = "costmaps" /\ \A i \in DOMAIN inbox : inbox[i].m # "Instruction"
  /\ inner' = "system"
  /\ UNCHANGED <<mapSeen, loadFrame>>

\* Seeded fault: a session that starts clears the failure it was told of.
LoadSucceedsAfresh ==
  /\ inner = "system"
  /\ inner' = "none" /\ step' = "WaitForInstruction"
  /\ failed' = FALSE /\ Say("I_am_ready")
  /\ UNCHANGED <<environment, started, finished, instruction, navVars, search, maps, inbox,
                 moderator>>

\* The action server and a transform of the base are there, from the map or at
\* least from the odometry. The node says it is ready whatever it was told while
\* it waited.
LoadSucceeds ==
  /\ inner = "system"
  /\ inner' = "none" /\ step' = "WaitForInstruction"
  /\ Say("I_am_ready")
  /\ UNCHANGED <<environment, flags, instruction, navVars, search, maps, inbox, moderator>>

\* No map in 30 s.
MapMissing ==
  /\ inner = "map"
  /\ inner' = "none" /\ step' = "Initialize"
  /\ mapSeen' \in {mapSeen, mapSeen \/ mapServed # None}
  /\ UNCHANGED <<environment, flags, instruction, navVars, search, mapServed, channels, moderator>>

\* The action server or the transforms are missing after 20 s.
SystemMissing ==
  /\ inner = "system"
  /\ inner' = "none" /\ step' = "Initialize"
  /\ UNCHANGED <<environment, flags, instruction, navVars, search, maps, channels, moderator>>

TakeInstruction ==
  /\ At("WaitForInstruction") /\ instruction # None
  /\ step' = "GoToRoom1"
  /\ roomReached' = FALSE /\ found' = FALSE /\ patrol' = 0 /\ sent' = FALSE
  /\ UNCHANGED <<inner, environment, flags, instruction, reached, navFailed, handle, nav, maps,
                 channels, moderator>>

\* Seeded fault: the flags of the last goal stay when the next is sent.
SendingKeepsFlags(g, aim, to) ==
  /\ nav[g].at = "unused"
  /\ nav' = [nav EXCEPT ![g] = [at |-> "sent", for |-> [task |-> instruction, aim |-> aim, to |-> to]]]
  /\ sent' = TRUE
  /\ UNCHANGED <<reached, navFailed, handle>>

\* sendNavGoal. When the server does not show up within 10 s it returns with
\* nav_goal_failed_ set and nav_goal_reached_ as it was.
Sending(g, aim, to) ==
  /\ nav[g].at = "unused"
  /\ nav' = [nav EXCEPT ![g] = [at |-> "sent", for |-> [task |-> instruction, aim |-> aim, to |-> to]]]
  /\ sent' = TRUE /\ reached' = None /\ navFailed' = FALSE
  /\ UNCHANGED handle

\* The rest of the pass after a send that failed: a leftover nav_goal_reached_
\* is read before nav_goal_failed_.
ServerMissing ==
  /\ sent' = FALSE /\ reached' = None
  /\ navFailed' = (reached # None)
  /\ UNCHANGED <<handle, nav>>

\* async_cancel_goal and async_cancel_all_goals on the goals in s: those that
\* run end; one that was sent but not yet accepted is missed.
Cancelled(s) ==
  [g \in Goals |-> IF g \in s /\ nav[g].at = "executing" THEN [nav[g] EXCEPT !.at = "failed"] ELSE nav[g]]

\* What a pass does with the flags: reached goes before failed, both before the
\* 60 s timeout, which cancels through the last handle it got, that of an earlier
\* goal when the one that is out was not accepted yet.
GoalReached ==
  /\ reached # None
  /\ reached' = None /\ sent' = FALSE
  /\ UNCHANGED <<navFailed, handle, nav>>
GoalFailed ==
  /\ reached = None /\ navFailed
  /\ navFailed' = FALSE /\ sent' = FALSE
  /\ UNCHANGED <<reached, handle, nav>>
TimedOut == reached = None /\ ~navFailed /\ sent

\* The action client forgets a goal when it reads its result, and
\* async_cancel_goal throws for a goal it does not know.
HandleForgotten == handle # None /\ nav[handle].at = "over"

GoalTimesOut ==
  /\ TimedOut /\ ~HandleForgotten
  /\ sent' = FALSE /\ nav' = Cancelled({handle})
  /\ UNCHANGED <<reached, navFailed, handle>>

searchFrame == <<inner, environment, flags, instruction, maps, inbox, moderator>>

Room == Reading[instruction].room

\* patrol_step after a goal that did not bring it to the room; once there it
\* counts for nothing, and the model leaves it at 0.
NextPatrol ==
  IF roomReached' THEN 0 ELSE (patrol + 1) % Len(PatrolWaypoints(environment, Room))

\* The object is in view in the target room: cancel everything and wait a second.
StopForObject ==
  /\ At("GoToRoom1") /\ found /\ roomReached
  /\ inner' = "stopping" /\ nav' = Cancelled(Goals)
  /\ UNCHANGED <<step, environment, flags, instruction, patrol, sent, reached, navFailed, handle,
                 search, maps, channels, moderator>>

\* Seeded fault: the end of the wait clears the task's failure with the goal's.
StoppedClearsAll ==
  /\ inner = "stopping"
  /\ inner' = "none" /\ step' = "MoveToInFrontOfTarget"
  /\ sent' = FALSE /\ reached' = None /\ navFailed' = FALSE /\ failed' = FALSE
  /\ UNCHANGED <<environment, started, finished, instruction, patrol, handle, nav, search, maps, channels,
                 moderator>>

\* The wait ends, whatever the callbacks in it did to step_.
Stopped ==
  /\ inner = "stopping"
  /\ inner' = "none" /\ step' = "MoveToInFrontOfTarget"
  /\ sent' = FALSE /\ reached' = None /\ navFailed' = FALSE
  /\ UNCHANGED <<environment, flags, instruction, patrol, handle, nav, search, maps, channels,
                 moderator>>

\* The robot already stands near a patrol point of the room.
AlreadyInRoom ==
  /\ At("GoToRoom1")
  /\ \E p \in RobotPoses :
       DecideRoomEntryAction(roomReached, sent, p, PatrolWaypoints(environment, Room)) = "report"
  /\ roomReached' = TRUE /\ patrol' = 0 /\ Say("Room_reached")
  /\ UNCHANGED <<step, found, sent, reached, navFailed, handle, nav, searchFrame>>

\* It does not, or no transform tells where it stands.
SendToRoom ==
  /\ At("GoToRoom1") /\ ~roomReached /\ ~sent
  /\ found' = FALSE
  /\ \/ /\ \E g \in Goals : Sending(g, "room", RoomLocation(environment, Room, patrol))
        /\ UNCHANGED <<patrol, roomReached, outbox>>
     \/ /\ ServerMissing
        /\ roomReached' = (reached # None) /\ patrol' = NextPatrol
        /\ IF reached # None THEN Say("Room_reached") ELSE UNCHANGED outbox
  /\ UNCHANGED <<step, searchFrame>>

\* A later pass of GoToRoom1 while a goal is out, or after the room was reached.
AwaitRoom ==
  /\ At("GoToRoom1") /\ (sent \/ roomReached) /\ ~(found /\ roomReached)
  /\ \/ /\ GoalReached
        /\ roomReached' = TRUE
        /\ IF roomReached THEN UNCHANGED outbox ELSE Say("Room_reached")
     \/ (GoalFailed \/ GoalTimesOut) /\ UNCHANGED <<roomReached, outbox>>
  /\ patrol' = NextPatrol
  /\ UNCHANGED <<step, found, searchFrame>>

\* The hand camera has the target centred and large enough.
Align ==
  /\ At("MoveToInFrontOfTarget") /\ ~sent
  /\ step' = "Grasp"
  /\ UNCHANGED <<search, navVars, outbox, searchFrame>>

\* Eight seconds later. Results of goals cancelled before are in by then.
Grasp ==
  /\ At("Grasp")
  /\ \A g \in Goals : nav[g].at \in {"unused", "killed", "over"}
  /\ Say("Object_grasped")
  /\ roomReached' = FALSE /\ found' = FALSE /\ sent' = FALSE /\ step' = "GoToRoom2"
  /\ UNCHANGED <<patrol, reached, navFailed, handle, nav, searchFrame>>

\* The pose is looked up for the room of the destination, or the only room named.
SendToDestination ==
  /\ At("GoToRoom2") /\ ~roomReached /\ ~sent
  /\ \/ /\ \E g \in Goals : Sending(g, "destination",
                           DestLocation(environment, Reading[instruction].dest,
                                        Reading[instruction].destRoom))
        /\ UNCHANGED roomReached
     \/ ServerMissing /\ roomReached' = (reached # None)
  /\ UNCHANGED <<step, found, patrol, outbox, searchFrame>>

AwaitDestination ==
  /\ At("GoToRoom2") /\ ~roomReached /\ sent
  /\ \/ GoalReached /\ roomReached' = TRUE
     \/ (GoalFailed \/ GoalTimesOut) /\ UNCHANGED roomReached
  /\ UNCHANGED <<step, found, patrol, outbox, searchFrame>>

\* UnknownGoalHandleError, which nothing catches, ends the node.
TimeoutThrows ==
  /\ \/ At("GoToRoom1") /\ ~(found /\ roomReached)
     \/ At("GoToRoom2") /\ ~roomReached
  /\ TimedOut /\ HandleForgotten
  /\ inner' = "exited"
  /\ UNCHANGED <<step, environment, flags, instruction, navVars, search, maps, channels, moderator>>

AtDestination ==
  /\ At("GoToRoom2") /\ roomReached
  /\ step' = "Release"
  /\ UNCHANGED <<search, navVars, outbox, searchFrame>>

\* The hand is open again, four and eight seconds later.
Release ==
  /\ At("Release")
  /\ step' = "TaskFinished" /\ Say("Task_finished")
  /\ UNCHANGED <<search, navVars, searchFrame>>

TaskFinished ==
  /\ At("TaskFinished") /\ finished
  /\ step' = "Initialize"
  /\ UNCHANGED <<search, navVars, outbox, searchFrame>>

Loop ==
  \/ Initialize \/ LoadUnregistered \/ StartLoading \/ MapArrives \/ MapMissing
  \/ NavigationStarted \/ CostmapsCleared \/ LoadSucceeds \/ SystemMissing
  \/ TakeInstruction \/ StopForObject \/ Stopped \/ AlreadyInRoom \/ SendToRoom \/ AwaitRoom
  \/ Align \/ Grasp \/ SendToDestination \/ AwaitDestination \/ TimeoutThrows
  \/ AtDestination \/ Release \/ TaskFinished

-----------------------------------------------------------------------------
(* The callbacks.                                                          *)

\* messageCallback. What Are_you_ready? does depends on the step; the other
\* messages set one member.
OnEnvironment(msg) ==
  /\ environment' = Layout(msg.task)
  /\ UNCHANGED <<step, started, instruction>>
\* Seeded fault: the question counts in the step before the one that waits for it.
OnReadyTooEarly ==
  /\ environment # None
  /\ started' = (started \/ step = "Initialize")
  /\ step' = IF step \in Working \cup {"TaskFinished"} THEN "Initialize" ELSE step
  /\ UNCHANGED <<environment, instruction>>

OnReady ==
  /\ environment # None
  /\ started' = (started \/ step = "Ready")
  /\ step' = IF step \in Working \cup {"TaskFinished"} THEN "Initialize" ELSE step
  /\ UNCHANGED <<environment, instruction>>
OnInstruction(msg) ==
  /\ environment # None /\ step = "WaitForInstruction"
  /\ instruction' = msg.task
  /\ UNCHANGED <<step, environment, started>>
LeavesStep(msg) ==
  /\ \/ msg.m \in {"Task_succeeded", "Task_failed", "Mission_complete"}
     \/ msg.m \in {"Are_you_ready?", "Instruction"} /\ environment = None
     \/ msg.m = "Instruction" /\ step # "WaitForInstruction"
  /\ UNCHANGED <<step, environment, started, instruction>>

Receive ==
  /\ inner \in Spinning /\ inbox # <<>>
  /\ LET msg == Head(inbox)
     IN  /\ \/ msg.m = "Environment" /\ OnEnvironment(msg)
            \/ msg.m = "Are_you_ready?" /\ OnReady
            \/ msg.m = "Instruction" /\ OnInstruction(msg)
            \/ LeavesStep(msg)
         /\ finished' = (finished \/ (msg.m = "Task_succeeded" /\ step = "TaskFinished"))
         /\ failed' = (failed \/ msg.m = "Task_failed")
         /\ inner' = IF msg.m = "Mission_complete" THEN "exited" ELSE inner
  /\ inbox' = Tail(inbox)
  /\ UNCHANGED <<navVars, search, maps, outbox, moderator>>

callbackFrame == <<step, inner, environment, flags, instruction, patrol, sent, roomReached, maps,
                   channels, moderator>>

\* The hand camera sees the target (graspvisioncallback).
Detect ==
  /\ inner \in Spinning /\ ~found
  /\ found' = TRUE
  /\ UNCHANGED <<reached, navFailed, handle, nav, callbackFrame>>

\* result_callback, and goal_response_callback of a refused goal. Neither asks
\* which goal it is about.
NavResult(g) ==
  /\ inner \in Spinning /\ nav[g].at \in {"succeeded", "failed"}
  /\ nav' = [nav EXCEPT ![g].at = "over"]
  /\ IF nav[g].at = "succeeded"
     THEN reached' = g /\ UNCHANGED navFailed
     ELSE navFailed' = TRUE /\ UNCHANGED reached
  /\ UNCHANGED <<handle, found, callbackFrame>>

-----------------------------------------------------------------------------
(* The Nav2 action server. A goal it accepts takes the place of the one it  *)
(* carried out before; the client learns its handle. What it does after the *)
(* mission is over is nobody's concern.                                    *)

navFrame == <<reached, navFailed, found, callbackFrame>>

NavAccept(g) ==
  /\ phase # "over" /\ nav[g].at = "sent"
  /\ nav' = [Cancelled(Goals) EXCEPT ![g].at = "executing"]
  /\ handle' = g
  /\ UNCHANGED navFrame

NavFinish(g) ==
  /\ phase # "over"
  /\ \/ nav[g].at = "executing" /\ nav' = [nav EXCEPT ![g].at = "failed"]
     \/ /\ nav[g].at = "executing"
        /\ nav[g].for.to # None
        /\ nav' = [nav EXCEPT ![g].at = "succeeded"]
     \/ nav[g].at = "sent" /\ nav' = [nav EXCEPT ![g].at = "failed"]
  /\ UNCHANGED <<handle, navFrame>>

-----------------------------------------------------------------------------
(* The moderator.                                                          *)

nodeVars == <<step, inner, environment, flags, instruction, navVars, search, maps>>

\* It asks again while no robot is ready.
AskAgain ==
  /\ phase = "waiting" /\ inbox = <<>>
  /\ inbox' = Opening(task)
  /\ UNCHANGED <<outbox, moderator, nodeVars>>

\* The verdict on a task, and the next task or the end of the mission.
Verdict(m) ==
  IF task + 1 \in Tasks
  THEN /\ inbox' = Append(inbox, [m |-> m, task |-> task]) \o Opening(task + 1)
       /\ task' = task + 1 /\ phase' = "waiting"
  ELSE /\ inbox' = inbox \o <<[m |-> m, task |-> task], [m |-> "Mission_complete", task |-> task]>>
       /\ phase' = "over" /\ UNCHANGED task

TimeUp ==
  /\ phase # "over"
  /\ Verdict("Task_failed")
  /\ UNCHANGED <<outbox, nodeVars>>

\* A message it does not expect in this phase is ignored.
Judge ==
  /\ phase # "over" /\ outbox # <<>>
  /\ outbox' = Tail(outbox)
  /\ LET m == Head(outbox).m
     IN  \/ /\ m = "I_am_ready" /\ phase = "waiting"
            /\ phase' = "instructed"
            /\ inbox' = Append(inbox, [m |-> "Instruction", task |-> task])
            /\ UNCHANGED task
         \/ /\ \/ m = "Room_reached" /\ phase = "instructed" /\ phase' = "entered"
               \/ m = "Object_grasped" /\ phase = "entered" /\ phase' = "grasped"
            /\ UNCHANGED <<inbox, task>>
         \/ m = "Task_finished" /\ phase = "grasped" /\ Verdict("Task_succeeded")
         \/ /\ m \in {"Room_reached", "Object_grasped", "Task_finished"} /\ phase # "waiting"
            /\ Verdict("Task_failed")
         \/ /\ <<m, phase>> \notin {<<"I_am_ready", "waiting">>, <<"Room_reached", "instructed">>,
                  <<"Object_grasped", "entered">>, <<"Task_finished", "grasped">>}
            /\ UNCHANGED <<inbox, moderator>>
  /\ UNCHANGED nodeVars

Next ==
  \/ Loop \/ Receive \/ Detect \/ AskAgain \/ TimeUp \/ Judge
  \/ \E g \in Goals : NavResult(g) \/ NavAccept(g) \/ NavFinish(g)

\* The node loops for ever and its callbacks come; the moderator keeps asking
\* and reads; tried often enough, the map server comes up and the load succeeds.
Fairness ==
  /\ WF_vars(Loop) /\ WF_vars(Receive) /\ WF_vars(AskAgain) /\ WF_vars(Judge)
  /\ SF_vars(StartLoading /\ mapServed' # None) /\ SF_vars(MapArrives) /\ SF_vars(LoadSucceeds)

Spec == Init /\ [][Next]_vars /\ Fairness

-----------------------------------------------------------------------------
(* Properties.                                                             *)

\* The node never keeps working on an instruction that is not the moderator's
\* any more without Task_failed known or on its way to it: whatever comes
\* first of a late map, a nested wait, and the messages of the next task.
WorksOnCurrentTask ==
  step \in Working /\ instruction # task =>
    failed \/ \E i \in 1 .. Len(inbox) : inbox[i].m = "Task_failed"

\* A milestone the moderator credits to a task was reached for that task, not
\* for an earlier one whose messages were still under way or whose instruction
\* survived the reset.
CreditIsForTask ==
  [][\A p \in {"entered", "grasped"} :
       phase # p /\ phase' = p => Head(outbox).task = task]_vars

\* While a task is worked on, its poses are looked up for the layout whose map
\* is served (or none is): ENVIRONMENT can be overwritten by the next task's
\* message in any step, and in the middle of loading the map of the last one.
MapIsOfEnvironment ==
  (step \in Working \cup {"WaitForInstruction"} /\ ~failed
     /\ \A i \in 1 .. Len(inbox) : inbox[i].m # "Task_failed")
   => mapServed \in {environment, None}

\* While a goal is out, a success the flags report is one of a goal sent for
\* this instruction and for this leg of it, to where the instruction means and
\* the table has a pose: though goals of earlier tasks and legs, still running or
\* timed out, report through the same flags, the layout may be overwritten at any
\* time, and the names are whatever the words of the text contain.
ArrivalIsOwn ==
  step \in {"GoToRoom1", "GoToRoom2"} /\ sent /\ reached # None =>
    LET goal == nav[reached].for
        means == Job[instruction].means
    IN  /\ goal.task = instruction
        /\ IF step = "GoToRoom1"
           THEN /\ goal.aim = "room"
                /\ goal.to \in Range(PatrolWaypoints(Layout(instruction), means.room))
           ELSE /\ goal.aim = "destination"
                /\ goal.to = <<Layout(instruction), means.dest, means.destRoom>>

\* A moderator that waits does not wait for ever, unless the node has ended: the
\* layout announced too early and lost in reset(), loads that fail and tasks cut
\* short included.
HandshakeCompletes ==
  \A t \in {u \in Tasks : Layout(u) \in Registered} :
    (phase = "waiting" /\ task = t) ~> (phase # "waiting" \/ task # t \/ inner = "exited")

-----------------------------------------------------------------------------
(* Why they hold, whatever the tasks, the goals and the layouts: what the   *)
(* properties rest on from step to step.                                   *)

\* The waits of a load, and the phases in which a task is instructed and not judged.
Loading == {"map", "starting", "costmaps", "system"}
UnderWay == {"instructed", "entered", "grasped"}

\* The node has a task in hand or waits for one.
Engaged == step \in Working \cup {"WaitForInstruction"} \/ inner = "stopping"

\* One of the messages from the a-th to the b-th to the robot is Task_failed.
Failing(a, b) == \E k \in a .. b : inbox[k].m = "Task_failed"

\* Which waits a step can be in, and what it has been told when it is reached.
StepHasItsTask ==
  /\ inner \in Loading => step = "Ready" /\ environment # None
  /\ inner = "stopping" => step \in {"GoToRoom1", "Initialize"} /\ instruction # None
  /\ step = "Ready" => instruction = None
  /\ step \in Working \cup {"TaskFinished"} => instruction # None
  /\ Engaged => environment # None
  /\ finished => step \in {"TaskFinished", "Initialize"} /\ inner # "stopping"

\* What is under way to the robot: between the messages of two tasks there is a
\* Task_failed, or there was a Task_succeeded that is the next it reads.
TasksAreSeparated ==
  /\ \A i \in 1 .. Len(inbox) :
       /\ inbox[i].m = "Task_succeeded" =>
            i = 1 /\ step = "TaskFinished" /\ inner = "none" /\ ~failed /\ ~finished
       /\ inbox[i].task # task => inbox[i].m = "Task_succeeded" \/ Failing(i, Len(inbox))
       /\ inbox[i].task = task /\ phase # "over" =>
            \/ inbox[i].m \in {"Environment", "Are_you_ready?"}
            \/ inbox[i].m = "Instruction" /\ phase \in UnderWay
       /\ inbox[i].m = "Instruction" /\ phase \in UnderWay => i = Len(inbox) /\ inbox[i].task = task
  /\ \A i, j \in 1 .. Len(inbox) :
       i < j /\ inbox[i].task # inbox[j].task =>
         inbox[i].m = "Task_succeeded" \/ Failing(i, j - 1)

\* A robot that says it is ready has nothing else to say, and no instruction is on
\* its way: the moderator's next one is the first it reads.
ReadyStandsAlone ==
  /\ inner = "system" => \A i \in 1 .. Len(inbox) : inbox[i].m # "Instruction"
  /\ phase # "over" =>
       /\ inner \in {"costmaps", "system"} => outbox = <<>>
       /\ \A i \in 1 .. Len(outbox) : outbox[i].m = "I_am_ready" =>
            /\ Len(outbox) = 1 /\ instruction = None
            /\ step \in {"Initialize", "Ready", "WaitForInstruction"}
            /\ \A j \in 1 .. Len(inbox) : inbox[j].m # "Instruction"

\* Whose the instruction and the reports are, by what the moderator waits for.
ReportsAreOfTheTask ==
  /\ instruction \in 1 .. task \cup {None}
  /\ \A i \in 1 .. Len(outbox) : outbox[i].task \in 1 .. task \cup {None}
  /\ phase = "waiting" =>
       instruction # task /\ \A i \in 1 .. Len(outbox) : outbox[i].task # task
  /\ phase \in UnderWay =>
       /\ instruction \in {None, task} /\ (instruction = task => inbox = <<>>)
       /\ \A i \in 1 .. Len(outbox) :
            /\ outbox[i].m = "I_am_ready" \/ outbox[i].task = task
            /\ outbox[i].m = "Task_finished" =>
                 step = "TaskFinished" /\ inner = "none" /\ ~failed /\ ~finished
  /\ Engaged /\ instruction \notin {None, task} => failed \/ Failing(1, Len(inbox))

\* Until it is told of a failure the robot uses the layout of the moderator's task,
\* and no message changes that before Task_failed is read.
LayoutIsOfTheTask ==
  (Engaged \/ step = "Ready") /\ environment # None /\ ~failed =>
    /\ \A i \in 1 .. Len(inbox) : inbox[i].m \in {"Environment", "Instruction"} =>
         Layout(inbox[i].task) = environment \/ Failing(1, i - 1)
    /\ environment = Layout(task) \/ Failing(1, Len(inbox))
    /\ Engaged \/ inner \in Loading => mapServed \in {environment, None}
    /\ Engaged /\ instruction # None => environment = Layout(instruction)

\* The goals that may still report, by step: the load leaves none, and so does the grasp.
Live(g) == nav[g].at \notin {"unused", "killed", "over"}
Own(goal, leg) ==
  /\ goal.task = instruction
  /\ IF leg = "GoToRoom1"
     THEN goal.aim = "room" /\ goal.to \in Range(PatrolWaypoints(Layout(instruction), Room))
     ELSE /\ goal.aim = "destination"
          /\ goal.to \in {None, <<Layout(instruction), Reading[instruction].dest,
                                  Reading[instruction].destRoom>>}
GoalsAreOfTheLeg ==
  /\ inner \in Loading \/ step = "WaitForInstruction" => \A g \in Goals : ~Live(g)
  /\ \A g \in Goals : nav[g].at = "succeeded" => nav[g].for.to # None
  /\ step \in {"GoToRoom1", "GoToRoom2"} =>
       /\ \A g \in Goals : Live(g) => Own(nav[g].for, step)
       /\ sent /\ reached # None => Own(nav[reached].for, step) /\ nav[reached].for.to # None

ControllerInv ==
  /\ TypeOK /\ StepHasItsTask /\ TasksAreSeparated /\ ReadyStandsAlone
  /\ ReportsAreOfTheTask /\ LayoutIsOfTheTask /\ GoalsAreOfTheLeg

=============================================================================
