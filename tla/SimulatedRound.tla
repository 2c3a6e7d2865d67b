--------------------------- MODULE SimulatedRound ---------------------------
(***************************************************************************)
(* A round of the phase 1 simulation: SimulatedModeratorNode plays the     *)
(* moderator against CoordinatorNode with simulate_modules, in which every *)
(* module of the robot succeeds at once.  The coordinator reads the        *)
(* instruction with its real parser and layouts (TaskPlanning) and follows *)
(* the real task state machine.                                            *)
(*                                                                         *)
(* The two nodes talk over two topics.  A message published before the     *)
(* subscription at the other end is discovered is lost; from then on they  *)
(* arrive in order.  The moderator's LayoutA and instruction are the       *)
(* script of the round here, and the files the coordinator loads at its    *)
(* start are chosen with it.  Messages this moderator never sends          *)
(* (Corrected_instruction, Task_failed) are in Coordinator.                *)
(***************************************************************************)
EXTENDS TaskPlanning, TaskStateMachine

CONSTANTS
  Scripts,     \* [environment, text, meaning]: what a round may be about
  AliasFiles,  \* contents of name_aliases.yaml
  CatalogFiles, \* contents of environments.yaml with the layouts it lists
  RepeatEvery, \* 5, ticks from one handshake to the next
  Backlog,     \* bounds the messages the coordinator lags behind
  Attempts,    \* maximum_attempts of a navigation plan
  RobotPoses   \* poses the robot may plan from; None while it has no pose

ASSUME ScriptsAssumption ==
  /\ \A s \in Scripts : s.environment # None /\ s.text # None
  /\ RepeatEvery \in Nat \ {0}

\* What YAML::Node::as makes of the layouts, whether they are then accepted or
\* not: lists, and poses whose coordinates are numbers.  No room has an empty name.
ListsPoses(list) ==
  /\ list \in Seq(Range(list))
  /\ \A pose \in Range(list) : pose.x \in Int /\ pose.y \in Int

ASSUME LayoutsAssumption ==
  \A files \in CatalogFiles : \A name \in DOMAIN files :
    LET layout == files[name]
    IN  /\ None \notin DOMAIN layout.rooms /\ layout.routes \in Seq(Range(layout.routes))
        /\ \A r \in DOMAIN layout.rooms : ListsPoses(layout.rooms[r].search_points)
        /\ \A d \in DOMAIN layout.destinations : ListsPoses(layout.destinations[d])

\* The coordinator asks for one attempt at least.
ASSUME PlanAssumption ==
  /\ Attempts \in Nat \ {0}
  /\ \A robot \in RobotPoses \ {None} : robot.x \in Int /\ robot.y \in Int

VARIABLES
  script,     \* the script of this round
  aliases,    \* the alias file of instruction_parser_, None without a parser
  catalog,    \* environment_catalog_
  state,      \* state_ of the task state machine
  task,       \* task_ of the task state machine
  simulation, \* simulation_step_ while the simulation timer runs, else 0
  step,       \* step_ of the moderator
  ticks,      \* handshake_ticks_, of which only the phase matters
  verdict,    \* finished_, succeeded_ and the reason of a failure
  exited,     \* the moderator's process has ended
  toRobot,    \* messages on their way to the coordinator
  toModerator, \* messages on their way to the moderator
  matched,    \* topics whose subscription has been discovered
  sent        \* the coordinator's reports, with whether each was delivered

loaded      == <<script, aliases, catalog>>
coordinator == <<state, task, simulation>>
moderator   == <<step, ticks, verdict, exited>>
channels    == <<toRobot, toModerator, matched, sent>>
vars == <<loaded, coordinator, moderator, channels>>

Topics == {"to_robot", "to_moderator"}

ModeratorSteps ==
  {"kWaitingConnections", "kWaitingIAmReady", "kWaitingRoomReached", "kWaitingObjectGrasped",
   "kWaitingTaskFinished", "kSendMissionComplete", "kFinish"}

Init ==
  /\ script \in Scripts
  /\ \E file \in AliasFiles : aliases = IF AliasesLoad(file) THEN file ELSE None
  /\ \E files \in CatalogFiles : catalog = LoadCatalog(files)
  /\ state = After("bootCompleted", "kBooting") /\ task = NoTask /\ simulation = 0
  /\ step = "kWaitingConnections" /\ ticks = 0 /\ verdict = "none" /\ exited = FALSE
  /\ toRobot = <<>> /\ toModerator = <<>> /\ matched = {} /\ sent = <<>>

-----------------------------------------------------------------------------
(* The competition protocol.                                               *)

\* kProtocolEntries: the direction of each event and what its detail may be.
Incoming ==
  [Environment |-> "required", Instruction |-> "required", Corrected_instruction |-> "required",
   Are_you_ready |-> "blank", Task_succeeded |-> "blank", Mission_complete |-> "blank",
   Task_failed |-> "optional"]

Outgoing == {"I_am_ready", "Room_reached", "Does_not_exist", "Object_grasped",
             "Task_finished", "Give_up"}

\* parseIncomingMessage accepts a message.
ValidIncoming(message) ==
  /\ message.event \in DOMAIN Incoming
  /\ Incoming[message.event] = "required" => message.detail # None
  /\ Incoming[message.event] = "blank" => message.detail = None

Message(event, detail) == [event |-> event, detail |-> detail]

\* What arrives of some messages published by one callback on a topic:
\* discovery may end before, between or after them.
Arriving(topic, messages) ==
  IF topic \in matched THEN {messages}
  ELSE {SubSeq(messages, k, Len(messages)) : k \in 1..Len(messages) + 1}

Publish(messages) ==
  \E arriving \in Arriving("to_robot", messages) :
    /\ toRobot' = toRobot \o arriving
    /\ matched' = IF arriving = <<>> THEN matched ELSE matched \cup {"to_robot"}
    /\ UNCHANGED <<toModerator, sent>>

\* publishEvent, in a step that takes a message from the moderator or none.
PublishEvent(event, rest) ==
  /\ event \in Outgoing
  /\ \E arriving \in Arriving("to_moderator", <<Message(event, None)>>) :
       /\ toModerator' = toModerator \o arriving
       /\ matched' = IF arriving = <<>> THEN matched ELSE matched \cup {"to_moderator"}
       /\ sent' = Append(sent, [event |-> event, delivered |-> arriving # <<>>])
  /\ toRobot' = rest

Silent(rest) == toRobot' = rest /\ UNCHANGED <<toModerator, matched, sent>>

\* External: the discovery of a subscription by the publisher of its topic.
Discover(topic) ==
  /\ topic \notin matched /\ matched' = matched \cup {topic}
  /\ UNCHANGED <<loaded, coordinator, moderator, toRobot, toModerator, sent>>

-----------------------------------------------------------------------------
(* The coordinator.                                                        *)

\* runSimulationStep: the module results in the order they are played.  The
\* steps start at 1, past the parsing.
SimulatedResults ==
  <<"roomNavigationSucceeded", "roomVerified", "objectLocated", "approachSucceeded",
    "graspSucceeded", "graspVerified", "destinationReached", "placementSucceeded",
    "placementVerified">>

SimulatedReports ==
  [i \in {2, 6, 9} |->
     CASE i = 2 -> "Room_reached" [] i = 6 -> "Object_grasped" [] i = 9 -> "Task_finished"]

RunSimulationStep ==
  /\ simulation # 0 /\ state # "kFinished"
  /\ LET result == SimulatedResults[simulation]
         moved  == Enabled(result, state)
     IN  /\ state' = After(result, state)
         /\ simulation' = IF moved /\ simulation < Len(SimulatedResults) THEN simulation + 1 ELSE 0
         /\ IF moved /\ simulation \in DOMAIN SimulatedReports
            THEN PublishEvent(SimulatedReports[simulation], toRobot)
            ELSE Silent(toRobot)
  /\ UNCHANGED <<loaded, task, moderator>>

\* What acceptInstruction leaves of the task.
Cleared(t) ==
  [t EXCEPT !.pickup_room = None, !.target_object = None,
            !.destination = None, !.destination_room = None]

\* What a task may be once it is resolved in a layout.
Resolved(parsed, name) ==
  {[parsed EXCEPT !.environment = name, !.destination_room = room] :
     room \in ResolvedRooms(catalog[name], parsed)}

\* parseCurrentInstruction: the resolved tasks it may end with, none when the
\* instruction is rejected.
ReadInstruction(text, t) ==
  IF aliases = None THEN {}
  ELSE UNION {Resolved(parsed, name) :
              parsed \in Parse(text, aliases, t), name \in Find(catalog, t.environment)}

OnMessage(event) ==
  /\ state # "kFinished" /\ toRobot # <<>>
  /\ ValidIncoming(Head(toRobot)) /\ Head(toRobot).event = event
  /\ UNCHANGED <<loaded, moderator>>

OnEnvironment ==
  /\ OnMessage("Environment") /\ Silent(Tail(toRobot))
  /\ LET found == Find(catalog, Head(toRobot).detail)
     IN  IF found = {} THEN UNCHANGED task
         ELSE \E name \in found : task' = [task EXCEPT !.environment = name]
  /\ UNCHANGED <<state, simulation>>

\* Seeded fault: the handshake is answered whenever it is heard.
OnEveryReady ==
  /\ OnMessage("Are_you_ready")
  /\ IF task.environment # None
     THEN /\ state' = IF state = "kWaitingReady" THEN "kWaitingInstruction" ELSE state
          /\ PublishEvent("I_am_ready", Tail(toRobot))
     ELSE UNCHANGED state /\ Silent(Tail(toRobot))
  /\ UNCHANGED <<task, simulation>>

OnAreYouReady ==
  /\ OnMessage("Are_you_ready")
  /\ IF ReadyAccepted(state, task.environment # None)
     THEN state' = "kWaitingInstruction" /\ PublishEvent("I_am_ready", Tail(toRobot))
     ELSE UNCHANGED state /\ Silent(Tail(toRobot))
  /\ UNCHANGED <<task, simulation>>

OnInstruction ==
  /\ OnMessage("Instruction") /\ Silent(Tail(toRobot))
  /\ IF ~InstructionAccepted(state, FALSE) THEN UNCHANGED coordinator
     ELSE LET read == ReadInstruction(Head(toRobot).detail, Cleared(task))
          IN  IF read = {}
              THEN /\ state' = After("parsingFailed", "kParsingInstruction")
                   /\ task' = Cleared(task) /\ UNCHANGED simulation
              ELSE /\ state' = After("parsingSucceeded", "kParsingInstruction")
                   /\ task' \in read /\ simulation' = 1

OnTaskSucceeded ==
  /\ OnMessage("Task_succeeded") /\ Silent(Tail(toRobot))
  /\ IF SuccessAccepted(state) THEN state' = "kWaitingReady" /\ task' = NoTask
     ELSE UNCHANGED <<state, task>>
  /\ UNCHANGED simulation

\* The coordinator shuts its context down.
OnMissionComplete ==
  /\ OnMessage("Mission_complete") /\ Silent(Tail(toRobot))
  /\ state' = "kFinished" /\ simulation' = 0 /\ UNCHANGED task

-----------------------------------------------------------------------------
(* The moderator.                                                          *)

Handshake == <<Message("Environment", script.environment), Message("Are_you_ready", None)>>

Ticking == verdict = "none" /\ ~exited

\* onTimer, step by step.
Connect ==
  /\ Ticking /\ step = "kWaitingConnections"
  /\ Publish(Handshake) /\ step' = "kWaitingIAmReady"
  /\ UNCHANGED <<loaded, coordinator, ticks, verdict, exited>>

\* Seeded fault: the handshake is sent once.
NeverRepeat ==
  /\ Ticking /\ step = "kWaitingIAmReady"
  /\ ticks' = (ticks + 1) % RepeatEvery
  /\ UNCHANGED <<loaded, coordinator, step, verdict, exited, channels>>

RepeatHandshake ==
  /\ Ticking /\ step = "kWaitingIAmReady" /\ Len(toRobot) < Backlog
  /\ ticks' = (ticks + 1) % RepeatEvery
  /\ IF ticks' = 0 THEN Publish(Handshake) ELSE UNCHANGED channels
  /\ UNCHANGED <<loaded, coordinator, step, verdict, exited>>

CompleteMission ==
  /\ Ticking /\ step = "kSendMissionComplete"
  /\ Publish(<<Message("Mission_complete", None)>>)
  /\ step' = "kFinish" /\ verdict' = "passed"
  /\ UNCHANGED <<loaded, coordinator, ticks, exited>>

\* The 15 seconds of the round are over at a tick.
TimeOut ==
  /\ Ticking /\ verdict' = "timed out"
  /\ UNCHANGED <<loaded, coordinator, step, ticks, exited, channels>>

\* The report each step waits for, the step after it, and what the moderator
\* then sends.
Expectations ==
  [kWaitingIAmReady |-> <<"I_am_ready", "kWaitingRoomReached">>,
   kWaitingRoomReached |-> <<"Room_reached", "kWaitingObjectGrasped">>,
   kWaitingObjectGrasped |-> <<"Object_grasped", "kWaitingTaskFinished">>,
   kWaitingTaskFinished |-> <<"Task_finished", "kSendMissionComplete">>]

Reply(next) ==
  CASE next = "kWaitingRoomReached"  -> <<Message("Instruction", script.text)>>
    [] next = "kSendMissionComplete" -> <<Message("Task_succeeded", None)>>
    [] OTHER -> <<>>

\* onRobotMessage with expectAndAdvance.  It goes on after a failure, until
\* the process ends.
OnRobotMessage ==
  /\ toModerator # <<>> /\ ~exited
  /\ LET received == Head(toModerator)
     IN  IF /\ step \in DOMAIN Expectations
            /\ received.event = Expectations[step][1] /\ received.detail = None
         THEN /\ step' = Expectations[step][2]
              /\ toRobot' = toRobot \o Reply(step')
              /\ UNCHANGED verdict
         ELSE /\ verdict' = IF verdict = "none" THEN "unexpected" ELSE verdict
              /\ UNCHANGED <<step, toRobot>>
  /\ toModerator' = Tail(toModerator)
  /\ UNCHANGED <<loaded, coordinator, ticks, exited, matched, sent>>

\* main of the moderator: the process spins for a while once the round is
\* finished and ends with the verdict as its exit code.
Exit ==
  /\ verdict # "none" /\ ~exited /\ exited' = TRUE
  /\ UNCHANGED <<loaded, coordinator, step, ticks, verdict, channels>>

-----------------------------------------------------------------------------

OnAnyMessage ==
  OnEnvironment \/ OnAreYouReady \/ OnInstruction \/ OnTaskSucceeded \/ OnMissionComplete

Tick == Connect \/ RepeatHandshake \/ CompleteMission

Next == \/ OnAnyMessage \/ RunSimulationStep
        \/ Tick \/ TimeOut \/ OnRobotMessage \/ Exit
        \/ \E topic \in Topics : Discover(topic)

\* A step in which the coordinator takes a message.
TakesMessage == state # "kFinished" /\ toRobot # <<>> /\ toRobot' = Tail(toRobot)

\* Both executors keep spinning, the timers fire and subscriptions are
\* discovered in the end; the round may or may not take 15 seconds.
Fairness ==
  /\ WF_toRobot(TakesMessage) /\ WF_vars(RunSimulationStep)
  /\ WF_vars(Tick) /\ WF_vars(OnRobotMessage)
  /\ \A topic \in Topics : WF_vars(Discover(topic))

Spec == Init /\ [][Next]_vars /\ Fairness

-----------------------------------------------------------------------------
(* Properties.                                                             *)

Verdicts == {"none", "passed", "timed out", "unexpected"}

\* What the nodes say to each other.
Blank == {e \in DOMAIN Incoming : Incoming[e] = "blank"}
ToRobot ==
  [event : {"Environment"}, detail : {s.environment : s \in Scripts}]
    \cup [event : {"Instruction"}, detail : {s.text : s \in Scripts}]
    \cup [event : Blank, detail : {None}]
ToModerator == [event : Outgoing, detail : {None}]

TypeOK ==
  /\ script \in Scripts
  /\ state \in TaskStates /\ simulation \in 0..Len(SimulatedResults)
  /\ step \in ModeratorSteps /\ ticks \in 0..RepeatEvery - 1
  /\ verdict \in Verdicts /\ exited \in BOOLEAN
  /\ matched \subseteq Topics
  /\ DOMAIN task = DOMAIN NoTask /\ task.destination_is_avatar \in BOOLEAN
  /\ toRobot \in Seq(ToRobot) /\ toModerator \in Seq(ToModerator)
  /\ sent \in Seq([event : Outgoing, delivered : BOOLEAN])

\* The coordinator works on an instruction.
AtWork ==
  state \notin {"kBooting", "kWaitingReady", "kWaitingInstruction", "kParsingInstruction",
               "kRecovering", "kFinished"}

Layout == catalog[task.environment]

\* The task the coordinator works on is what the instruction means, whichever
\* alias, letter case, punctuation and word order the text uses, even when it
\* mentions a second room or the furniture the object stands on; and the room
\* it is brought to is the one named or one where the destination stands.
ParsedAsMeant ==
  AtWork =>
    LET meant == script.meaning
    IN  /\ task.pickup_room = meant.pickup_room
        /\ task.target_object = meant.target_object
        /\ task.destination = meant.destination
        /\ task.destination_is_avatar <=> meant.destination = "avatar"
        /\ task.environment \in Find(catalog, script.environment)
        /\ IF meant.destination = "avatar" THEN task.destination_room = None
           ELSE /\ task.destination_room \in CandidateRooms(Layout, task.destination)
                /\ meant.destination_room \in {None, task.destination_room}

Legacy == INSTANCE PlacementNavigation

\* The two controllers of this repository read an instruction alike: given the
\* same rooms, resolveDestinationRoom of the first one answers the room the
\* rebuilt parser takes the destination to be in, and the room of the pickup
\* when that one finds no second room.
ReadersAgree ==
  AtWork /\ ~task.destination_is_avatar =>
    LET rooms == SetToSeq(DOMAIN aliases.rooms)
        legacy == Legacy!ResolveDestinationRoom(script.text,
                    [i \in DOMAIN rooms |-> Spelling[rooms[i]]], Spelling[task.pickup_room])
        rebuilt == IF script.meaning.destination_room = None THEN task.pickup_room
                   ELSE task.destination_room
    IN  legacy = Legacy!CanonicalRoomKey(Spelling[rebuilt])

\* Every attempt of a plan ends within the room it is for, so that the check
\* of the room on arrival can succeed; none of the poses given for the room is
\* left out while there are attempts for all; and a robot in another room, and
\* in that room only, takes a doorway of that room when the layout has one.
Reaches(plan, room, poses, robot) ==
  LET tried == [i \in 1..plan.maximum_attempts |-> Current(plan, i - 1)]
      around == {r \in DOMAIN Layout.rooms :
                   robot # None /\ IsPoseInsideRoom(Layout.rooms[r], robot, Tolerance)}
      doorways(r) == {route.waypoints : route \in
                        {route \in Range(Layout.routes) : route.from = r /\ route.to = room}}
  IN  /\ Valid(plan)
      /\ \A i \in DOMAIN tried :
           /\ tried[i].room = room /\ IsPoseInsideRoom(Layout.rooms[room], tried[i], 0)
           /\ \A r \in around : around = {r} /\ r # room /\ doorways(r) # {} =>
                tried[i].route \in doorways(r)
      /\ plan.maximum_attempts >= Len(plan.candidates) =>
           {tried[i].source_index : i \in DOMAIN tried} = poses

\* From wherever the robot stands, and even before it knows where, the plans
\* made for the task lead into its pickup room and into its destination room.
\* An instruction or a layout that would give the robot no plan, or one out of
\* the room, is refused before the work begins.
PlansReachTheTask ==
  \A robot \in RobotPoses :
    LET points == Layout.rooms[task.pickup_room].search_points
        places == Layout.destinations[task.destination]
    IN  /\ state = "kNavigatingToRoom" =>
             \A plan \in ForRoom(Layout, task.pickup_room, Attempts, robot) :
               Reaches(plan, task.pickup_room, DOMAIN points, robot)
        /\ state = "kSearchingObject" =>
             \A i \in DOMAIN points :
               \A plan \in ForSearchPoint(Layout, task.pickup_room, i, Attempts, robot) :
                 Reaches(plan, task.pickup_room, {i}, robot)
        /\ state = "kNavigatingToDestination" /\ ~task.destination_is_avatar =>
             \A plan \in ForDestination(Layout, task.destination, task.destination_room,
                                         Attempts, robot) :
               Reaches(plan, task.destination_room,
                       {i \in DOMAIN places : places[i].room = task.destination_room}, robot)

AllReports == <<"I_am_ready", "Room_reached", "Object_grasped", "Task_finished">>

\* The coordinator never sends a report the moderator does not wait for, though
\* the moderator repeats its handshake; and the simulation passes only when the
\* coordinator has sent every report once, in order, having reached the end of
\* the task.
VerdictIsTrue ==
  /\ verdict # "unexpected"
  /\ verdict = "passed" =>
       /\ [i \in DOMAIN sent |-> sent[i].event] = AllReports
       /\ state \in {"kWaitingModeratorResult", "kWaitingReady", "kFinished"}

\* A layout in which an instruction can be carried out: it has the rooms, and
\* the destination's room is named, unique or the pickup room.
Fits(layout, meant) ==
  /\ meant.pickup_room \in DOMAIN layout.rooms
  /\ \/ meant.destination = "avatar"
     \/ /\ meant.destination \in DOMAIN layout.destinations
        /\ LET rooms == CandidateRooms(layout, meant.destination)
           IN  IF meant.destination_room # None THEN meant.destination_room \in rooms
               ELSE meant.pickup_room \in rooms \/ Cardinality(rooms) = 1

Solvable ==
  /\ aliases # None
  /\ Find(catalog, script.environment) # {}
  /\ \A name \in Find(catalog, script.environment) : Fits(catalog[name], script.meaning)

\* A report the coordinator sent before its topic was discovered: it is never
\* sent again.
ReportLost == \E i \in DOMAIN sent : ~sent[i].delivered

\* A round whose instruction can be carried out passes, whenever the topics are
\* discovered, unless 15 seconds run out or the answer to the handshake is lost.
RoundPasses == Solvable => <>(verdict = "passed" \/ verdict = "timed out" \/ ReportLost)
-----------------------------------------------------------------------------
(* Why the verdict is true: where the two nodes are in their conversation. *)

\* The task is of the script's layout, and it fits this layout while it is worked on.
TaskFitsLayout ==
  AtWork =>
    /\ task.environment \in Find(catalog, script.environment) /\ EnvironmentValid(Layout)
    /\ task.pickup_room \in DOMAIN Layout.rooms
    /\ task.destination_is_avatar <=> task.destination = "avatar"
    /\ IF task.destination_is_avatar THEN task.destination_room = None
       ELSE /\ task.destination \in DOMAIN Layout.destinations
            /\ task.destination_room \in CandidateRooms(Layout, task.destination)

\* The state in which the coordinator plays each result, and the number of
\* reports it has sent before, the handshake's among them.
PlayedIn == [i \in 1 .. Len(SimulatedResults) |-> Step[SimulatedResults[i]][1]]
ReportsBefore(i) == 1 + Cardinality({k \in DOMAIN SimulatedReports : k < i})

\* The reports the moderator has acted on, by its step.
Heard ==
  [kWaitingConnections |-> 0, kWaitingIAmReady |-> 0, kWaitingRoomReached |-> 1,
   kWaitingObjectGrasped |-> 2, kWaitingTaskFinished |-> 3, kSendMissionComplete |-> 4,
   kFinish |-> 4]

\* The coordinator has sent the first n reports, and those the moderator has not
\* heard yet are on their way to it.
Reported(n) ==
  /\ Len(sent) = n /\ Len(toModerator) = n - Heard[step]
  /\ \A i \in 1 .. n : sent[i] = [event |-> AllReports[i], delivered |-> TRUE]
  /\ \A i \in 1 .. n - Heard[step] :
       toModerator[i] = Message(AllReports[Heard[step] + i], None)

Handshakes(messages) ==
  \A i \in 1 .. Len(messages) : messages[i].event \in {"Environment", "Are_you_ready"}

\* Nothing has been reported.
Calling ==
  /\ state = "kWaitingReady" /\ simulation = 0 /\ Reported(0)
  /\ step \in {"kWaitingConnections", "kWaitingIAmReady"}
  /\ step = "kWaitingConnections" => toRobot = <<>>
  /\ Handshakes(toRobot)

\* The robot has answered the handshake, and the answer may be lost.
Ready ==
  /\ state = "kWaitingInstruction" /\ simulation = 0 /\ step = "kWaitingIAmReady"
  /\ Handshakes(toRobot)
  /\ \/ "to_moderator" \in matched /\ Reported(1)
     \/ sent = <<[event |-> "I_am_ready", delivered |-> FALSE]>> /\ toModerator = <<>>

\* The instruction is the last thing on its way to the robot.
Instructed ==
  /\ state = "kWaitingInstruction" /\ simulation = 0 /\ step = "kWaitingRoomReached"
  /\ "to_moderator" \in matched /\ Reported(1)
  /\ toRobot # <<>> /\ toRobot[Len(toRobot)].event = "Instruction"
  /\ Handshakes(SubSeq(toRobot, 1, Len(toRobot) - 1))

\* The robot has rejected the instruction.
Rejected ==
  /\ state = "kRecovering" /\ simulation = 0 /\ step = "kWaitingRoomReached"
  /\ toRobot = <<>> /\ Reported(1)

\* The robot plays its results. The moderator follows its reports.
Playing ==
  /\ simulation # 0 /\ state = PlayedIn[simulation]
  /\ "to_moderator" \in matched /\ Reported(ReportsBefore(simulation))
  /\ step \in DOMAIN Expectations \ {"kWaitingIAmReady"} /\ toRobot = <<>>

ToRobotAre(events) ==
  Len(toRobot) = Len(events) /\ \A i \in 1 .. Len(events) : toRobot[i].event = events[i]

\* The robot has said everything, and the moderator hears of it, or says farewell.
Played ==
  /\ simulation = 0 /\ Reported(4)
  /\ \/ /\ step \in DOMAIN Expectations \ {"kWaitingIAmReady"}
        /\ state = "kWaitingModeratorResult" /\ ToRobotAre(<<>>)
     \/ /\ step \in {"kSendMissionComplete", "kFinish"}
        /\ \/ state = "kWaitingModeratorResult" /\ ToRobotAre(<<"Task_succeeded">>)
           \/ state = "kWaitingReady" /\ ToRobotAre(<<>>)
     \/ /\ step = "kFinish"
        /\ \/ /\ state = "kWaitingModeratorResult"
              /\ ToRobotAre(<<"Task_succeeded", "Mission_complete">>)
           \/ state = "kWaitingReady" /\ ToRobotAre(<<"Mission_complete">>)
           \/ state = "kFinished" /\ ToRobotAre(<<>>)

\* A layout is of the script, and is known before the robot is ready.
LayoutIsKnown ==
  /\ \A name \in DOMAIN catalog : EnvironmentValid(catalog[name])
  /\ task.environment # None \/ state \notin {"kWaitingReady", "kFinished"} =>
       task.environment \in Find(catalog, script.environment)
  /\ \A i \in 1 .. Len(toRobot) :
       toRobot[i].event = "Environment" => toRobot[i].detail = script.environment

\* The round so far, and what the moderator made of it.
RoundInv ==
  /\ TypeOK
  /\ verdict # "unexpected" /\ (verdict = "passed" => step = "kFinish")
  /\ LayoutIsKnown /\ TaskFitsLayout
  /\ Calling \/ Ready \/ Instructed \/ Rejected \/ Playing \/ Played
=============================================================================
