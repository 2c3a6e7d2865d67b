------------------------- MODULE HandymanSample_proofs -------------------------
(***************************************************************************)
(* What HandymanSample says of one small instance, for any list of tasks,  *)
(* any layouts and any number of goals. Every safety property follows from *)
(* ControllerInv.                                                          *)
(***************************************************************************)
EXTENDS HandymanSample, SequenceTheorems, TLAPS

\* Every room of a layout is patrolled, at up to four points.
LEMMA EveryRoomIsPatrolled ==
  ASSUME NEW layout, NEW room
  PROVE  /\ Len(PatrolWaypoints(layout, room)) \in 1 .. 4
         /\ 1 \in DOMAIN PatrolWaypoints(layout, room)
<1>1. CASE layout = "2019HM01"
  BY <1>1 DEF PatrolWaypoints
<1>2. CASE layout = "2019HM02"
  BY <1>2 DEF PatrolWaypoints
<1>3. CASE layout = "2020HM01"
  BY <1>3 DEF PatrolWaypoints
<1>4. CASE layout = "2021HM01"
  BY <1>4 DEF PatrolWaypoints
<1>5. CASE layout \notin Registered
  BY <1>5 DEF PatrolWaypoints, Registered
<1> QED
  BY <1>1, <1>2, <1>3, <1>4, <1>5 DEF Registered

LEMMA PatrolPointIsOfTheRoom ==
  ASSUME NEW layout, NEW room, NEW n \in 0 .. 3
  PROVE  RoomLocation(layout, room, n) \in Range(PatrolWaypoints(layout, room))
BY EveryRoomIsPatrolled DEF RoomLocation, Range

-----------------------------------------------------------------------------
(* Types.                                                                  *)

FlagsTyped ==
  {started, finished, failed, sent, navFailed, roomReached, found, mapSeen} \subseteq BOOLEAN

Goal == [at : {"unused"}] \cup
        [at : {"sent", "executing", "succeeded", "failed", "killed", "over"}, for : Errands]

NodeTyped ==
  /\ step \in Steps /\ inner \in Waits \cup {"exited"}
  /\ environment \in {Layout(t) : t \in Tasks} \cup {None}
  /\ instruction \in Tasks \cup {None}
  /\ reached \in Goals \cup {None} /\ handle \in Goals \cup {None}
  /\ mapServed \in Registered \cup {None}
  /\ patrol \in 0 .. 3

ChannelsTyped ==
  /\ inbox \in Seq(ToRobot) /\ \A i \in 1 .. Len(inbox) : inbox[i].task <= task
  /\ outbox \in Seq(ToModerator)
  /\ task \in Tasks /\ phase \in {"waiting", "instructed", "entered", "grasped", "over"}

LEMMA TypeParts ==
  TypeOK <=> FlagsTyped /\ NodeTyped /\ nav \in [Goals -> Goal] /\ ChannelsTyped
BY Zenon DEF TypeOK, FlagsTyped, NodeTyped, ChannelsTyped, Goal

LEMMA StepKeepsFlags == ASSUME FlagsTyped, [Next]_vars PROVE FlagsTyped'
<1> USE DEF flags, navVars, search, maps, channels, moderator, searchFrame, loadFrame, callbackFrame,
            navFrame, nodeVars, At
<1>1. CASE Initialize
  BY Zenon, <1>1 DEF Initialize, FlagsTyped
<1>2. CASE LoadUnregistered
  BY Zenon, <1>2 DEF LoadUnregistered, FlagsTyped
<1>3. CASE StartLoading
  BY Zenon, <1>3 DEF StartLoading, FlagsTyped
<1>4. CASE MapArrives
  BY Zenon, <1>4 DEF MapArrives, FlagsTyped
<1>5. CASE MapMissing
  BY Zenon, <1>5 DEF MapMissing, FlagsTyped
<1>6. CASE NavigationStarted \/ CostmapsCleared
  BY Zenon, <1>6 DEF NavigationStarted, CostmapsCleared, FlagsTyped
<1>7. CASE LoadSucceeds \/ SystemMissing
  BY Zenon, <1>7 DEF LoadSucceeds, SystemMissing, FlagsTyped
<1>8. CASE TakeInstruction
  BY Zenon, <1>8 DEF TakeInstruction, FlagsTyped
<1>9. CASE StopForObject \/ Stopped
  BY Zenon, <1>9 DEF StopForObject, Stopped, FlagsTyped
<1>10. CASE AlreadyInRoom
  BY Zenon, <1>10 DEF AlreadyInRoom, FlagsTyped
<1>11. CASE SendToRoom
  BY Zenon, <1>11 DEF SendToRoom, Sending, ServerMissing, FlagsTyped
<1>12. CASE AwaitRoom
  BY Zenon, <1>12 DEF AwaitRoom, GoalReached, GoalFailed, GoalTimesOut, TimedOut, FlagsTyped
<1>13. CASE Align \/ Grasp
  BY Zenon, <1>13 DEF Align, Grasp, FlagsTyped
<1>14. CASE SendToDestination
  BY Zenon, <1>14 DEF SendToDestination, Sending, ServerMissing, FlagsTyped
<1>15. CASE AwaitDestination
  BY Zenon, <1>15 DEF AwaitDestination, GoalReached, GoalFailed, GoalTimesOut, TimedOut, FlagsTyped
<1>16. CASE AtDestination \/ TimeoutThrows \/ Release \/ TaskFinished
  BY Zenon, <1>16 DEF AtDestination, TimeoutThrows, Release, TaskFinished, FlagsTyped
<1>17. CASE Receive
  BY Zenon, <1>17 DEF Receive, OnEnvironment, OnReady, OnInstruction, LeavesStep, FlagsTyped
<1>18. CASE Detect
  BY Zenon, <1>18 DEF Detect, FlagsTyped
<1>19. ASSUME NEW g \in Goals, NavResult(g) PROVE FlagsTyped'
  BY Zenon, <1>19 DEF NavResult, FlagsTyped
<1>20. ASSUME NEW g \in Goals, NavAccept(g) \/ NavFinish(g) PROVE FlagsTyped'
  BY Zenon, <1>20 DEF NavAccept, NavFinish, FlagsTyped
<1>21. CASE AskAgain \/ TimeUp \/ Judge
  BY Zenon, <1>21 DEF AskAgain, TimeUp, Judge, FlagsTyped
<1>22. CASE UNCHANGED vars
  BY Zenon, <1>22 DEF vars, FlagsTyped
<1> QED
  BY <1>1, <1>2, <1>3, <1>4, <1>5, <1>6, <1>7, <1>8, <1>9, <1>10, <1>11, <1>12, <1>13, <1>14, <1>15,
     <1>16, <1>17, <1>18, <1>19, <1>20, <1>21, <1>22 DEF Next, Loop

LEMMA Reads ==
  ASSUME ChannelsTyped, inbox # <<>>
  PROVE  /\ Len(inbox) \in Nat \ {0} /\ Head(inbox) = inbox[1]
         /\ inbox[1].m \in Orders /\ inbox[1].task \in Tasks
         /\ Tail(inbox) \in Seq(ToRobot) /\ Len(Tail(inbox)) = Len(inbox) - 1
         /\ \A i \in 1 .. Len(inbox) - 1 : Tail(inbox)[i] = inbox[i + 1]
<1>1. inbox \in Seq(ToRobot)
  BY DEF ChannelsTyped
<1>2. Len(inbox) \in Nat \ {0}
  BY <1>1, EmptySeq
<1>3. inbox[1] \in ToRobot
  BY <1>1, <1>2, ElementOfSeq
<1>4. Head(inbox) = inbox[1]
  BY <1>1
<1> QED
  BY <1>1, <1>2, <1>3, <1>4, HeadTailProperties DEF ToRobot

LEMMA NextPointIsInRange ==
  ASSUME NEW n \in 0 .. 3, NEW points \in 1 .. 4 PROVE (n + 1) % points \in 0 .. 3
<1>1. CASE points = 1
  BY <1>1
<1>2. CASE points = 2
  BY <1>2
<1>3. CASE points = 3
  BY <1>3
<1>4. CASE points = 4
  BY <1>4
<1> QED
  BY <1>1, <1>2, <1>3, <1>4

LEMMA StepKeepsNode ==
  ASSUME NodeTyped, ChannelsTyped, StepHasItsTask, [Next]_vars PROVE NodeTyped'
<1> USE DEF flags, navVars, search, maps, channels, moderator, searchFrame, loadFrame, callbackFrame,
            navFrame, nodeVars, At, NodeTyped, Steps, Working, Waits, Spinning
<1>1. CASE Initialize
  BY <1>1 DEF Initialize
<1>2. CASE LoadUnregistered
  BY <1>2 DEF LoadUnregistered
<1>3. CASE StartLoading
  BY <1>3 DEF StartLoading, ServedBy
<1>4. CASE MapArrives
  BY <1>4 DEF MapArrives
<1>5. CASE MapMissing
  BY <1>5 DEF MapMissing
<1>6. CASE NavigationStarted \/ CostmapsCleared
  BY <1>6 DEF NavigationStarted, CostmapsCleared
<1>7. CASE LoadSucceeds \/ SystemMissing
  BY <1>7 DEF LoadSucceeds, SystemMissing
<1>8. CASE TakeInstruction
  BY <1>8 DEF TakeInstruction
<1>9. CASE StopForObject \/ Stopped
  BY <1>9 DEF StopForObject, Stopped
<1>10. CASE AlreadyInRoom
  BY <1>10 DEF AlreadyInRoom
<1>11. NextPatrol \in 0 .. 3
  <2> DEFINE points == Len(PatrolWaypoints(environment, Room))
  <2>1. points \in 1 .. 4
    BY EveryRoomIsPatrolled
  <2> HIDE DEF points
  <2>2. (patrol + 1) % points \in 0 .. 3
    BY <2>1, NextPointIsInRange
  <2> QED
    BY <2>2 DEF NextPatrol, points
<1>12. CASE SendToRoom
  BY <1>11, <1>12 DEF SendToRoom, Sending, ServerMissing
<1>13. CASE AwaitRoom
  BY <1>11, <1>13 DEF AwaitRoom, GoalReached, GoalFailed, GoalTimesOut, TimedOut
<1>14. CASE Align \/ Grasp
  BY <1>14 DEF Align, Grasp
<1>15. CASE SendToDestination
  BY <1>15 DEF SendToDestination, Sending, ServerMissing
<1>16. CASE AwaitDestination
  BY <1>16 DEF AwaitDestination, GoalReached, GoalFailed, GoalTimesOut, TimedOut
<1>17. CASE AtDestination \/ TimeoutThrows \/ Release \/ TaskFinished
  BY <1>17 DEF AtDestination, TimeoutThrows, Release, TaskFinished
<1>18. CASE Receive
  BY <1>18, Reads DEF Receive, OnEnvironment, OnReady, OnInstruction, LeavesStep
<1>19. CASE Detect
  BY <1>19 DEF Detect
<1>20. ASSUME NEW g \in Goals, NavResult(g) PROVE NodeTyped'
  BY <1>20 DEF NavResult
<1>21. ASSUME NEW g \in Goals, NavAccept(g) \/ NavFinish(g) PROVE NodeTyped'
  BY <1>21 DEF NavAccept, NavFinish
<1>22. CASE AskAgain \/ TimeUp \/ Judge
  BY <1>22 DEF AskAgain, TimeUp, Judge
<1>23. CASE UNCHANGED vars
  BY <1>23 DEF vars
<1> QED
  BY <1>1, <1>2, <1>3, <1>4, <1>5, <1>6, <1>7, <1>8, <1>9, <1>10, <1>12, <1>13, <1>14, <1>15,
     <1>16, <1>17, <1>18, <1>19, <1>20, <1>21, <1>22, <1>23 DEF Next, Loop

LEMMA GoalMoves ==
  ASSUME nav \in [Goals -> Goal], NEW g \in Goals, nav[g].at # "unused",
         NEW s \in {"sent", "executing", "succeeded", "failed", "killed", "over"}
  PROVE  [nav[g] EXCEPT !.at = s] \in Goal
         /\ [nav[g] EXCEPT !.at = s].at = s /\ [nav[g] EXCEPT !.at = s].for = nav[g].for
<1>1. nav[g] \in [at : {"sent", "executing", "succeeded", "failed", "killed", "over"}, for : Errands]
  BY DEF Goal
<1> QED
  BY <1>1 DEF Goal

\* Killed, preempted or cancelled goals.
LEMMA GoalsEnd ==
  ASSUME nav \in [Goals -> Goal]
  PROVE  /\ NavKilled \in [Goals -> Goal]
         /\ \A g \in Goals : NavKilled[g].at \in {"unused", "killed", "over"} /\ NavKilled[g].for = nav[g].for
         /\ \A s : /\ Cancelled(s) \in [Goals -> Goal]
                   /\ \A g \in Goals :
                        \/ Cancelled(s)[g] = nav[g]
                        \/ /\ nav[g].at = "executing" /\ Cancelled(s)[g].at = "failed"
                           /\ Cancelled(s)[g].for = nav[g].for
<1>1. ASSUME NEW g \in Goals
      PROVE  /\ NavKilled[g] \in Goal /\ NavKilled[g].at \in {"unused", "killed", "over"}
             /\ NavKilled[g].for = nav[g].for
  BY GoalMoves DEF NavKilled
<1>2. ASSUME NEW s, NEW g \in Goals
      PROVE  /\ Cancelled(s)[g] \in Goal
             /\ \/ Cancelled(s)[g] = nav[g]
                \/ /\ nav[g].at = "executing" /\ Cancelled(s)[g].at = "failed"
                   /\ Cancelled(s)[g].for = nav[g].for
  BY GoalMoves DEF Cancelled
<1>3. NavKilled \in [Goals -> Goal]
  BY <1>1 DEF NavKilled
<1>4. \A s : Cancelled(s) \in [Goals -> Goal]
  BY <1>2 DEF Cancelled
<1> QED
  BY <1>1, <1>2, <1>3, <1>4

\* What a goal is sent for.
LEMMA RoomErrand ==
  ASSUME NodeTyped, instruction # None, environment # None
  PROVE  [task |-> instruction, aim |-> "room", to |-> RoomLocation(environment, Room, patrol)]
           \in Errands
BY DEF NodeTyped, Errands, Room

LEMMA DestinationErrand ==
  ASSUME NodeTyped, instruction # None, environment # None
  PROVE  [task |-> instruction, aim |-> "destination",
          to |-> DestLocation(environment, Reading[instruction].dest, Reading[instruction].destRoom)]
           \in Errands
BY DEF NodeTyped, Errands

LEMMA StepKeepsGoals ==
  ASSUME NodeTyped, StepHasItsTask, nav \in [Goals -> Goal], [Next]_vars
  PROVE  nav' \in [Goals -> Goal]
<1> USE DEF navVars, searchFrame, loadFrame, callbackFrame, navFrame, nodeVars
<1>1. CASE UNCHANGED nav
  BY <1>1
<1>2. CASE StartLoading
  BY <1>2, GoalsEnd DEF StartLoading
<1>3. CASE StopForObject
  BY <1>3, GoalsEnd DEF StopForObject
<1>4. CASE SendToRoom
  <2>1. instruction # None /\ environment # None
    BY <1>4 DEF SendToRoom, At, StepHasItsTask, Working, Steps, Engaged
  <2> QED
    BY <1>4, <2>1, RoomErrand DEF SendToRoom, Sending, ServerMissing, Goal
<1>5. CASE SendToDestination
  <2>1. instruction # None /\ environment # None
    BY <1>5 DEF SendToDestination, At, StepHasItsTask, Working, Steps, Engaged
  <2> QED
    BY <1>5, <2>1, DestinationErrand DEF SendToDestination, Sending, ServerMissing, Goal
<1>6. CASE AwaitRoom \/ AwaitDestination
  BY <1>6, GoalsEnd DEF AwaitRoom, AwaitDestination, GoalReached, GoalFailed, GoalTimesOut, TimedOut
<1>7. ASSUME NEW g \in Goals, NavResult(g) PROVE nav' \in [Goals -> Goal]
  BY <1>7, GoalMoves DEF NavResult
<1>8. ASSUME NEW g \in Goals, NavAccept(g) PROVE nav' \in [Goals -> Goal]
  <2>1. Cancelled(Goals) \in [Goals -> Goal] /\ Cancelled(Goals)[g] = nav[g]
    BY <1>8, GoalsEnd DEF NavAccept
  <2>2. nav' = [Cancelled(Goals) EXCEPT ![g] = [nav[g] EXCEPT !.at = "executing"]]
    BY <1>8, <2>1 DEF NavAccept
  <2> QED
    BY <1>8, <2>1, <2>2, GoalMoves DEF NavAccept
<1>9. ASSUME NEW g \in Goals, NavFinish(g) PROVE nav' \in [Goals -> Goal]
  BY <1>9, GoalMoves DEF NavFinish
<1> QED
  BY <1>1, <1>2, <1>3, <1>4, <1>5, <1>6, <1>7, <1>8, <1>9
     DEF Next, Loop, Initialize, LoadUnregistered, MapArrives, MapMissing, NavigationStarted,
         CostmapsCleared, LoadSucceeds, SystemMissing, TakeInstruction, Stopped, AlreadyInRoom, Align,
         Grasp, AtDestination, TimeoutThrows, Release, TaskFinished, Receive, Detect, AskAgain,
         TimeUp, Judge, vars

\* What the loop says, and that it changes nothing else of the channels and nothing of
\* the moderator.
LEMMA LoopSays ==
  ASSUME Loop
  PROVE  /\ UNCHANGED <<inbox, task, phase>>
         /\ \/ UNCHANGED outbox
            \/ LoadSucceeds /\ Say("I_am_ready")
            \/ step \in Working /\ inner = "none" /\ (Say("Room_reached") \/ Say("Object_grasped"))
            \/ Release /\ Say("Task_finished")
<1> USE DEF channels, moderator, searchFrame, loadFrame, At, Working, Steps
<1>1. CASE Initialize \/ LoadUnregistered \/ StartLoading \/ MapArrives \/ MapMissing
           \/ NavigationStarted \/ CostmapsCleared \/ LoadSucceeds \/ SystemMissing
  BY <1>1 DEF Initialize, LoadUnregistered, StartLoading, MapArrives, MapMissing, NavigationStarted,
              CostmapsCleared, LoadSucceeds, SystemMissing
<1>2. CASE TakeInstruction \/ StopForObject \/ Stopped \/ AlreadyInRoom \/ SendToRoom \/ AwaitRoom
  BY <1>2 DEF TakeInstruction, StopForObject, Stopped, AlreadyInRoom, SendToRoom, AwaitRoom
<1>3. CASE Align \/ Grasp \/ SendToDestination \/ AwaitDestination \/ AtDestination
           \/ TimeoutThrows \/ Release \/ TaskFinished
  BY <1>3 DEF Align, Grasp, SendToDestination, AwaitDestination, AtDestination, TimeoutThrows,
              Release, TaskFinished
<1> QED
  BY <1>1, <1>2, <1>3 DEF Loop

LEMMA Appended ==
  ASSUME ChannelsTyped, NEW x \in ToRobot, inbox' = Append(inbox, x)
  PROVE  /\ inbox' \in Seq(ToRobot) /\ Len(inbox) \in Nat /\ Len(inbox') = Len(inbox) + 1
         /\ inbox'[Len(inbox) + 1] = x
         /\ \A i \in 1 .. Len(inbox) : inbox'[i] = inbox[i]
BY DEF ChannelsTyped

\* The messages of a verdict: it is followed by the opening of the next task or by
\* the end of the mission.
LEMMA VerdictSays ==
  ASSUME ChannelsTyped, NEW v \in {"Task_succeeded", "Task_failed"}, Verdict(v)
  PROVE  /\ inbox' \in Seq(ToRobot) /\ Len(inbox) \in Nat
         /\ \A i \in 1 .. Len(inbox) : inbox'[i] = inbox[i]
         /\ inbox'[Len(inbox) + 1].m = v /\ inbox'[Len(inbox) + 1].task = task
         /\ \/ /\ task' = task + 1 /\ task' \in Tasks /\ phase' = "waiting"
               /\ Len(inbox') = Len(inbox) + 3
               /\ \A i \in {Len(inbox) + 2, Len(inbox) + 3} :
                    inbox'[i].m \in {"Environment", "Are_you_ready?"} /\ inbox'[i].task = task'
            \/ /\ task' = task /\ phase' = "over" /\ Len(inbox') = Len(inbox) + 2
               /\ inbox'[Len(inbox) + 2].m = "Mission_complete"
               /\ inbox'[Len(inbox) + 2].task = task
<1> DEFINE n == Len(inbox)
           x == [m |-> v, task |-> task]
           y == [m |-> "Environment", task |-> task + 1]
           z == [m |-> "Are_you_ready?", task |-> task + 1]
           w == [m |-> "Mission_complete", task |-> task]
<1>1. inbox \in Seq(ToRobot) /\ n \in Nat /\ x \in ToRobot /\ w \in ToRobot
  BY DEF ChannelsTyped, ToRobot, Orders
<1>2. CASE task + 1 \in Tasks
  <2>1. y \in ToRobot /\ z \in ToRobot
    BY <1>2 DEF ToRobot, Orders
  <2>2. inbox' = Append(inbox, x) \o <<y, z>> /\ task' = task + 1 /\ phase' = "waiting"
    BY <1>2 DEF Verdict, Opening
  <2> HIDE DEF x, y, z
  <2>3. /\ inbox' \in Seq(ToRobot) /\ Len(inbox') = n + 3
        /\ inbox'[n + 1] = x /\ inbox'[n + 2] = y /\ inbox'[n + 3] = z
        /\ \A i \in 1 .. n : inbox'[i] = inbox[i]
    BY <1>1, <2>1, <2>2
  <2> QED
    BY <1>1, <1>2, <2>2, <2>3 DEF x, y, z
<1>3. CASE task + 1 \notin Tasks
  <2>1. inbox' = inbox \o <<x, w>> /\ task' = task /\ phase' = "over"
    BY <1>3 DEF Verdict
  <2> HIDE DEF x, w
  <2>2. /\ inbox' \in Seq(ToRobot) /\ Len(inbox') = n + 2
        /\ inbox'[n + 1] = x /\ inbox'[n + 2] = w
        /\ \A i \in 1 .. n : inbox'[i] = inbox[i]
    BY <1>1, <2>1
  <2> QED
    BY <1>1, <2>1, <2>2 DEF x, w
<1> QED
  BY <1>2, <1>3

\* What the moderator makes of a report.
LEMMA Judged ==
  ASSUME ChannelsTyped, Judge
  PROVE  /\ phase # "over" /\ Len(outbox) \in Nat \ {0} /\ outbox' \in Seq(ToModerator)
         /\ Len(outbox') = Len(outbox) - 1
         /\ \A i \in 1 .. Len(outbox') : outbox'[i] = outbox[i + 1]
         /\ UNCHANGED nodeVars
         /\ \/ /\ outbox[1].m = "I_am_ready" /\ phase = "waiting" /\ phase' = "instructed"
               /\ inbox' = Append(inbox, [m |-> "Instruction", task |-> task]) /\ UNCHANGED task
            \/ /\ UNCHANGED <<inbox, task>>
               /\ \/ outbox[1].m = "Room_reached" /\ phase = "instructed" /\ phase' = "entered"
                  \/ outbox[1].m = "Object_grasped" /\ phase = "entered" /\ phase' = "grasped"
                  \/ UNCHANGED phase
            \/ outbox[1].m = "Task_finished" /\ phase = "grasped" /\ Verdict("Task_succeeded")
            \/ phase # "waiting" /\ Verdict("Task_failed")
<1>1. outbox \in Seq(ToModerator) /\ outbox # <<>> /\ phase # "over"
  BY DEF Judge, ChannelsTyped
<1>2. Len(outbox) \in Nat \ {0} /\ Head(outbox) = outbox[1]
  BY <1>1, EmptySeq
<1>3. /\ outbox' \in Seq(ToModerator) /\ Len(outbox') = Len(outbox) - 1
      /\ \A i \in 1 .. Len(outbox') : outbox'[i] = outbox[i + 1]
  BY <1>1, <1>2, HeadTailProperties DEF Judge
<1> QED
  BY <1>1, <1>2, <1>3 DEF Judge, moderator

LEMMA StepKeepsChannels ==
  ASSUME NodeTyped, ChannelsTyped, [Next]_vars PROVE ChannelsTyped'
<1> USE DEF channels, moderator, callbackFrame, navFrame
<1>1. CASE Loop
  <2>1. \A m \in Reports : [m |-> m, task |-> instruction] \in ToModerator
    BY DEF ToModerator, NodeTyped
  <2>2. outbox' \in Seq(ToModerator)
    <3>1. CASE UNCHANGED outbox
      BY <3>1 DEF ChannelsTyped
    <3>2. ASSUME NEW m \in Reports, Say(m) PROVE outbox' \in Seq(ToModerator)
      <4> DEFINE x == [m |-> m, task |-> instruction]
      <4>1. x \in ToModerator
        BY <2>1
      <4>2. outbox' = Append(outbox, x)
        BY <3>2 DEF Say
      <4> HIDE DEF x
      <4> QED
        BY <4>1, <4>2 DEF ChannelsTyped
    <3> QED
      BY <1>1, <3>1, <3>2, LoopSays DEF Reports
  <2> QED
    BY <1>1, <2>2, LoopSays DEF ChannelsTyped
<1>2. CASE Receive
  BY <1>2, Reads DEF Receive, ChannelsTyped
<1>3. CASE AskAgain
  <2>1. inbox' \in Seq(ToRobot) /\ \A i \in 1 .. Len(inbox') : inbox'[i].task = task
    BY <1>3 DEF AskAgain, Opening, ChannelsTyped, ToRobot, Orders
  <2> QED
    BY <1>3, <2>1 DEF AskAgain, ChannelsTyped, Tasks
<1>4. ASSUME NEW v \in {"Task_succeeded", "Task_failed"}, Verdict(v)
      PROVE  /\ inbox' \in Seq(ToRobot) /\ task' \in Tasks /\ phase' \in {"waiting", "over"}
             /\ \A i \in 1 .. Len(inbox') : inbox'[i].task <= task'
  <2>1. task \in Nat /\ task' \in Nat /\ task <= task'
    BY <1>4, VerdictSays, JobAssumption DEF ChannelsTyped, Tasks
  <2>2. /\ \A i \in 1 .. Len(inbox) : inbox'[i].task <= task'
        /\ Len(inbox) \in Nat /\ inbox'[Len(inbox) + 1].task <= task'
    <3>1. ASSUME NEW i \in 1 .. Len(inbox) PROVE inbox'[i].task <= task'
      <4>1. inbox[i] \in ToRobot
        BY ElementOfSeq DEF ChannelsTyped
      <4>2. inbox[i].task \in Nat /\ inbox[i].task <= task
        BY <4>1, JobAssumption DEF ToRobot, Tasks, ChannelsTyped
      <4>3. inbox[i].task <= task'
        BY <2>1, <4>2
      <4>4. inbox'[i] = inbox[i]
        BY <1>4, VerdictSays
      <4> QED
        BY <4>3, <4>4
    <3>2. Len(inbox) \in Nat /\ inbox'[Len(inbox) + 1].task = task
      BY <1>4, VerdictSays
    <3> QED
      BY <2>1, <3>1, <3>2
  <2>3. CASE task' = task + 1 /\ Len(inbox') = Len(inbox) + 3
    <3>1. /\ inbox' \in Seq(ToRobot) /\ task' \in Tasks /\ phase' = "waiting"
          /\ inbox'[Len(inbox) + 2].task = task' /\ inbox'[Len(inbox) + 3].task = task'
      BY <1>4, <2>1, <2>3, VerdictSays
    <3>2. \A i \in 1 .. Len(inbox') : i \in 1 .. Len(inbox) \/ i - Len(inbox) \in {1, 2, 3}
      BY <2>2, <2>3
    <3> QED
      BY <2>1, <2>2, <2>3, <3>1, <3>2
  <2>4. CASE task' = task /\ Len(inbox') = Len(inbox) + 2
    BY <1>4, <2>1, <2>2, <2>4, VerdictSays DEF ChannelsTyped
  <2> QED
    BY <1>4, <2>3, <2>4, VerdictSays DEF ChannelsTyped
<1>5. CASE TimeUp
  BY <1>5, <1>4 DEF TimeUp, ChannelsTyped
<1>6. CASE Judge
  <2>1. outbox' \in Seq(ToModerator)
    BY <1>6, Judged
  <2>2. CASE inbox' = Append(inbox, [m |-> "Instruction", task |-> task]) /\ UNCHANGED task
             /\ phase' = "instructed"
    <3>1. [m |-> "Instruction", task |-> task] \in ToRobot
      BY DEF ToRobot, Orders, ChannelsTyped
    <3> DEFINE x == [m |-> "Instruction", task |-> task]
    <3>2. x.task = task /\ task \in Nat
      BY DEF ChannelsTyped, Tasks
    <3> HIDE DEF x
    <3>3. /\ inbox' \in Seq(ToRobot) /\ Len(inbox) \in Nat /\ Len(inbox') = Len(inbox) + 1
          /\ inbox'[Len(inbox) + 1] = x
          /\ \A i \in 1 .. Len(inbox) : inbox'[i] = inbox[i]
      BY <2>2, <3>1, Appended DEF x
    <3> QED
      BY <2>1, <2>2, <3>2, <3>3 DEF ChannelsTyped
  <2> QED
    BY <1>6, <1>4, <2>1, <2>2, Judged DEF ChannelsTyped
<1>7. CASE UNCHANGED <<inbox, outbox, task, phase>>
  BY <1>7 DEF ChannelsTyped
<1> QED
  BY <1>1, <1>2, <1>3, <1>5, <1>6, <1>7 DEF Next, Detect, NavResult, NavAccept, NavFinish, vars

-----------------------------------------------------------------------------
(* The parts of the invariant.                                             *)

LEMMA StepKeepsTask ==
  ASSUME FlagsTyped, NodeTyped, ChannelsTyped, StepHasItsTask, [Next]_vars PROVE StepHasItsTask'
<1> USE DEF flags, navVars, search, maps, channels, moderator, searchFrame, loadFrame, callbackFrame,
            navFrame, nodeVars, At, StepHasItsTask, Engaged, Working, Steps, Loading
<1>1. CASE Initialize \/ LoadUnregistered
  BY <1>1 DEF Initialize, LoadUnregistered
<1>2. CASE StartLoading \/ MapArrives \/ MapMissing
  BY <1>2, NoneAssumption DEF StartLoading, MapArrives, MapMissing
<1>3. CASE NavigationStarted \/ CostmapsCleared \/ LoadSucceeds \/ SystemMissing
  BY <1>3 DEF NavigationStarted, CostmapsCleared, LoadSucceeds, SystemMissing
<1>4. CASE TakeInstruction \/ StopForObject \/ Stopped \/ AlreadyInRoom
  BY <1>4 DEF TakeInstruction, StopForObject, Stopped, AlreadyInRoom
<1>5. CASE SendToRoom \/ AwaitRoom \/ SendToDestination \/ AwaitDestination
  BY <1>5 DEF SendToRoom, AwaitRoom, SendToDestination, AwaitDestination
<1>6. CASE Align \/ Grasp \/ AtDestination \/ TimeoutThrows \/ Release \/ TaskFinished
  BY <1>6 DEF Align, Grasp, AtDestination, TimeoutThrows, Release, TaskFinished
<1>7. CASE Receive
  <2>1. inbox[1].task # None /\ Head(inbox) = inbox[1]
    BY <1>7, Reads, NoneAssumption DEF Receive
  <2>2. Layout(inbox[1].task) # None
    BY <1>7, Reads, JobAssumption DEF Receive, Layout
  <2>3. CASE OnEnvironment(inbox[1])
    BY <1>7, <2>1, <2>2, <2>3 DEF Receive, OnEnvironment, Spinning
  <2>4. CASE OnReady
    BY <1>7, <2>1, <2>4 DEF Receive, OnReady, Spinning
  <2>5. CASE OnInstruction(inbox[1])
    BY <1>7, <2>1, <2>5 DEF Receive, OnInstruction, Spinning
  <2>6. CASE LeavesStep(inbox[1])
    BY <1>7, <2>1, <2>6 DEF Receive, LeavesStep, Spinning
  <2> QED
    BY <1>7, <2>1, <2>3, <2>4, <2>5, <2>6 DEF Receive
<1>8. CASE UNCHANGED <<step, inner, environment, instruction, finished>>
  BY <1>8
<1> QED
  BY <1>1, <1>3, <1>4, <1>5, <1>6, <1>7, <1>8, <1>2
     DEF Next, Loop, Detect, NavResult, NavAccept, NavFinish, AskAgain, TimeUp, Judge, vars

LEMMA MessagesTyped ==
  ASSUME ChannelsTyped
  PROVE  /\ task \in Nat /\ Len(inbox) \in Nat
         /\ \A i \in 1 .. Len(inbox) :
              inbox[i] \in ToRobot /\ inbox[i].task \in Nat /\ inbox[i].task \in Tasks
<1>1. ASSUME NEW i \in 1 .. Len(inbox) PROVE inbox[i] \in ToRobot
  BY ElementOfSeq DEF ChannelsTyped
<1> QED
  BY <1>1, JobAssumption DEF ToRobot, Tasks, ChannelsTyped

LEMMA FailingKept ==
  ASSUME ChannelsTyped, \A i \in 1 .. Len(inbox) : inbox'[i] = inbox[i],
         NEW a \in 1 .. Len(inbox), NEW b \in Int, b <= Len(inbox)
  PROVE  Failing(a, b) <=> Failing(a, b)'
BY DEF Failing, ChannelsTyped

LEMMA SeparatedStays ==
  ASSUME TasksAreSeparated, UNCHANGED <<inbox, task>>,
         phase' = phase \/ (phase \in UnderWay /\ phase' \in UnderWay),
         \/ UNCHANGED <<step, inner, failed, finished>>
         \/ \A i \in 1 .. Len(inbox) : inbox[i].m # "Task_succeeded"
  PROVE  TasksAreSeparated'
BY DEF TasksAreSeparated, Failing, UnderWay

\* The verdict on a task that is over stands: the loop does nothing before it is read.
LEMMA VerdictStopsLoop ==
  ASSUME step = "TaskFinished", inner = "none", ~failed, ~finished PROVE ~Loop
<1> USE DEF At
<1>1. ~Initialize /\ ~LoadUnregistered /\ ~StartLoading /\ ~MapArrives /\ ~MapMissing
  BY DEF Initialize, LoadUnregistered, StartLoading, MapArrives, MapMissing
<1>2. ~NavigationStarted /\ ~CostmapsCleared /\ ~LoadSucceeds /\ ~SystemMissing
  BY DEF NavigationStarted, CostmapsCleared, LoadSucceeds, SystemMissing
<1>3. ~TakeInstruction /\ ~StopForObject /\ ~Stopped /\ ~AlreadyInRoom
  BY DEF TakeInstruction, StopForObject, Stopped, AlreadyInRoom
<1>4. ~SendToRoom /\ ~AwaitRoom /\ ~SendToDestination /\ ~AwaitDestination
  BY DEF SendToRoom, AwaitRoom, SendToDestination, AwaitDestination
<1>5. ~Align /\ ~Grasp /\ ~AtDestination /\ ~TimeoutThrows /\ ~Release /\ ~TaskFinished
  BY DEF Align, Grasp, AtDestination, TimeoutThrows, Release, TaskFinished
<1> QED
  BY <1>1, <1>2, <1>3, <1>4, <1>5 DEF Loop

LEMMA LoopKeepsSeparated == ASSUME TasksAreSeparated, Loop PROVE TasksAreSeparated'
<1>1. \A i \in 1 .. Len(inbox) : inbox[i].m # "Task_succeeded"
  BY VerdictStopsLoop DEF TasksAreSeparated
<1> QED
  BY <1>1, LoopSays, SeparatedStays

\* The messages after the one that is read.
LEMMA FailingLater ==
  ASSUME ChannelsTyped, Receive, NEW a \in Nat \ {0}
  PROVE  /\ \A b \in 1 .. Len(inbox) : Failing(a + 1, b) <=> Failing(a, b - 1)'
         /\ Failing(a + 1, Len(inbox)) <=> Failing(a, Len(inbox))'
<1>1. /\ Len(inbox) \in Nat \ {0} /\ Len(inbox') = Len(inbox) - 1
      /\ \A i \in 1 .. Len(inbox) - 1 : inbox'[i] = inbox[i + 1]
  BY Reads DEF Receive
<1>2. ASSUME NEW b \in 1 .. Len(inbox), NEW k \in a + 1 .. b, inbox[k].m = "Task_failed"
      PROVE  Failing(a, b - 1)'
  <2>1. k - 1 \in a .. b - 1 /\ inbox'[k - 1] = inbox[k]
    BY <1>1
  <2> QED
    BY <1>2, <2>1 DEF Failing
<1>3. ASSUME NEW b \in 1 .. Len(inbox), NEW k \in a .. b - 1, inbox'[k].m = "Task_failed"
      PROVE  Failing(a + 1, b)
  <2>1. k + 1 \in a + 1 .. b /\ inbox'[k] = inbox[k + 1]
    BY <1>1
  <2> QED
    BY <1>3, <2>1 DEF Failing
<1>4. \A b \in 1 .. Len(inbox) : Failing(a + 1, b) <=> Failing(a, b - 1)'
  BY <1>2, <1>3 DEF Failing
<1>5. PICK n \in 1 .. Len(inbox) : n = Len(inbox)
  BY <1>1
<1>6. Failing(a, Len(inbox))' <=> Failing(a, n - 1)'
  BY <1>1, <1>5 DEF Failing
<1> QED
  BY <1>4, <1>5, <1>6

LEMMA Received ==
  ASSUME ChannelsTyped, Receive
  PROVE  /\ Len(inbox) \in Nat \ {0} /\ Head(inbox) = inbox[1] /\ Len(inbox') = Len(inbox) - 1
         /\ \A i \in 1 .. Len(inbox') : inbox'[i] = inbox[i + 1] /\ i + 1 \in 2 .. Len(inbox)
         /\ UNCHANGED <<outbox, task, phase, mapServed>>
BY Reads DEF Receive, maps, moderator

LEMMA ReceiveKeepsSeparated ==
  ASSUME ChannelsTyped, TasksAreSeparated, Receive PROVE TasksAreSeparated'
<1>1. ASSUME NEW i \in 1 .. Len(inbox')
      PROVE  /\ inbox'[i].m # "Task_succeeded"
             /\ inbox'[i].task # task' => Failing(i, Len(inbox))'
             /\ inbox'[i].task = task' /\ phase' # "over" =>
                  \/ inbox'[i].m \in {"Environment", "Are_you_ready?"}
                  \/ inbox'[i].m = "Instruction" /\ phase' \in UnderWay
             /\ inbox'[i].m = "Instruction" /\ phase' \in UnderWay =>
                  i = Len(inbox') /\ inbox'[i].task = task'
  <2>1. inbox'[i] = inbox[i + 1] /\ i + 1 \in 2 .. Len(inbox)
    BY Received
  <2>2. Failing(i + 1, Len(inbox)) <=> Failing(i, Len(inbox))'
    BY Received, FailingLater
  <2> QED
    BY <2>1, <2>2, Received DEF TasksAreSeparated
<1>2. ASSUME NEW i \in 1 .. Len(inbox'), NEW j \in 1 .. Len(inbox'),
             i < j, inbox'[i].task # inbox'[j].task
      PROVE  Failing(i, j - 1)'
  <2>1. /\ inbox'[i] = inbox[i + 1] /\ i + 1 \in 2 .. Len(inbox)
        /\ inbox'[j] = inbox[j + 1] /\ j + 1 \in 2 .. Len(inbox)
        /\ j \in 1 .. Len(inbox) /\ i \in Nat \ {0}
    BY Received
  <2>2. Failing(i + 1, j) <=> Failing(i, j - 1)'
    BY <2>1, FailingLater
  <2> QED
    BY <1>2, <2>1, <2>2 DEF TasksAreSeparated
<1> QED
  BY <1>1, <1>2 DEF TasksAreSeparated

LEMMA AskAgainKeepsSeparated ==
  ASSUME ChannelsTyped, AskAgain PROVE TasksAreSeparated'
<1>1. /\ Len(inbox') = 2 /\ UNCHANGED <<task, phase>> /\ phase = "waiting"
      /\ \A i \in 1 .. Len(inbox') :
           inbox'[i].m \in {"Environment", "Are_you_ready?"} /\ inbox'[i].task = task'
  BY DEF AskAgain, Opening, moderator
<1> QED
  BY <1>1 DEF TasksAreSeparated, UnderWay

LEMMA InstructionKeepsSeparated ==
  ASSUME ChannelsTyped, TasksAreSeparated, UNCHANGED <<task, step, inner, failed, finished>>,
         \A i \in 1 .. Len(inbox) : inbox[i].m # "Instruction",
         phase = "waiting", phase' = "instructed",
         inbox' = Append(inbox, [m |-> "Instruction", task |-> task])
  PROVE  TasksAreSeparated'
<1> DEFINE x == [m |-> "Instruction", task |-> task]
           n == Len(inbox)
<1>1. x \in ToRobot /\ x.m = "Instruction" /\ x.task = task
  BY DEF ToRobot, Orders, ChannelsTyped
<1> HIDE DEF x
<1>2. /\ n \in Nat /\ Len(inbox') = n + 1 /\ inbox'[n + 1] = x
      /\ \A i \in 1 .. n : inbox'[i] = inbox[i]
  BY <1>1, Appended DEF x
<1>3. \A a \in 1 .. n : \A b \in 1 .. n : Failing(a, b) => Failing(a, b)' /\ Failing(a, n + 1)'
  BY <1>2 DEF Failing
<1>4. ASSUME NEW i \in 1 .. n + 1
      PROVE  /\ inbox'[i].m = "Task_succeeded" =>
                  i = 1 /\ step' = "TaskFinished" /\ inner' = "none" /\ ~failed' /\ ~finished'
             /\ inbox'[i].task # task' =>
                  inbox'[i].m = "Task_succeeded" \/ Failing(i, Len(inbox))'
             /\ inbox'[i].task = task' /\ phase' # "over" =>
                  \/ inbox'[i].m \in {"Environment", "Are_you_ready?"}
                  \/ inbox'[i].m = "Instruction" /\ phase' \in UnderWay
             /\ inbox'[i].m = "Instruction" /\ phase' \in UnderWay =>
                  i = Len(inbox') /\ inbox'[i].task = task'
  <2>1. CASE i \in 1 .. n
    <3>1. inbox'[i] = inbox[i] /\ (Failing(i, n) => Failing(i, Len(inbox))')
      BY <1>2, <2>1 DEF Failing
    <3> QED
      BY <1>2, <2>1, <3>1 DEF TasksAreSeparated, UnderWay
  <2>2. CASE i = n + 1
    BY <1>1, <1>2, <2>2 DEF UnderWay
  <2> QED
    BY <1>2, <2>1, <2>2
<1>5. ASSUME NEW i \in 1 .. n + 1, NEW j \in 1 .. n + 1,
             i < j, inbox'[i].task # inbox'[j].task
      PROVE  inbox'[i].m = "Task_succeeded" \/ Failing(i, j - 1)'
  <2>1. i \in 1 .. n
    BY <1>2, <1>5
  <2>2. CASE j \in 1 .. n
    <3>1. j - 1 \in 1 .. n
      BY <1>2, <1>5, <2>2
    <3> QED
      BY <1>2, <1>3, <1>5, <2>1, <2>2, <3>1 DEF TasksAreSeparated
  <2>3. CASE j = n + 1
    BY <1>1, <1>2, <1>3, <1>5, <2>1, <2>3 DEF TasksAreSeparated
  <2> QED
    BY <1>2, <2>2, <2>3
<1> QED
  BY <1>2, <1>4, <1>5 DEF TasksAreSeparated

LEMMA FailureKeepsSeparated ==
  ASSUME ChannelsTyped, TasksAreSeparated, UNCHANGED <<step, inner, failed, finished>>,
         Verdict("Task_failed"), phase # "over"
  PROVE  TasksAreSeparated'
<1> DEFINE n == Len(inbox)
<1>1. /\ n \in Nat /\ \A i \in 1 .. n : inbox'[i] = inbox[i]
      /\ inbox'[n + 1].m = "Task_failed" /\ inbox'[n + 1].task = task
      /\ Len(inbox') \in {n + 2, n + 3} /\ task \in Nat
      /\ \A i \in n + 2 .. Len(inbox') :
           /\ inbox'[i].task = task'
           /\ inbox'[i].m \in {"Environment", "Are_you_ready?", "Mission_complete"}
           /\ inbox'[i].m \in {"Environment", "Are_you_ready?"} \/ phase' = "over"
      /\ (task' = task + 1 /\ phase' = "waiting") \/ (task' = task /\ phase' = "over")
  <2>1. n \in Nat /\ task \in Nat
    BY MessagesTyped
  <2>2. CASE task' = task + 1
    <3>1. Len(inbox') = n + 3 /\ phase' = "waiting"
      BY <2>1, <2>2, VerdictSays
    <3>2. n + 2 .. Len(inbox') = {n + 2, n + 3}
      BY <2>1, <3>1
    <3> QED
      BY <2>1, <2>2, <3>1, <3>2, VerdictSays
  <2>3. CASE task' = task
    <3>1. Len(inbox') = n + 2 /\ phase' = "over"
      BY <2>1, <2>3, VerdictSays
    <3>2. n + 2 .. Len(inbox') = {n + 2}
      BY <2>1, <3>1
    <3> QED
      BY <2>1, <2>3, <3>1, <3>2, VerdictSays
  <2> QED
    BY <2>2, <2>3, VerdictSays
<1>2. \A a \in 1 .. n + 1 : \A b \in n + 1 .. Len(inbox') : Failing(a, b)'
  BY <1>1 DEF Failing
<1>3. \A a, b \in 1 .. n : Failing(a, b) => Failing(a, b)'
  <2> SUFFICES ASSUME NEW a \in 1 .. n, NEW b \in 1 .. n, NEW k \in a .. b,
                      inbox[k].m = "Task_failed"
               PROVE  Failing(a, b)'
    BY DEF Failing
  <2>1. k \in 1 .. n
    BY <1>1
  <2> QED
    BY <1>1, <2>1 DEF Failing
<1>4. \A i \in 1 .. n + 1 : inbox'[i].task \in Nat /\ inbox'[i].task <= task
  BY <1>1, MessagesTyped DEF ChannelsTyped
<1>5. ASSUME NEW i \in 1 .. Len(inbox')
      PROVE  /\ inbox'[i].m = "Task_succeeded" =>
                  i = 1 /\ step' = "TaskFinished" /\ inner' = "none" /\ ~failed' /\ ~finished'
             /\ inbox'[i].task # task' =>
                  inbox'[i].m = "Task_succeeded" \/ Failing(i, Len(inbox))'
             /\ inbox'[i].task = task' /\ phase' # "over" =>
                  \/ inbox'[i].m \in {"Environment", "Are_you_ready?"}
                  \/ inbox'[i].m = "Instruction" /\ phase' \in UnderWay
             /\ phase' \notin UnderWay
  <2>1. CASE i \in 1 .. n
    BY <1>1, <1>2, <1>4, <2>1 DEF TasksAreSeparated, UnderWay
  <2>2. CASE i = n + 1
    BY <1>1, <1>2, <2>2 DEF UnderWay
  <2>3. CASE i \in n + 2 .. Len(inbox')
    BY <1>1, <2>3 DEF UnderWay
  <2> QED
    BY <1>1, <2>1, <2>2, <2>3
<1>6. ASSUME NEW i \in 1 .. Len(inbox'), NEW j \in 1 .. Len(inbox'),
             i < j, inbox'[i].task # inbox'[j].task
      PROVE  inbox'[i].m = "Task_succeeded" \/ Failing(i, j - 1)'
  <2>1. CASE j \in n + 2 .. Len(inbox')
    BY <1>1, <1>2, <1>6, <2>1
  <2>2. CASE j = n + 1
    <3>1. i \in 1 .. n /\ inbox[i].task # task
      BY <1>1, <1>6, <2>2
    <3> QED
      BY <1>1, <1>3, <2>2, <3>1 DEF TasksAreSeparated
  <2>3. CASE j \in 1 .. n
    <3>1. i \in 1 .. n /\ j - 1 \in 1 .. n
      BY <1>1, <1>6, <2>3
    <3> QED
      BY <1>1, <1>3, <1>6, <2>3, <3>1 DEF TasksAreSeparated
  <2> QED
    BY <1>1, <2>1, <2>2, <2>3
<1> QED
  BY <1>5, <1>6 DEF TasksAreSeparated

LEMMA SuccessKeepsSeparated ==
  ASSUME ChannelsTyped, inbox = <<>>, Verdict("Task_succeeded"),
         step' = "TaskFinished", inner' = "none", ~failed', ~finished'
  PROVE  TasksAreSeparated'
<1>1. /\ inbox'[1].m = "Task_succeeded" /\ inbox'[1].task = task /\ task \in Nat
      /\ \/ /\ task' = task + 1 /\ phase' = "waiting" /\ Len(inbox') = 3
            /\ \A i \in {2, 3} :
                 inbox'[i].m \in {"Environment", "Are_you_ready?"} /\ inbox'[i].task = task'
         \/ /\ task' = task /\ phase' = "over" /\ Len(inbox') = 2
            /\ inbox'[2].m = "Mission_complete" /\ inbox'[2].task = task
  BY VerdictSays DEF ChannelsTyped, Tasks
<1>2. CASE task' = task + 1
  <2>1. phase' = "waiting" /\ Len(inbox') = 3 /\ task' # task
    BY <1>1, <1>2
  <2>2. 1 .. Len(inbox') = {1, 2, 3}
    BY <2>1
  <2>3. \A i \in {2, 3} :
          inbox'[i].m \in {"Environment", "Are_you_ready?"} /\ inbox'[i].task = task'
    BY <1>1, <1>2
  <2> QED
    BY <1>1, <2>1, <2>2, <2>3 DEF TasksAreSeparated, UnderWay
<1>3. CASE task' = task
  <2>1. /\ phase' = "over" /\ Len(inbox') = 2
        /\ inbox'[2].m = "Mission_complete" /\ inbox'[2].task = task
    BY <1>1, <1>3
  <2>2. 1 .. Len(inbox') = {1, 2}
    BY <2>1
  <2> QED
    BY <1>1, <1>3, <2>1, <2>2 DEF TasksAreSeparated, UnderWay
<1> QED
  BY <1>1, <1>2, <1>3

\* What the loop does to the instruction and to the step.
LEMMA LoopMoves ==
  ASSUME StepHasItsTask, Loop
  PROVE  /\ instruction' \in {instruction, None}
         /\ UNCHANGED failed \/ instruction' = None
         /\ Engaged' => Engaged \/ instruction' = None
         /\ inner' = "costmaps" => inner = "costmaps" \/ NavigationStarted
         /\ inner' = "system" => inner = "system" \/ CostmapsCleared
         /\ (step \in {"Initialize", "Ready", "WaitForInstruction"} /\ instruction = None) =>
              instruction' = None /\ step' \in {"Initialize", "Ready", "WaitForInstruction"}
<1> USE DEF flags, searchFrame, loadFrame, At, StepHasItsTask, Engaged, Working, Steps, Loading
<1>1. CASE Initialize \/ LoadUnregistered \/ StartLoading
  BY <1>1 DEF Initialize, LoadUnregistered, StartLoading
<1>2. CASE MapArrives \/ MapMissing \/ NavigationStarted \/ CostmapsCleared
  BY <1>2 DEF MapArrives, MapMissing, NavigationStarted, CostmapsCleared
<1>3. CASE LoadSucceeds \/ SystemMissing
  BY <1>3 DEF LoadSucceeds, SystemMissing
<1>4. CASE TakeInstruction \/ StopForObject \/ Stopped \/ AlreadyInRoom
  BY <1>4 DEF TakeInstruction, StopForObject, Stopped, AlreadyInRoom
<1>5. CASE SendToRoom \/ AwaitRoom \/ SendToDestination \/ AwaitDestination
  BY <1>5 DEF SendToRoom, AwaitRoom, SendToDestination, AwaitDestination
<1>6. CASE Align \/ Grasp \/ AtDestination \/ TimeoutThrows \/ Release \/ TaskFinished
  BY <1>6 DEF Align, Grasp, AtDestination, TimeoutThrows, Release, TaskFinished
<1> QED
  BY <1>1, <1>2, <1>3, <1>4, <1>5, <1>6 DEF Loop

LEMMA Said ==
  ASSUME NodeTyped, ChannelsTyped, NEW m \in Reports, Say(m)
  PROVE  /\ Len(outbox) \in Nat /\ Len(outbox') = Len(outbox) + 1
         /\ \A i \in 1 .. Len(outbox) : outbox'[i] = outbox[i]
         /\ outbox'[Len(outbox) + 1].m = m /\ outbox'[Len(outbox) + 1].task = instruction
<1> DEFINE x == [m |-> m, task |-> instruction]
<1>1. x \in ToModerator /\ x.m = m /\ x.task = instruction
  BY DEF ToModerator, NodeTyped
<1>2. outbox' = Append(outbox, x)
  BY DEF Say
<1> HIDE DEF x
<1> QED
  BY <1>1, <1>2 DEF ChannelsTyped

LEMMA LoopKeepsReady ==
  ASSUME NodeTyped, ChannelsTyped, StepHasItsTask, ReadyStandsAlone, Loop PROVE ReadyStandsAlone'
<1>1. inner' = "system" => \A i \in 1 .. Len(inbox') : inbox'[i].m # "Instruction"
  BY LoopMoves, LoopSays DEF ReadyStandsAlone, CostmapsCleared
<1>2. ASSUME phase # "over", inner' \in {"costmaps", "system"} PROVE outbox' = <<>>
  <2>1. inner = inner' \/ NavigationStarted \/ CostmapsCleared
    BY <1>2, LoopMoves
  <2>2. outbox = <<>>
    BY <1>2, <2>1 DEF ReadyStandsAlone, NavigationStarted, CostmapsCleared
  <2>3. UNCHANGED outbox
    <3>1. CASE LoadSucceeds
      BY <1>2, <3>1 DEF LoadSucceeds
    <3>2. CASE Release
      BY <1>2, <2>1, <3>2 DEF Release, At, NavigationStarted, CostmapsCleared, searchFrame
    <3>3. CASE inner = "none"
      BY <1>2, <2>1, <3>3 DEF NavigationStarted, CostmapsCleared
    <3> QED
      BY <3>1, <3>2, <3>3, LoopSays
  <2> QED
    BY <2>2, <2>3
<1>3. ASSUME phase # "over", NEW i \in 1 .. Len(outbox'), outbox'[i].m = "I_am_ready"
      PROVE  /\ Len(outbox') = 1 /\ instruction' = None
             /\ step' \in {"Initialize", "Ready", "WaitForInstruction"}
             /\ \A j \in 1 .. Len(inbox') : inbox'[j].m # "Instruction"
  <2>1. CASE UNCHANGED outbox
    BY <1>3, <2>1, LoopMoves, LoopSays DEF ReadyStandsAlone
  <2>2. CASE LoadSucceeds /\ Say("I_am_ready")
    <3>1. inner = "system" /\ step' = "WaitForInstruction" /\ instruction' = None
      BY <2>2 DEF LoadSucceeds, StepHasItsTask, Loading
    <3>2. outbox = <<>> /\ Len(outbox) = 0
      BY <1>3, <3>1 DEF ReadyStandsAlone
    <3>3. Len(outbox') = 1
      BY <2>2, <3>2, Said DEF Reports
    <3> QED
      BY <1>3, <3>1, <3>3, LoopSays DEF ReadyStandsAlone
  <2>3. ASSUME step \in Working, NEW m \in Reports \ {"I_am_ready"}, Say(m) PROVE FALSE
    <3>1. i \in 1 .. Len(outbox)
      BY <1>3, <2>3, Said
    <3>2. outbox[i].m = "I_am_ready"
      BY <1>3, <2>3, <3>1, Said
    <3> QED
      BY <1>3, <2>3, <3>1, <3>2 DEF ReadyStandsAlone, Working, Steps
  <2> QED
    BY <2>1, <2>2, <2>3, LoopSays DEF Reports, Release, At, Working, Steps
<1> QED
  BY <1>1, <1>2, <1>3, LoopSays DEF ReadyStandsAlone

LEMMA ReceiveKeepsReady ==
  ASSUME ChannelsTyped, ReadyStandsAlone, Receive PROVE ReadyStandsAlone'
<1>1. ASSUME \A i \in 1 .. Len(inbox) : inbox[i].m # "Instruction"
      PROVE  /\ \A i \in 1 .. Len(inbox') : inbox'[i].m # "Instruction"
             /\ UNCHANGED instruction
             /\ step \in {"Initialize", "Ready", "WaitForInstruction"} => UNCHANGED step
  <2>1. \A i \in 1 .. Len(inbox') : inbox'[i].m # "Instruction"
    BY <1>1, Received
  <2>2. inbox[1].m # "Instruction" /\ Head(inbox) = inbox[1]
    BY <1>1, Received
  <2> QED
    BY <2>1, <2>2 DEF Receive, OnEnvironment, OnReady, OnInstruction, LeavesStep, Working, Steps
<1>2. inner' \in {inner, "exited"}
  BY DEF Receive
<1> QED
  BY <1>1, <1>2, Received DEF ReadyStandsAlone

\* The surroundings leave the node alone, and the moderator sends an instruction only
\* when it reads that the robot is ready.
LEMMA OthersKeepReady ==
  ASSUME ChannelsTyped, ReadyStandsAlone, UNCHANGED <<step, inner, instruction>>,
         \/ AskAgain \/ TimeUp \/ Judge
         \/ UNCHANGED <<inbox, outbox, phase>>
  PROVE  ReadyStandsAlone'
<1>1. CASE UNCHANGED <<inbox, outbox, phase>>
  BY <1>1 DEF ReadyStandsAlone
<1>2. CASE AskAgain
  <2>1. /\ UNCHANGED <<outbox, phase>>
        /\ \A i \in 1 .. Len(inbox') : inbox'[i].m # "Instruction"
    BY <1>2 DEF AskAgain, Opening, moderator
  <2> QED
    BY <2>1 DEF ReadyStandsAlone
<1>3. ASSUME NEW v \in {"Task_succeeded", "Task_failed"}, Verdict(v),
             \A i \in 1 .. Len(inbox) : inbox[i].m # "Instruction"
      PROVE  \A i \in 1 .. Len(inbox') : inbox'[i].m # "Instruction"
  <2>1. \A i \in 1 .. Len(inbox') : i \in 1 .. Len(inbox) \/ i \in Len(inbox) + 1 .. Len(inbox) + 3
    BY <1>3, VerdictSays
  <2> QED
    BY <1>3, <2>1, VerdictSays
<1>4. CASE TimeUp
  BY <1>4, <1>3 DEF TimeUp, ReadyStandsAlone
<1>5. CASE Judge
  <2>1. inner \notin {"costmaps", "system"}
    BY <1>5, Judged DEF ReadyStandsAlone, Judge
  <2>2. \A i \in 1 .. Len(outbox') : outbox'[i].m # "I_am_ready"
    BY <1>5, Judged DEF ReadyStandsAlone
  <2> QED
    BY <2>1, <2>2 DEF ReadyStandsAlone
<1> QED
  BY <1>1, <1>2, <1>4, <1>5

LEMMA LoopKeepsReports ==
  ASSUME NodeTyped, ChannelsTyped, StepHasItsTask, ReportsAreOfTheTask, Loop
  PROVE  ReportsAreOfTheTask'
<1>1. UNCHANGED <<inbox, task, phase>> /\ instruction' \in {instruction, None}
  BY LoopSays, LoopMoves
<1>2. task \in Nat /\ task # None
  BY MessagesTyped, NoneAssumption DEF ChannelsTyped
<1>3. instruction' \in 1 .. task' \cup {None}
  BY <1>1 DEF ReportsAreOfTheTask
<1>4. Engaged' /\ instruction' \notin {None, task'} => failed' \/ Failing(1, Len(inbox))'
  <2>1. ASSUME Engaged', instruction' \notin {None, task'} PROVE failed' \/ Failing(1, Len(inbox))'
    <3>1. Engaged /\ instruction \notin {None, task} /\ UNCHANGED <<failed, inbox>>
      BY <1>1, <2>1, LoopMoves
    <3> QED
      BY <3>1 DEF ReportsAreOfTheTask, Failing
  <2> QED
    BY <2>1
<1>5. ASSUME phase \in UnderWay, NEW i \in 1 .. Len(outbox), outbox[i].m = "Task_finished"
      PROVE  FALSE
  BY <1>5, VerdictStopsLoop DEF ReportsAreOfTheTask
<1>6. CASE UNCHANGED outbox
  BY <1>1, <1>2, <1>3, <1>4, <1>5, <1>6 DEF ReportsAreOfTheTask
<1>7. ASSUME NEW m \in Reports, Say(m),
             \/ m = "I_am_ready" /\ instruction = None
             \/ m # "I_am_ready" /\ instruction # None /\ (m = "Task_finished" => Release)
      PROVE  ReportsAreOfTheTask'
  <2>1. /\ Len(outbox) \in Nat /\ Len(outbox') = Len(outbox) + 1
        /\ \A i \in 1 .. Len(outbox) : outbox'[i] = outbox[i]
        /\ outbox'[Len(outbox) + 1].m = m /\ outbox'[Len(outbox) + 1].task = instruction
    BY <1>7, Said
  <2>2. ASSUME NEW i \in 1 .. Len(outbox')
        PROVE  /\ outbox'[i].task \in 1 .. task' \cup {None}
               /\ phase' = "waiting" => outbox'[i].task # task'
               /\ phase' \in UnderWay => outbox'[i].m = "I_am_ready" \/ outbox'[i].task = task'
    <3>1. CASE i \in 1 .. Len(outbox)
      BY <1>1, <2>1, <3>1 DEF ReportsAreOfTheTask
    <3>2. CASE i = Len(outbox) + 1
      BY <1>1, <1>2, <1>7, <2>1, <3>2 DEF ReportsAreOfTheTask
    <3> QED
      BY <2>1, <3>1, <3>2
  <2>3. ASSUME phase' \in UnderWay, NEW i \in 1 .. Len(outbox'), outbox'[i].m = "Task_finished"
        PROVE  step' = "TaskFinished" /\ inner' = "none" /\ ~failed' /\ ~finished'
    <3>1. Release
      BY <1>1, <1>5, <1>7, <2>1, <2>3
    <3> QED
      BY <3>1 DEF Release, At, searchFrame, flags, StepHasItsTask
  <2> QED
    BY <1>1, <1>2, <1>3, <1>4, <2>2, <2>3 DEF ReportsAreOfTheTask
<1>8. CASE LoadSucceeds /\ Say("I_am_ready")
  <2>1. instruction = None
    BY <1>8 DEF LoadSucceeds, StepHasItsTask, Loading
  <2> QED
    BY <1>7, <1>8, <2>1 DEF Reports
<1>9. CASE step \in Working /\ (Say("Room_reached") \/ Say("Object_grasped"))
  BY <1>7, <1>9 DEF Reports, StepHasItsTask
<1>10. CASE Release /\ Say("Task_finished")
  <2>1. instruction # None
    BY <1>10 DEF Release, At, StepHasItsTask, Working, Steps
  <2> QED
    BY <1>7, <1>10, <2>1 DEF Reports
<1> QED
  BY <1>6, <1>8, <1>9, <1>10, LoopSays

\* The node reads an instruction of the moderator's task, or Task_failed follows.
LEMMA ReceiveKeepsReports ==
  ASSUME NodeTyped, ChannelsTyped, StepHasItsTask, TasksAreSeparated, ReportsAreOfTheTask, Receive
  PROVE  ReportsAreOfTheTask'
<1>1. /\ Len(inbox) \in Nat \ {0} /\ 1 \in 1 .. Len(inbox) /\ Head(inbox) = inbox[1]
      /\ UNCHANGED <<outbox, task, phase>>
  BY Received
<1>2. instruction' \in {instruction, inbox[1].task} /\ inbox[1].task \in 1 .. task
      /\ (instruction' # instruction => OnInstruction(inbox[1]) /\ inbox[1].m = "Instruction")
  <2>1. inbox[1].task \in 1 .. task
    BY <1>1, MessagesTyped DEF ChannelsTyped, Tasks
  <2> QED
    BY <1>1, <2>1 DEF Receive, OnEnvironment, OnReady, OnInstruction, LeavesStep
<1>3. failed' = (failed \/ inbox[1].m = "Task_failed") /\ (Engaged' => Engaged)
  BY <1>1 DEF Receive, OnEnvironment, OnReady, OnInstruction, LeavesStep, Engaged, Working, Steps
<1>4. Failing(1, Len(inbox)) => inbox[1].m = "Task_failed" \/ Failing(1, Len(inbox))'
  <2>1. Failing(1, Len(inbox)) => inbox[1].m = "Task_failed" \/ Failing(1 + 1, Len(inbox))
    BY <1>1 DEF Failing
  <2> QED
    BY <2>1, FailingLater
<1>5. phase \in UnderWay => instruction = None
  BY <1>1 DEF ReportsAreOfTheTask
<1>6. phase \in UnderWay => \A i \in 1 .. Len(outbox) : outbox[i].m # "Task_finished"
  BY <1>5 DEF ReportsAreOfTheTask, StepHasItsTask
<1>7. ASSUME phase \in UnderWay, instruction' # None PROVE instruction' = task /\ inbox' = <<>>
  <2>1. inbox[1].m = "Instruction" /\ instruction' = inbox[1].task
    BY <1>2, <1>5, <1>7
  <2>2. Len(inbox) = 1 /\ inbox[1].task = task
    BY <1>1, <1>7, <2>1 DEF TasksAreSeparated
  <2>3. inbox' = Tail(inbox) /\ inbox \in Seq(ToRobot)
    BY DEF Receive, ChannelsTyped
  <2> QED
    BY <2>1, <2>2, <2>3
<1>8. phase = "waiting" => instruction' # task
  BY <1>1, <1>2 DEF ReportsAreOfTheTask, TasksAreSeparated, UnderWay
<1>9. ASSUME Engaged', instruction' \notin {None, task'} PROVE failed' \/ Failing(1, Len(inbox))'
  <2>1. CASE instruction' = instruction
    BY <1>1, <1>3, <1>4, <1>9, <2>1 DEF ReportsAreOfTheTask
  <2>2. CASE instruction' # instruction
    <3>1. inbox[1].m = "Instruction" /\ inbox[1].task # task
      BY <1>1, <1>2, <1>9, <2>2
    <3>2. Failing(1, Len(inbox))
      BY <1>1, <3>1 DEF TasksAreSeparated
    <3> QED
      BY <1>4, <3>1, <3>2
  <2> QED
    BY <2>1, <2>2
<1> QED
  BY <1>1, <1>2, <1>5, <1>6, <1>7, <1>8, <1>9 DEF ReportsAreOfTheTask

LEMMA FailureKeepsReports ==
  ASSUME ChannelsTyped, ReportsAreOfTheTask, UNCHANGED <<instruction, failed>>,
         Verdict("Task_failed"),
         \A i \in 1 .. Len(outbox') : \E j \in 1 .. Len(outbox) : outbox'[i] = outbox[j]
  PROVE  ReportsAreOfTheTask'
<1>1. (task' = task + 1 /\ phase' = "waiting") \/ (task' = task /\ phase' = "over")
  BY VerdictSays
<1>2. Failing(1, Len(inbox))'
  <2>1. Len(inbox) + 1 \in 1 .. Len(inbox') /\ inbox'[Len(inbox) + 1].m = "Task_failed"
    BY VerdictSays
  <2> QED
    BY <2>1 DEF Failing
<1>3. task \in Nat
  BY MessagesTyped
<1>4. task' \notin 1 .. task \/ phase' = "over"
  BY <1>1, <1>3
<1>5. 1 .. task \subseteq 1 .. task'
  BY <1>1, <1>3
<1>6. task # None /\ task' # None
  BY VerdictSays, NoneAssumption DEF ChannelsTyped
<1> QED
  BY <1>1, <1>2, <1>4, <1>5, <1>6 DEF ReportsAreOfTheTask, UnderWay

LEMMA SuccessKeepsReports ==
  ASSUME ChannelsTyped, ReportsAreOfTheTask, UNCHANGED <<step, inner, instruction, failed>>,
         step = "TaskFinished", inner = "none", Verdict("Task_succeeded"),
         \A i \in 1 .. Len(outbox') : \E j \in 1 .. Len(outbox) : outbox'[i] = outbox[j]
  PROVE  ReportsAreOfTheTask'
<1>1. (task' = task + 1 /\ phase' = "waiting") \/ (task' = task /\ phase' = "over")
  BY VerdictSays
<1>2. task \in Nat /\ task # None /\ task' # None
  BY MessagesTyped, VerdictSays, NoneAssumption DEF ChannelsTyped
<1>3. ~Engaged'
  BY DEF Engaged, Working, Steps
<1>4. task' \notin 1 .. task \/ phase' = "over"
  BY <1>1, <1>2
<1>5. 1 .. task \subseteq 1 .. task'
  BY <1>1, <1>2
<1> QED
  BY <1>1, <1>2, <1>3, <1>4, <1>5 DEF ReportsAreOfTheTask, UnderWay

LEMMA OthersKeepReports ==
  ASSUME ChannelsTyped, StepHasItsTask, ReadyStandsAlone, ReportsAreOfTheTask,
         UNCHANGED <<step, inner, instruction, failed, finished>>,
         \/ AskAgain \/ TimeUp \/ Judge
         \/ UNCHANGED <<inbox, outbox, task, phase>>
  PROVE  ReportsAreOfTheTask'
<1>1. CASE UNCHANGED <<inbox, outbox, task, phase>>
  BY <1>1 DEF ReportsAreOfTheTask, Failing, Engaged
<1>2. CASE AskAgain
  <2>1. UNCHANGED <<outbox, task, phase>> /\ phase = "waiting" /\ inbox = <<>>
    BY <1>2 DEF AskAgain, moderator
  <2>2. ~Failing(1, Len(inbox))
    BY <2>1 DEF Failing
  <2> QED
    BY <2>1, <2>2 DEF ReportsAreOfTheTask, UnderWay, Engaged
<1>3. CASE TimeUp
  BY <1>3, FailureKeepsReports DEF TimeUp
<1>4. CASE Judge
  <2>1. /\ Len(outbox) \in Nat \ {0} /\ Len(outbox') = Len(outbox) - 1
        /\ \A i \in 1 .. Len(outbox') : outbox'[i] = outbox[i + 1] /\ i + 1 \in 1 .. Len(outbox)
    BY <1>4, Judged
  <2>2. \A i \in 1 .. Len(outbox') : \E j \in 1 .. Len(outbox) : outbox'[i] = outbox[j]
    BY <2>1
  <2>3. CASE /\ outbox[1].m = "I_am_ready" /\ phase = "waiting" /\ phase' = "instructed"
             /\ UNCHANGED task
    <3>1. Len(outbox) = 1 /\ instruction = None
      BY <2>1, <2>3 DEF ReadyStandsAlone
    <3>2. Len(outbox') = 0 /\ task # None
      BY <2>1, <3>1, NoneAssumption DEF ChannelsTyped
    <3> QED
      BY <2>3, <3>1, <3>2 DEF ReportsAreOfTheTask, UnderWay
  <2>4. CASE /\ UNCHANGED <<inbox, task>>
             /\ UNCHANGED phase \/ (phase \in UnderWay /\ phase' \in UnderWay)
    BY <2>1, <2>4 DEF ReportsAreOfTheTask, Failing, Engaged, UnderWay
  <2>5. CASE outbox[1].m = "Task_finished" /\ phase = "grasped" /\ Verdict("Task_succeeded")
    <3>1. step = "TaskFinished" /\ inner = "none"
      BY <2>1, <2>5 DEF ReportsAreOfTheTask, UnderWay
    <3> QED
      BY <2>2, <2>5, <3>1, SuccessKeepsReports
  <2>6. CASE Verdict("Task_failed")
    BY <2>2, <2>6, FailureKeepsReports
  <2> QED
    BY <1>4, <2>3, <2>4, <2>5, <2>6, Judged DEF UnderWay
<1> QED
  BY <1>1, <1>2, <1>3, <1>4

\* The loop and the layout: only reset() forgets it, and only the start of a load
\* changes what the map server serves.
LEMMA LoopMaps ==
  ASSUME StepHasItsTask, Loop
  PROVE  \/ environment' = None \/ ~(Engaged' \/ step' = "Ready")
         \/ /\ UNCHANGED <<environment, failed>> /\ instruction' = instruction
            /\ Engaged \/ step = "Ready"
            /\ \/ /\ UNCHANGED mapServed /\ (inner' \in Loading => inner \in Loading)
                  /\ Engaged' => Engaged \/ inner \in Loading
               \/ mapServed' \in {environment, None}
            /\ Engaged' => Engaged \/ instruction = None
<1> USE DEF flags, searchFrame, loadFrame, maps, At, StepHasItsTask, Engaged, Working, Steps, Loading
<1>1. CASE Initialize \/ LoadUnregistered
  BY <1>1 DEF Initialize, LoadUnregistered
<1>2. CASE StartLoading
  BY <1>2 DEF StartLoading, ServedBy
<1>3. CASE MapArrives \/ MapMissing
  BY <1>3 DEF MapArrives, MapMissing
<1>4. CASE NavigationStarted \/ CostmapsCleared
  BY <1>4 DEF NavigationStarted, CostmapsCleared
<1>5. CASE LoadSucceeds \/ SystemMissing
  BY <1>5 DEF LoadSucceeds, SystemMissing
<1>6. CASE TakeInstruction \/ StopForObject \/ Stopped \/ AlreadyInRoom
  BY <1>6 DEF TakeInstruction, StopForObject, Stopped, AlreadyInRoom
<1>7. CASE SendToRoom \/ AwaitRoom \/ SendToDestination \/ AwaitDestination
  BY <1>7 DEF SendToRoom, AwaitRoom, SendToDestination, AwaitDestination
<1>8. CASE Align \/ Grasp \/ AtDestination \/ TimeoutThrows \/ Release \/ TaskFinished
  BY <1>8 DEF Align, Grasp, AtDestination, TimeoutThrows, Release, TaskFinished
<1> QED
  BY <1>1, <1>2, <1>3, <1>4, <1>5, <1>6, <1>7, <1>8 DEF Loop

LEMMA LoopKeepsLayout ==
  ASSUME StepHasItsTask, LayoutIsOfTheTask, Loop PROVE LayoutIsOfTheTask'
<1>1. UNCHANGED <<inbox, task>>
  BY LoopSays
<1>2. CASE environment' = None \/ ~(Engaged' \/ step' = "Ready")
  BY <1>2 DEF LayoutIsOfTheTask
<1>3. CASE environment' # None /\ (Engaged' \/ step' = "Ready")
  <2>1. /\ UNCHANGED <<environment, failed>> /\ instruction' = instruction
        /\ Engaged \/ step = "Ready"
        /\ \/ /\ UNCHANGED mapServed /\ (inner' \in Loading => inner \in Loading)
              /\ Engaged' => Engaged \/ inner \in Loading
           \/ mapServed' \in {environment, None}
        /\ Engaged' => Engaged \/ instruction = None
    BY <1>3, LoopMaps
  <2> QED
    BY <1>1, <1>3, <2>1 DEF LayoutIsOfTheTask, Failing
<1> QED
  BY <1>2, <1>3

LEMMA ReceiveKeepsLayout ==
  ASSUME NodeTyped, ChannelsTyped, StepHasItsTask, TasksAreSeparated, ReportsAreOfTheTask,
         LayoutIsOfTheTask, Receive
  PROVE  LayoutIsOfTheTask'
<1> SUFFICES ASSUME Engaged' \/ step' = "Ready", environment' # None, ~failed'
             PROVE  /\ \A i \in 1 .. Len(inbox') : inbox'[i].m \in {"Environment", "Instruction"} =>
                         Layout(inbox'[i].task) = environment' \/ Failing(1, i - 1)'
                    /\ environment' = Layout(task') \/ Failing(1, Len(inbox))'
                    /\ Engaged' \/ inner' \in Loading => mapServed' \in {environment', None}
                    /\ Engaged' /\ instruction' # None => environment' = Layout(instruction')
  BY DEF LayoutIsOfTheTask
<1>1. /\ Len(inbox) \in Nat \ {0} /\ 1 \in 1 .. Len(inbox) /\ Head(inbox) = inbox[1]
      /\ UNCHANGED <<task, mapServed>>
      /\ \A i \in 1 .. Len(inbox') : inbox'[i] = inbox[i + 1] /\ i + 1 \in 2 .. Len(inbox)
  BY Received
<1>2. ~failed /\ inbox[1].m # "Task_failed"
  BY <1>1 DEF Receive
<1>3. /\ Engaged \/ step = "Ready"
      /\ Engaged' => Engaged
      /\ inner' \in Loading => inner \in Loading
  BY <1>1 DEF Receive, OnEnvironment, OnReady, OnInstruction, LeavesStep, Engaged, Working, Steps, Loading
<1>4. inbox[1].m # "Task_succeeded"
  BY <1>1, <1>3 DEF TasksAreSeparated, Engaged, Working, Steps
<1>5. \A i \in 1 .. Len(inbox') : Failing(1, i) => Failing(1, i - 1)'
  <2>1. ASSUME NEW i \in 1 .. Len(inbox'), Failing(1, i) PROVE Failing(1, i - 1)'
    <3>1. Failing(1 + 1, i)
      BY <1>2, <2>1 DEF Failing
    <3>2. i \in 1 .. Len(inbox)
      BY <1>1
    <3> QED
      BY <3>1, <3>2, FailingLater
  <2> QED
    BY <2>1
<1>6. Failing(1, Len(inbox)) => Failing(1, Len(inbox))'
  <2>1. Failing(1, Len(inbox)) => Failing(1 + 1, Len(inbox))
    BY <1>1, <1>2 DEF Failing
  <2> QED
    BY <2>1, FailingLater
<1>7. CASE environment = None
  <2>1. inbox[1].m = "Environment" /\ OnEnvironment(inbox[1]) /\ step = "Ready"
    BY <1>1, <1>3, <1>7 DEF Receive, OnEnvironment, OnReady, OnInstruction, LeavesStep, StepHasItsTask
  <2>2. environment' = Layout(inbox[1].task) /\ ~Engaged' /\ inner' \notin Loading
    BY <1>1, <1>3, <1>7, <2>1 DEF OnEnvironment, StepHasItsTask, Engaged, Working, Steps
  <2>3. ASSUME NEW i \in 1 .. Len(inbox'), inbox'[i].task # inbox[1].task
        PROVE  Failing(1, i - 1)'
    <3>1. inbox'[i] = inbox[i + 1] /\ i + 1 \in 2 .. Len(inbox)
      BY <1>1
    <3>2. 1 < i + 1 /\ (i + 1) - 1 = i
      BY <1>1
    <3>3. \A j \in 1 .. Len(inbox) :
            1 < j /\ inbox[1].task # inbox[j].task => Failing(1, j - 1)
      BY <1>1, <1>4 DEF TasksAreSeparated
    <3>4. Failing(1, (i + 1) - 1)
      BY <1>1, <2>3, <3>1, <3>2, <3>3
    <3> QED
      BY <1>5, <3>2, <3>4
  <2>4. inbox[1].task = task \/ Failing(1, Len(inbox))
    BY <1>1, <1>4 DEF TasksAreSeparated
  <2> QED
    BY <1>1, <1>6, <2>2, <2>3, <2>4
<1>8. CASE environment # None
  <2>1. /\ \A i \in 1 .. Len(inbox) : inbox[i].m \in {"Environment", "Instruction"} =>
              Layout(inbox[i].task) = environment \/ Failing(1, i - 1)
        /\ environment = Layout(task) \/ Failing(1, Len(inbox))
        /\ Engaged \/ inner \in Loading => mapServed \in {environment, None}
        /\ Engaged /\ instruction # None => environment = Layout(instruction)
    BY <1>2, <1>3, <1>8 DEF LayoutIsOfTheTask
  <2>2. inbox[1].m \in {"Environment", "Instruction"} => Layout(inbox[1].task) = environment
    BY <1>1, <2>1 DEF Failing
  <2>3. environment' = environment
    BY <1>1, <2>2 DEF Receive, OnEnvironment, OnReady, OnInstruction, LeavesStep
  <2>4. ASSUME NEW i \in 1 .. Len(inbox'), inbox'[i].m \in {"Environment", "Instruction"}
        PROVE  Layout(inbox'[i].task) = environment' \/ Failing(1, i - 1)'
    <3>1. Layout(inbox[i + 1].task) = environment \/ Failing(1, (i + 1) - 1)
      BY <1>1, <2>1, <2>4
    <3> QED
      BY <1>1, <1>5, <2>3, <3>1
  <2>5. Engaged' /\ instruction' # None => environment' = Layout(instruction')
    <3>1. instruction' = instruction \/ (inbox[1].m = "Instruction" /\ instruction' = inbox[1].task)
      BY <1>1 DEF Receive, OnEnvironment, OnReady, OnInstruction, LeavesStep
    <3> QED
      BY <1>3, <2>1, <2>2, <2>3, <3>1
  <2> QED
    BY <1>1, <1>3, <1>6, <2>1, <2>3, <2>4, <2>5
<1> QED
  BY <1>7, <1>8

LEMMA FailureKeepsLayout ==
  ASSUME ChannelsTyped, LayoutIsOfTheTask,
         UNCHANGED <<step, inner, instruction, failed, environment, mapServed>>, Verdict("Task_failed")
  PROVE  LayoutIsOfTheTask'
<1> DEFINE n == Len(inbox)
<1>1. /\ n \in Nat /\ n + 1 \in 1 .. Len(inbox') /\ inbox'[n + 1].m = "Task_failed"
      /\ \A i \in 1 .. n : inbox'[i] = inbox[i]
  BY VerdictSays
<1>2. Failing(1, Len(inbox))' /\ \A i \in n + 2 .. Len(inbox') : Failing(1, i - 1)'
  <2>1. ASSUME NEW i \in n + 2 .. Len(inbox') PROVE n + 1 \in 1 .. i - 1
    BY <1>1
  <2> QED
    BY <1>1, <2>1 DEF Failing
<1>3. ASSUME NEW i \in 1 .. n, Failing(1, i - 1) PROVE Failing(1, i - 1)'
  BY <1>1, <1>3 DEF Failing
<1>4. \A i \in 1 .. Len(inbox') : i \in 1 .. n \/ i = n + 1 \/ i \in n + 2 .. Len(inbox')
  BY <1>1
<1> QED
  BY <1>1, <1>2, <1>3, <1>4 DEF LayoutIsOfTheTask, Engaged

LEMMA OthersKeepLayout ==
  ASSUME ChannelsTyped, ReportsAreOfTheTask, LayoutIsOfTheTask,
         UNCHANGED <<step, inner, instruction, failed, environment, mapServed>>,
         \/ AskAgain \/ TimeUp \/ Judge
         \/ UNCHANGED <<inbox, task>>
  PROVE  LayoutIsOfTheTask'
<1>1. CASE UNCHANGED <<inbox, task>>
  BY <1>1 DEF LayoutIsOfTheTask, Failing, Engaged
<1>2. CASE AskAgain
  <2>1. /\ inbox = <<>> /\ UNCHANGED task /\ Len(inbox') = 2
        /\ \A i \in 1 .. Len(inbox') : inbox'[i].task = task
    BY <1>2 DEF AskAgain, Opening, moderator
  <2>2. ~Failing(1, Len(inbox))
    BY <2>1 DEF Failing
  <2> QED
    BY <2>1, <2>2 DEF LayoutIsOfTheTask, Engaged
<1>3. CASE TimeUp
  BY <1>3, FailureKeepsLayout DEF TimeUp
<1>4. CASE Judge
  <2>1. CASE inbox' = Append(inbox, [m |-> "Instruction", task |-> task]) /\ UNCHANGED task
    <3> DEFINE x == [m |-> "Instruction", task |-> task]
               n == Len(inbox)
    <3>1. x \in ToRobot /\ x.task = task
      BY DEF ToRobot, Orders, ChannelsTyped
    <3> HIDE DEF x
    <3>2. /\ n \in Nat /\ Len(inbox') = n + 1 /\ inbox'[n + 1] = x
          /\ \A i \in 1 .. n : inbox'[i] = inbox[i]
      BY <2>1, <3>1, Appended DEF x
    <3>3. /\ \A i \in 1 .. n : Failing(1, i - 1) => Failing(1, i - 1)'
          /\ Failing(1, n) => Failing(1, Len(inbox))' /\ \A i \in {n + 1} : Failing(1, i - 1)'
      BY <3>2 DEF Failing
    <3>4. ASSUME Engaged \/ step = "Ready", environment # None, ~failed, NEW i \in 1 .. n + 1,
                 inbox'[i].m \in {"Environment", "Instruction"}
          PROVE  Layout(inbox'[i].task) = environment \/ Failing(1, i - 1)'
      <4>1. CASE i \in 1 .. n
        BY <3>2, <3>3, <3>4, <4>1 DEF LayoutIsOfTheTask
      <4>2. CASE i = n + 1
        BY <3>1, <3>2, <3>3, <3>4, <4>2 DEF LayoutIsOfTheTask
      <4> QED
        BY <3>2, <4>1, <4>2
    <3> QED
      BY <2>1, <3>2, <3>3, <3>4 DEF LayoutIsOfTheTask, Engaged
  <2>2. CASE UNCHANGED <<inbox, task>>
    BY <2>2, <1>1
  <2>3. CASE Verdict("Task_succeeded") /\ outbox[1].m = "Task_finished" /\ phase = "grasped"
    <3>1. step = "TaskFinished" /\ inner = "none"
      BY <1>4, <2>3, Judged DEF ReportsAreOfTheTask, UnderWay
    <3> QED
      BY <3>1 DEF LayoutIsOfTheTask, Engaged, Working, Steps
  <2>4. CASE Verdict("Task_failed")
    BY <2>4, FailureKeepsLayout
  <2> QED
    BY <1>4, <2>1, <2>2, <2>3, <2>4, Judged
<1> QED
  BY <1>1, <1>2, <1>3, <1>4

\* A step that sends no goal: no goal comes back to life, none changes what it is
\* for, and what is reported is reported of a goal that was live.
LEMMA LegStays ==
  ASSUME nav \in [Goals -> Goal], reached' \in Goals \cup {None}, NoneAssumption,
         GoalsAreOfTheLeg, UNCHANGED instruction,
         step' \in {"GoToRoom1", "GoToRoom2"} => UNCHANGED step,
         inner' \in Loading \/ step' = "WaitForInstruction" => inner \in Loading \/ step = "WaitForInstruction",
         \A g \in Goals : nav'[g].at # "unused" => nav'[g].for = nav[g].for,
         \A g \in Goals : Live(g)' => Live(g),
         \A g \in Goals : nav'[g].at = "succeeded" => nav[g].at = "succeeded" \/ nav[g].for.to # None,
         sent' /\ reached' # None =>
           \/ UNCHANGED <<sent, reached>> /\ nav'[reached].for = nav[reached].for
           \/ /\ nav[reached'].at = "succeeded" /\ nav'[reached'].for = nav[reached'].for
  PROVE  GoalsAreOfTheLeg'
<1>1. ASSUME inner' \in Loading \/ step' = "WaitForInstruction", NEW g \in Goals PROVE ~Live(g)'
  BY <1>1 DEF GoalsAreOfTheLeg
<1>2. ASSUME NEW g \in Goals, nav'[g].at = "succeeded" PROVE nav'[g].for.to # None
  BY <1>2 DEF GoalsAreOfTheLeg
<1>3. ASSUME step' \in {"GoToRoom1", "GoToRoom2"}, NEW g \in Goals, Live(g)'
      PROVE  Own(nav[g].for, step)'
  <2>1. Live(g) /\ step' = step /\ nav'[g].for = nav[g].for
    BY <1>3 DEF Live
  <2> QED
    BY <1>3, <2>1 DEF GoalsAreOfTheLeg, Own, Room
<1>4. ASSUME step' \in {"GoToRoom1", "GoToRoom2"}, sent', reached' # None
      PROVE  Own(nav[reached].for, step)' /\ nav'[reached'].for.to # None
  <2>1. reached' \in Goals
    BY <1>4
  <2>2. CASE UNCHANGED <<sent, reached>> /\ nav'[reached].for = nav[reached].for
    BY <1>4, <2>2 DEF GoalsAreOfTheLeg, Own, Room
  <2>3. CASE nav[reached'].at = "succeeded" /\ nav'[reached'].for = nav[reached'].for
    <3>1. Live(reached')
      BY <2>3 DEF Live
    <3> QED
      BY <1>4, <2>1, <2>3, <3>1 DEF GoalsAreOfTheLeg, Own, Room
  <2> QED
    BY <1>4, <2>2, <2>3
<1> QED
  BY <1>1, <1>2, <1>3, <1>4 DEF GoalsAreOfTheLeg

\* The passes that send no goal.
LEMMA QuietLoopKeepsGoals ==
  ASSUME NodeTyped, NodeTyped', nav \in [Goals -> Goal], StepHasItsTask, GoalsAreOfTheLeg, Loop,
         ~SendToRoom, ~SendToDestination
  PROVE  GoalsAreOfTheLeg'
<1> USE NoneAssumption DEF flags, search, maps, navVars, searchFrame, loadFrame, At, StepHasItsTask
<1>1. reached' \in Goals \cup {None}
  BY DEF NodeTyped
<1>2. CASE Initialize
  BY <1>2 DEF Initialize, GoalsAreOfTheLeg, Loading, Live
<1>3. CASE LoadUnregistered \/ MapMissing \/ SystemMissing
  BY <1>3 DEF LoadUnregistered, MapMissing, SystemMissing, GoalsAreOfTheLeg, Loading, Live
<1>4. CASE StartLoading
  <2>1. \A g \in Goals : nav'[g].at \in {"unused", "killed", "over"} /\ UNCHANGED step /\ step = "Ready"
    BY <1>4, GoalsEnd DEF StartLoading
  <2> QED
    BY <1>4, <2>1 DEF GoalsAreOfTheLeg, Live, StartLoading
<1>5. CASE MapArrives \/ NavigationStarted \/ CostmapsCleared \/ LoadSucceeds
  BY <1>5 DEF MapArrives, NavigationStarted, CostmapsCleared, LoadSucceeds, GoalsAreOfTheLeg, Loading,
              Live
<1>6. CASE TakeInstruction
  BY <1>6 DEF TakeInstruction, GoalsAreOfTheLeg, Loading, Live
<1>7. CASE StopForObject
  <2>1. /\ UNCHANGED <<step, instruction, sent, reached>> /\ inner' = "stopping"
        /\ nav' = Cancelled(Goals) /\ step = "GoToRoom1"
    BY <1>7 DEF StopForObject
  <2>2. \A g \in Goals : nav'[g] = nav[g] \/ (/\ nav[g].at = "executing" /\ nav'[g].at = "failed"
                                              /\ nav'[g].for = nav[g].for)
    BY <2>1, GoalsEnd
  <2>3. inner' \notin Loading /\ step' # "WaitForInstruction"
    BY <2>1 DEF Loading
  <2> QED
    BY <1>1, <2>1, <2>2, <2>3, LegStays DEF Live, NodeTyped
<1>8. CASE Stopped \/ AlreadyInRoom \/ Align \/ AtDestination \/ TimeoutThrows \/ Release \/ TaskFinished
  BY <1>8 DEF Stopped, AlreadyInRoom, Align, AtDestination, TimeoutThrows, Release, TaskFinished,
              GoalsAreOfTheLeg, Own, Room, Loading, Live
<1>9. CASE Grasp
  BY <1>9 DEF Grasp, GoalsAreOfTheLeg, Loading, Live
<1>10. CASE AwaitRoom \/ AwaitDestination
  <2>1. /\ UNCHANGED <<step, instruction, inner>> /\ step \in {"GoToRoom1", "GoToRoom2"}
        /\ sent' = FALSE /\ (UNCHANGED nav \/ nav' = Cancelled({handle}))
    BY <1>10 DEF AwaitRoom, AwaitDestination, GoalReached, GoalFailed, GoalTimesOut, TimedOut
  <2>2. \A g \in Goals : nav'[g] = nav[g] \/ (/\ nav[g].at = "executing" /\ nav'[g].at = "failed"
                                              /\ nav'[g].for = nav[g].for)
    BY <2>1, GoalsEnd
  <2> QED
    BY <1>1, <2>1, <2>2, LegStays DEF Live
<1> QED
  BY <1>2, <1>3, <1>4, <1>5, <1>6, <1>7, <1>8, <1>9, <1>10 DEF Loop

\* A goal that is sent is one of the leg.
LEMMA SendingKeepsGoals ==
  ASSUME nav \in [Goals -> Goal], GoalsAreOfTheLeg, NEW g \in Goals, NEW aim, NEW to,
         Sending(g, aim, to), UNCHANGED <<step, inner, instruction>>,
         step \in {"GoToRoom1", "GoToRoom2"}, inner \notin Loading,
         NEW goal, goal = [task |-> instruction, aim |-> aim, to |-> to], Own(goal, step)
  PROVE  GoalsAreOfTheLeg'
<1>1. /\ nav' = [nav EXCEPT ![g] = [at |-> "sent", for |-> goal]] /\ reached' = None
  BY DEF Sending
<1>2. /\ nav'[g].at = "sent" /\ nav'[g].for = goal
      /\ \A h \in Goals \ {g} : nav'[h] = nav[h]
  BY <1>1
<1>3. ASSUME NEW h \in Goals, Live(h)' PROVE Own(nav[h].for, step)'
  <2>1. CASE h = g
    BY <1>2, <2>1 DEF Own, Room
  <2>2. CASE h # g
    BY <1>2, <1>3, <2>2 DEF GoalsAreOfTheLeg, Own, Room, Live
  <2> QED
    BY <2>1, <2>2
<1> QED
  BY <1>1, <1>2, <1>3 DEF GoalsAreOfTheLeg

LEMMA LoopKeepsGoals ==
  ASSUME NodeTyped, NodeTyped', nav \in [Goals -> Goal], StepHasItsTask, LayoutIsOfTheTask,
         GoalsAreOfTheLeg, Loop
  PROVE  GoalsAreOfTheLeg'
<1>1. ASSUME step \in {"GoToRoom1", "GoToRoom2"}, inner = "none", ~failed
      PROVE  environment = Layout(instruction) /\ inner \notin Loading
  BY <1>1 DEF LayoutIsOfTheTask, StepHasItsTask, Engaged, Working, Steps, Loading
<1>2. CASE SendToRoom
  <2>1. /\ step = "GoToRoom1" /\ inner = "none" /\ ~failed /\ UNCHANGED <<step, inner, instruction>>
    BY <1>2 DEF SendToRoom, At, searchFrame
  <2>2. ASSUME NEW g \in Goals, Sending(g, "room", RoomLocation(environment, Room, patrol))
        PROVE  GoalsAreOfTheLeg'
    <3> DEFINE to == RoomLocation(environment, Room, patrol)
               goal == [task |-> instruction, aim |-> "room", to |-> to]
    <3>1. to \in Range(PatrolWaypoints(Layout(instruction), Room))
      BY <1>1, <2>1, PatrolPointIsOfTheRoom DEF NodeTyped
    <3>2. Own(goal, step)
      BY <2>1, <3>1 DEF Own
    <3> HIDE DEF to
    <3> QED
      BY <1>1, <2>1, <2>2, <3>2, SendingKeepsGoals DEF to
  <2>3. CASE ServerMissing
    BY <2>1, <2>3, LegStays, NoneAssumption DEF ServerMissing, NodeTyped, Live
  <2> QED
    BY <1>2, <2>2, <2>3 DEF SendToRoom
<1>3. CASE SendToDestination
  <2>1. /\ step = "GoToRoom2" /\ inner = "none" /\ ~failed /\ UNCHANGED <<step, inner, instruction>>
    BY <1>3 DEF SendToDestination, At, searchFrame
  <2>2. ASSUME NEW g \in Goals,
               Sending(g, "destination", DestLocation(environment, Reading[instruction].dest,
                                                      Reading[instruction].destRoom))
        PROVE  GoalsAreOfTheLeg'
    <3> DEFINE to == DestLocation(environment, Reading[instruction].dest,
                                  Reading[instruction].destRoom)
               goal == [task |-> instruction, aim |-> "destination", to |-> to]
    <3>1. to \in {None, <<Layout(instruction), Reading[instruction].dest,
                          Reading[instruction].destRoom>>}
      BY <1>1, <2>1 DEF DestLocation
    <3>2. Own(goal, step)
      BY <2>1, <3>1 DEF Own
    <3> HIDE DEF to
    <3> QED
      BY <1>1, <2>1, <2>2, <3>2, SendingKeepsGoals DEF to
  <2>3. CASE ServerMissing
    BY <2>1, <2>3, LegStays, NoneAssumption DEF ServerMissing, NodeTyped, Live
  <2> QED
    BY <1>3, <2>2, <2>3 DEF SendToDestination
<1> QED
  BY <1>2, <1>3, QuietLoopKeepsGoals

LEMMA CallbacksKeepGoals ==
  ASSUME NodeTyped, NodeTyped', nav \in [Goals -> Goal], GoalsAreOfTheLeg,
         Receive \/ Detect \/ \E g \in Goals : NavResult(g) \/ NavAccept(g) \/ NavFinish(g)
  PROVE  GoalsAreOfTheLeg'
<1> USE NoneAssumption
<1>1. reached' \in Goals \cup {None}
  BY DEF NodeTyped
<1>2. CASE Receive
  <2>1. /\ UNCHANGED <<nav, sent, reached>> /\ step' \in {step, "Initialize"}
        /\ inner' \in {inner, "exited"} /\ (instruction' # instruction => step' = "WaitForInstruction")
    BY <1>2 DEF Receive, navVars, OnEnvironment, OnReady, OnInstruction, LeavesStep
  <2> QED
    BY <2>1 DEF GoalsAreOfTheLeg, Live, Own, Room, Loading
<1>3. CASE Detect
  BY <1>3 DEF Detect, callbackFrame, GoalsAreOfTheLeg, Live, Own, Room, Loading
<1>4. ASSUME NEW g \in Goals, NEW s \in {"executing", "succeeded", "failed", "over"}, Live(g),
             nav' = [nav EXCEPT ![g].at = s]
      PROVE  /\ \A h \in Goals : nav'[h].for = nav[h].for /\ (Live(h)' => Live(h))
             /\ \A h \in Goals \ {g} : nav'[h] = nav[h]
             /\ nav'[g].at = s
  <2>1. nav' = [nav EXCEPT ![g] = [nav[g] EXCEPT !.at = s]]
    BY <1>4
  <2> QED
    BY <1>4, <2>1, GoalMoves DEF Live
<1>5. ASSUME NEW g \in Goals, NavResult(g) PROVE GoalsAreOfTheLeg'
  <2>1. /\ nav' = [nav EXCEPT ![g].at = "over"] /\ Live(g)
        /\ UNCHANGED <<step, inner, instruction, sent>>
        /\ UNCHANGED reached \/ (reached' = g /\ nav[g].at = "succeeded")
    BY <1>5 DEF NavResult, callbackFrame, Live
  <2> QED
    BY <1>1, <1>4, <2>1, LegStays DEF NodeTyped
<1>6. ASSUME NEW g \in Goals, NavFinish(g) PROVE GoalsAreOfTheLeg'
  <2>1. /\ UNCHANGED <<step, inner, instruction, sent, reached>> /\ Live(g)
        /\ \/ nav' = [nav EXCEPT ![g].at = "failed"]
           \/ nav' = [nav EXCEPT ![g].at = "succeeded"] /\ nav[g].for.to # None
    BY <1>6 DEF NavFinish, navFrame, callbackFrame, Live
  <2> QED
    BY <1>1, <1>4, <2>1, LegStays DEF NodeTyped
<1>7. ASSUME NEW g \in Goals, NavAccept(g) PROVE GoalsAreOfTheLeg'
  <2>1. /\ UNCHANGED <<step, inner, instruction, sent, reached>> /\ nav[g].at = "sent"
        /\ nav' = [Cancelled(Goals) EXCEPT ![g].at = "executing"]
    BY <1>7 DEF NavAccept, navFrame, callbackFrame
  <2>2. Cancelled(Goals) \in [Goals -> Goal] /\ Cancelled(Goals)[g] = nav[g]
    BY <2>1, GoalsEnd
  <2>3. nav' = [Cancelled(Goals) EXCEPT ![g] = [nav[g] EXCEPT !.at = "executing"]]
    BY <2>1, <2>2
  <2>4. /\ nav'[g].at = "executing" /\ nav'[g].for = nav[g].for
        /\ \A h \in Goals \ {g} : nav'[h] = Cancelled(Goals)[h]
    BY <2>1, <2>2, <2>3, GoalMoves
  <2>5. ASSUME NEW h \in Goals
        PROVE  /\ nav'[h].for = nav[h].for /\ (Live(h)' => Live(h))
               /\ nav'[h].at = "succeeded" => nav[h].at = "succeeded"
    BY <2>1, <2>4, GoalsEnd DEF Live
  <2> QED
    BY <1>1, <2>1, <2>5, LegStays DEF NodeTyped
<1> QED
  BY <1>2, <1>3, <1>5, <1>6, <1>7

-----------------------------------------------------------------------------
(* The invariant, and what follows from it.                                *)

LEMMA InitControls == Init => ControllerInv
<1> SUFFICES ASSUME Init PROVE ControllerInv
  OBVIOUS
<1> USE DEF Init
<1>1. 1 \in Tasks /\ Len(Job) \in Nat
  BY JobAssumption DEF Tasks
<1>2. FlagsTyped
  BY Zenon DEF FlagsTyped
<1>3. NodeTyped /\ nav \in [Goals -> Goal]
  BY DEF NodeTyped, Steps, Waits, Spinning, Goal
<1>4. /\ Len(inbox) = 2 /\ outbox = <<>> /\ inbox \in Seq(ToRobot)
      /\ \A i \in 1 .. Len(inbox) :
           inbox[i].m \in {"Environment", "Are_you_ready?"} /\ inbox[i].task = 1
  BY <1>1 DEF Opening, ToRobot, Orders
<1>5. ChannelsTyped
  BY <1>1, <1>4 DEF ChannelsTyped
<1>6. StepHasItsTask
  BY DEF StepHasItsTask, Loading, Engaged, Working, Steps
<1>7. TasksAreSeparated /\ ReadyStandsAlone
  BY <1>4 DEF TasksAreSeparated, ReadyStandsAlone, UnderWay
<1>8. ReportsAreOfTheTask
  BY <1>1, <1>4, NoneAssumption DEF ReportsAreOfTheTask, UnderWay, Engaged, Working, Steps
<1>9. LayoutIsOfTheTask
  BY DEF LayoutIsOfTheTask
<1>10. GoalsAreOfTheLeg
  BY DEF GoalsAreOfTheLeg, Loading, Live
<1> QED
  BY <1>2, <1>3, <1>5, <1>6, <1>7, <1>8, <1>9, <1>10, TypeParts DEF ControllerInv

\* A report that is read, and what it does to the messages on their way.
LEMMA JudgeKeepsSeparated ==
  ASSUME ChannelsTyped, StepHasItsTask, TasksAreSeparated, ReadyStandsAlone, ReportsAreOfTheTask,
         Judge
  PROVE  TasksAreSeparated'
<1>1. UNCHANGED <<step, inner, failed, finished>> /\ Len(outbox) \in Nat \ {0} /\ phase # "over"
  BY Judged DEF nodeVars, flags
<1>2. CASE /\ outbox[1].m = "I_am_ready" /\ phase = "waiting" /\ phase' = "instructed"
           /\ inbox' = Append(inbox, [m |-> "Instruction", task |-> task]) /\ UNCHANGED task
  <2>1. \A i \in 1 .. Len(inbox) : inbox[i].m # "Instruction"
    BY <1>1, <1>2 DEF ReadyStandsAlone
  <2> QED
    BY <1>1, <1>2, <2>1, InstructionKeepsSeparated
<1>3. CASE /\ UNCHANGED <<inbox, task>>
           /\ UNCHANGED phase \/ (phase \in UnderWay /\ phase' \in UnderWay)
  BY <1>1, <1>3, SeparatedStays
<1>4. CASE outbox[1].m = "Task_finished" /\ phase = "grasped" /\ Verdict("Task_succeeded")
  <2>1. step = "TaskFinished" /\ inner = "none" /\ ~failed /\ ~finished
    BY <1>1, <1>4 DEF ReportsAreOfTheTask, UnderWay
  <2>2. instruction = task
    BY <1>4, <2>1 DEF ReportsAreOfTheTask, StepHasItsTask, UnderWay
  <2>3. inbox = <<>>
    BY <1>4, <2>2 DEF ReportsAreOfTheTask, UnderWay
  <2> QED
    BY <1>1, <1>4, <2>1, <2>3, SuccessKeepsSeparated
<1>5. CASE Verdict("Task_failed")
  BY <1>1, <1>5, FailureKeepsSeparated
<1> QED
  BY <1>2, <1>3, <1>4, <1>5, Judged DEF UnderWay

LEMMA StepControls == ASSUME ControllerInv, [Next]_vars PROVE ControllerInv'
<1>1. /\ FlagsTyped /\ NodeTyped /\ nav \in [Goals -> Goal] /\ ChannelsTyped
      /\ StepHasItsTask /\ TasksAreSeparated /\ ReadyStandsAlone
      /\ ReportsAreOfTheTask /\ LayoutIsOfTheTask /\ GoalsAreOfTheLeg
  BY TypeParts DEF ControllerInv
<1>2. FlagsTyped' /\ NodeTyped' /\ (nav \in [Goals -> Goal])' /\ ChannelsTyped'
  BY <1>1, StepKeepsFlags, StepKeepsNode, StepKeepsGoals, StepKeepsChannels
<1>3. TypeOK' /\ StepHasItsTask'
  <2>1. TypeOK'
    BY Zenon, <1>2 DEF TypeOK, FlagsTyped, NodeTyped, ChannelsTyped, Goal
  <2> QED
    BY <1>1, <2>1, StepKeepsTask
<1>4. CASE Loop
  <2>1. TasksAreSeparated' /\ ReadyStandsAlone'
    BY <1>1, <1>4, LoopKeepsSeparated, LoopKeepsReady
  <2>2. ReportsAreOfTheTask' /\ LayoutIsOfTheTask'
    BY <1>1, <1>4, LoopKeepsReports, LoopKeepsLayout
  <2>3. GoalsAreOfTheLeg'
    BY <1>1, <1>2, <1>4, LoopKeepsGoals
  <2> QED
    BY <1>3, <2>1, <2>2, <2>3 DEF ControllerInv
<1>5. CASE Receive
  <2>1. TasksAreSeparated' /\ ReadyStandsAlone'
    BY <1>1, <1>5, ReceiveKeepsSeparated, ReceiveKeepsReady
  <2>2. ReportsAreOfTheTask' /\ LayoutIsOfTheTask'
    BY <1>1, <1>5, ReceiveKeepsReports, ReceiveKeepsLayout
  <2>3. GoalsAreOfTheLeg'
    BY <1>1, <1>2, <1>5, CallbacksKeepGoals
  <2> QED
    BY <1>3, <2>1, <2>2, <2>3 DEF ControllerInv
<1>6. CASE Detect \/ \E g \in Goals : NavResult(g) \/ NavAccept(g) \/ NavFinish(g)
  <2>1. /\ UNCHANGED <<step, inner, instruction, failed, finished, environment, mapServed>>
        /\ UNCHANGED <<inbox, outbox, task, phase>>
    BY <1>6 DEF Detect, NavResult, NavAccept, NavFinish, navFrame, callbackFrame, flags, maps, channels,
                moderator
  <2>2. TasksAreSeparated' /\ ReadyStandsAlone'
    BY <1>1, <2>1, SeparatedStays, OthersKeepReady
  <2>3. ReportsAreOfTheTask' /\ LayoutIsOfTheTask'
    BY <1>1, <2>1, OthersKeepReports, OthersKeepLayout
  <2>4. GoalsAreOfTheLeg'
    BY <1>1, <1>2, <1>6, CallbacksKeepGoals
  <2> QED
    BY <1>3, <2>2, <2>3, <2>4 DEF ControllerInv
<1>7. CASE AskAgain \/ TimeUp \/ Judge
  <2>1. /\ UNCHANGED <<step, inner, instruction, failed, finished, environment, mapServed>>
        /\ UNCHANGED <<nav, sent, reached>>
    BY <1>7 DEF AskAgain, TimeUp, Judge, nodeVars, flags, maps, navVars
  <2>2. TasksAreSeparated'
    BY <1>1, <1>7, <2>1, AskAgainKeepsSeparated, FailureKeepsSeparated, JudgeKeepsSeparated DEF TimeUp
  <2>3. ReadyStandsAlone'
    BY <1>1, <1>7, <2>1, OthersKeepReady
  <2>4. ReportsAreOfTheTask' /\ LayoutIsOfTheTask'
    BY <1>1, <1>7, <2>1, OthersKeepReports, OthersKeepLayout
  <2>5. GoalsAreOfTheLeg'
    BY <1>1, <2>1 DEF GoalsAreOfTheLeg, Live, Own, Room
  <2> QED
    BY <1>3, <2>2, <2>3, <2>4, <2>5 DEF ControllerInv
<1>8. CASE UNCHANGED vars
  <2>1. /\ UNCHANGED <<step, inner, instruction, failed, finished, environment, mapServed>>
        /\ UNCHANGED <<inbox, outbox, task, phase, nav, sent, reached>>
    BY <1>8 DEF vars, flags, maps, channels, moderator, navVars
  <2>2. TasksAreSeparated' /\ ReadyStandsAlone'
    BY <1>1, <2>1, SeparatedStays, OthersKeepReady
  <2>3. ReportsAreOfTheTask' /\ LayoutIsOfTheTask'
    BY <1>1, <2>1, OthersKeepReports, OthersKeepLayout
  <2>4. GoalsAreOfTheLeg'
    BY <1>1, <2>1 DEF GoalsAreOfTheLeg, Live, Own, Room
  <2> QED
    BY <1>3, <2>2, <2>3, <2>4 DEF ControllerInv
<1> QED
  BY <1>4, <1>5, <1>6, <1>7, <1>8 DEF Next

\* The invariant of the controller with its moderator, its action server and the messages
\* between them: whatever messages of which tasks are under way.
THEOREM Controlling == Spec => []ControllerInv
<1>1. ControllerInv /\ [Next]_vars => ControllerInv'
  BY StepControls
<1> QED
  BY InitControls, <1>1, PTL DEF Spec

\* Type correctness: every member of the node, the goals at the action server with what
\* they were sent for, and the messages in both directions.
THEOREM ControllerTypes == Spec => []TypeOK
<1>1. ControllerInv => TypeOK
  BY DEF ControllerInv
<1> QED
  BY Controlling, <1>1, PTL

\* The node never works on an instruction that is not the moderator's any more unless
\* Task_failed is known or on its way, for any number of tasks (handyman_sample.cpp,
\* messageCallback and the steps it interrupts).
THEOREM WorkingOnCurrentTask == Spec => []WorksOnCurrentTask
<1>1. ControllerInv => WorksOnCurrentTask
  <2> SUFFICES ASSUME ControllerInv, step \in Working, instruction # task
               PROVE  failed \/ \E i \in 1 .. Len(inbox) : inbox[i].m = "Task_failed"
    BY DEF WorksOnCurrentTask
  <2>1. Engaged /\ instruction # None
    BY DEF ControllerInv, StepHasItsTask, Engaged
  <2> QED
    BY <2>1 DEF ControllerInv, ReportsAreOfTheTask, Failing
<1> QED
  BY Controlling, <1>1, PTL

\* While the node works on a task, the map that is served is the one of the layout in
\* which it looks its poses up, for any list of tasks and layouts (switchEnvironment and
\* the Environment message).
THEOREM MapsOfEnvironment == Spec => []MapIsOfEnvironment
<1>1. ControllerInv => MapIsOfEnvironment
  <2> SUFFICES ASSUME ControllerInv, step \in Working \cup {"WaitForInstruction"}, ~failed,
                      \A i \in 1 .. Len(inbox) : inbox[i].m # "Task_failed"
               PROVE  mapServed \in {environment, None}
    BY DEF MapIsOfEnvironment
  <2>1. Engaged
    BY DEF Engaged
  <2>2. environment # None
    BY <2>1 DEF ControllerInv, StepHasItsTask
  <2> QED
    BY <2>1, <2>2 DEF ControllerInv, LayoutIsOfTheTask
<1> QED
  BY Controlling, <1>1, PTL

\* A success the flags report is one of a goal that was sent for this instruction and
\* this leg, to a place looked up for the words of the instruction in the task's layout.
ArrivalIsOfReading ==
  step \in {"GoToRoom1", "GoToRoom2"} /\ sent /\ reached # None =>
    Own(nav[reached].for, step) /\ nav[reached].for.to # None

\* Every arrival the two steps act on is one of the leg they are in (result_callback sets
\* one flag for all goals), for any number of goals and tasks.
THEOREM ArrivalsAreOfReading == Spec => []ArrivalIsOfReading
<1>1. ControllerInv => ArrivalIsOfReading
  BY DEF ControllerInv, GoalsAreOfTheLeg, ArrivalIsOfReading
<1> QED
  BY Controlling, <1>1, PTL

\* The names extractInfo finds in the words of each task are the ones the task means.
ReadAsMeant ==
  \A t \in Tasks :
    /\ Reading[t].room = Job[t].means.room
    /\ Reading[t].dest = Job[t].means.dest /\ Reading[t].destRoom = Job[t].means.destRoom

\* If the words of the tasks are read as they are meant, every arrival is one at a place
\* the instruction means (extractInfo, roomLocation and destLocation).
THEOREM ArrivalsAreOwn == ASSUME ReadAsMeant PROVE Spec => []ArrivalIsOwn
<1>1. ControllerInv => ArrivalIsOwn
  <2> SUFFICES ASSUME ControllerInv, step \in {"GoToRoom1", "GoToRoom2"}, sent, reached # None
               PROVE  LET goal == nav[reached].for
                          means == Job[instruction].means
                      IN  /\ goal.task = instruction
                          /\ IF step = "GoToRoom1"
                             THEN /\ goal.aim = "room"
                                  /\ goal.to \in Range(PatrolWaypoints(Layout(instruction), means.room))
                             ELSE /\ goal.aim = "destination"
                                  /\ goal.to = <<Layout(instruction), means.dest, means.destRoom>>
    BY DEF ArrivalIsOwn
  <2>1. Own(nav[reached].for, step) /\ nav[reached].for.to # None
    BY DEF ControllerInv, GoalsAreOfTheLeg
  <2>2. instruction \in Tasks
    BY DEF ControllerInv, StepHasItsTask, TypeOK, Working, Steps
  <2>3. /\ Room = Job[instruction].means.room
        /\ Reading[instruction].dest = Job[instruction].means.dest
        /\ Reading[instruction].destRoom = Job[instruction].means.destRoom
    BY <2>2, ReadAsMeant DEF ReadAsMeant, Room
  <2> QED
    BY <2>1, <2>3 DEF Own
<1> QED
  BY Controlling, <1>1, PTL

\* What the moderator credits to a task was reported for it: only Judge moves the phase,
\* and in the phases of a task every report but I_am_ready is of that task.
THEOREM CreditsAreForTask == Spec => CreditIsForTask
<1> DEFINE Credited == \A p \in {"entered", "grasped"} :
                         phase # p /\ phase' = p => Head(outbox).task = task
<1>1. ControllerInv /\ [Next]_vars => [Credited]_vars
  <2> SUFFICES ASSUME ControllerInv, Next, NEW p \in {"entered", "grasped"}, phase # p, phase' = p
               PROVE  Head(outbox).task = task
    OBVIOUS
  <2>1. ChannelsTyped
    BY TypeParts DEF ControllerInv
  <2>2. Judge
    <3>1. ~Loop
      BY LoopSays
    <3>2. ~Receive
      BY <2>1, Received
    <3>3. ~Detect /\ ~AskAgain /\ \A g \in Goals : ~NavResult(g) /\ ~NavAccept(g) /\ ~NavFinish(g)
      BY DEF Detect, AskAgain, NavResult, NavAccept, NavFinish, navFrame, callbackFrame, moderator
    <3>4. ~TimeUp
      BY <2>1, VerdictSays DEF TimeUp
    <3> QED
      BY <3>1, <3>2, <3>3, <3>4 DEF Next
  <2>3. Len(outbox) \in Nat \ {0} /\ outbox \in Seq(ToModerator)
    BY <2>1, <2>2, Judged DEF ChannelsTyped
  <2>4. /\ phase \in {"instructed", "entered"}
        /\ outbox[1].m \in {"Room_reached", "Object_grasped"}
    BY <2>1, <2>2, Judged, VerdictSays
  <2>5. outbox[1].task = task
    BY <2>3, <2>4 DEF ControllerInv, ReportsAreOfTheTask, UnderWay
  <2> QED
    BY <2>3, <2>5
<1>2. ControllerInv /\ [Next]_vars =>
        [\A p \in {"entered", "grasped"} :
           phase # p /\ phase' = p => Head(outbox).task = task]_vars
  BY <1>1
<1> QED
  BY Controlling, <1>2, PTL DEF Spec, CreditIsForTask

==============================================================================
