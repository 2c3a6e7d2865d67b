------------------------- MODULE SimulatedRound_proofs -------------------------
(***************************************************************************)
(* The conversation of the simulated moderator and the coordinator, for    *)
(* any scripts, files, vocabulary and loss of messages before discovery:   *)
(* the verdict is true, the task at work fits its layout and is what the   *)
(* instruction means, and the plans for it try every pose listed.          *)
(*                                                                         *)
(* RoundInv says where the two nodes are in their conversation.  The       *)
(* lemmas follow the steps from one place to the next: what the tables     *)
(* say, what of a published message arrives, how the reports are counted,  *)
(* and what becomes of the layout, then one lemma for each callback.       *)
(* After that come the functions of TaskPlanning: what sorting and         *)
(* filtering leave of a list, which candidates a plan tries, and why a     *)
(* text has one reading.                                                   *)
(***************************************************************************)
EXTENDS SimulatedRound, FiniteSetTheorems, SequenceTheorems, WellFoundedInduction, TLAPS

-----------------------------------------------------------------------------
(* The tables.                                                             *)

LEMMA ReportsPlayed ==
  /\ DOMAIN SimulatedReports = {2, 6, 9}
  /\ SimulatedReports[2] = "Room_reached" /\ SimulatedReports[6] = "Object_grasped"
  /\ SimulatedReports[9] = "Task_finished"
BY DEF SimulatedReports

\* How many reports there are before each result is played.
LEMMA ReportsCounted ==
  ASSUME NEW i \in 1 .. 9
  PROVE  ReportsBefore(i) = IF i <= 2 THEN 1 ELSE IF i <= 6 THEN 2 ELSE 3
<1> DEFINE before == {k \in DOMAIN SimulatedReports : k < i}
<1>1. CASE i <= 2
  <2>1. before = {}
    BY <1>1, ReportsPlayed
  <2> QED
    BY <1>1, <2>1, FS_EmptySet DEF ReportsBefore
<1>2. CASE i > 2 /\ i <= 6
  <2>1. before = {2}
    BY <1>2, ReportsPlayed
  <2>2. Cardinality({2}) = 1
    BY FS_Singleton
  <2> QED
    BY <1>2, <2>1, <2>2 DEF ReportsBefore
<1>3. CASE i > 6
  <2>1. before = {2} \cup {6}
    BY <1>3, ReportsPlayed
  <2>2. Cardinality({2}) = 1 /\ IsFiniteSet({2})
    BY FS_Singleton
  <2>3. Cardinality({2} \cup {6}) = 2
    BY <2>2, FS_AddElement
  <2> QED
    BY <1>3, <2>1, <2>3 DEF ReportsBefore
<1> QED
  BY <1>1, <1>2, <1>3

\* What is played in each state, and where it leads.
LEMMA ResultMoves ==
  /\ Len(SimulatedResults) = 9 /\ DOMAIN PlayedIn = 1 .. 9
  /\ \A i \in 1 .. 8 :
       /\ Enabled(SimulatedResults[i], PlayedIn[i])
       /\ After(SimulatedResults[i], PlayedIn[i]) = PlayedIn[i + 1]
  /\ Enabled(SimulatedResults[9], PlayedIn[9])
  /\ After(SimulatedResults[9], PlayedIn[9]) = "kWaitingModeratorResult"
  /\ PlayedIn[1] = "kNavigatingToRoom"
  /\ \A i \in 1 .. 9 : PlayedIn[i] \in TaskStates \ {"kFinished"}
<1>1. Len(SimulatedResults) = 9 /\ DOMAIN PlayedIn = 1 .. 9
  BY DEF SimulatedResults, PlayedIn
<1>2. /\ PlayedIn[1] = "kNavigatingToRoom" /\ PlayedIn[2] = "kVerifyingRoom"
      /\ PlayedIn[3] = "kSearchingObject" /\ PlayedIn[4] = "kApproachingObject"
      /\ PlayedIn[5] = "kGrasping" /\ PlayedIn[6] = "kVerifyingGrasp"
      /\ PlayedIn[7] = "kNavigatingToDestination" /\ PlayedIn[8] = "kPlacing"
      /\ PlayedIn[9] = "kVerifyingPlacement"
  BY DEF PlayedIn, SimulatedResults, Step
<1>3. ASSUME NEW i \in 1 .. 9 PROVE Enabled(SimulatedResults[i], PlayedIn[i])
  BY <1>3 DEF Enabled, PlayedIn, SimulatedResults
<1>4. /\ Step[SimulatedResults[1]][2] = PlayedIn[2] /\ Step[SimulatedResults[2]][2] = PlayedIn[3]
      /\ Step[SimulatedResults[3]][2] = PlayedIn[4] /\ Step[SimulatedResults[4]][2] = PlayedIn[5]
      /\ Step[SimulatedResults[5]][2] = PlayedIn[6] /\ Step[SimulatedResults[6]][2] = PlayedIn[7]
      /\ Step[SimulatedResults[7]][2] = PlayedIn[8] /\ Step[SimulatedResults[8]][2] = PlayedIn[9]
      /\ Step[SimulatedResults[9]][2] = "kWaitingModeratorResult"
  BY <1>2 DEF SimulatedResults, Step
<1>5. \A i \in 1 .. 9 : After(SimulatedResults[i], PlayedIn[i]) = Step[SimulatedResults[i]][2]
  BY <1>3 DEF After
<1>6. \A i \in 1 .. 8 : Step[SimulatedResults[i]][2] = PlayedIn[i + 1]
  <2>1. \A i \in 1 .. 8 : i \in {1, 2, 3, 4, 5, 6, 7, 8}
    OBVIOUS
  <2> HIDE DEF SimulatedResults, Step, PlayedIn
  <2> QED
    BY <1>4, <2>1
<1>7. \A i \in 1 .. 9 : PlayedIn[i] \in TaskStates \ {"kFinished"}
  <2>1. \A i \in 1 .. 9 : i \in {1, 2, 3, 4, 5, 6, 7, 8, 9}
    OBVIOUS
  <2> QED
    BY <1>2, <2>1 DEF TaskStates
<1> QED
  BY <1>1, <1>2, <1>3, <1>4, <1>5, <1>6, <1>7

\* What a step of the moderator waits for, and the next one.
LEMMA Expected ==
  /\ DOMAIN Expectations = {"kWaitingIAmReady", "kWaitingRoomReached", "kWaitingObjectGrasped",
                            "kWaitingTaskFinished"}
  /\ \A s \in DOMAIN Expectations :
       /\ Expectations[s][1] = AllReports[Heard[s] + 1]
       /\ Expectations[s][2] \in DOMAIN Heard /\ Heard[Expectations[s][2]] = Heard[s] + 1
       /\ Heard[s] \in 0 .. 3
       /\ s # "kWaitingTaskFinished" => Expectations[s][2] \in DOMAIN Expectations
       /\ Expectations[s][2] # "kWaitingIAmReady"
       /\ Expectations[s][2] = "kSendMissionComplete" <=> s = "kWaitingTaskFinished"
       /\ Expectations[s][2] = "kWaitingRoomReached" <=> s = "kWaitingIAmReady"
  /\ DOMAIN Heard = ModeratorSteps
<1>1. DOMAIN Expectations = {"kWaitingIAmReady", "kWaitingRoomReached", "kWaitingObjectGrasped",
                             "kWaitingTaskFinished"}
  BY DEF Expectations
<1>2. \A s \in DOMAIN Expectations :
       /\ Expectations[s][1] = AllReports[Heard[s] + 1]
       /\ Expectations[s][2] \in DOMAIN Heard /\ Heard[Expectations[s][2]] = Heard[s] + 1
       /\ Heard[s] \in 0 .. 3
       /\ s # "kWaitingTaskFinished" => Expectations[s][2] \in DOMAIN Expectations
       /\ Expectations[s][2] # "kWaitingIAmReady"
       /\ Expectations[s][2] = "kSendMissionComplete" <=> s = "kWaitingTaskFinished"
       /\ Expectations[s][2] = "kWaitingRoomReached" <=> s = "kWaitingIAmReady"
  BY <1>1 DEF Expectations, AllReports, Heard
<1> QED
  BY <1>1, <1>2 DEF Heard, ModeratorSteps

-----------------------------------------------------------------------------
(* What is published, and what arrives.                                    *)

\* Of the one or two messages a callback publishes, the last ones arrive.
LEMMA OneArrives ==
  ASSUME NEW topic, NEW m, NEW arriving \in Arriving(topic, <<m>>)
  PROVE  /\ arriving = <<>> \/ arriving = <<m>>
         /\ topic \in matched => arriving = <<m>>
<1>1. CASE topic \in matched
  BY <1>1 DEF Arriving
<1>2. CASE topic \notin matched
  <2>1. PICK k \in 1 .. 2 : arriving = SubSeq(<<m>>, k, Len(<<m>>))
    BY <1>2 DEF Arriving
  <2>2. <<m>> \in Seq({m}) /\ Len(<<m>>) = 1
    OBVIOUS
  <2>3. CASE k = 1
    BY <1>2, <2>1, <2>2, <2>3, SubSeqFull
  <2>4. CASE k = 2
    BY <1>2, <2>1, <2>2, <2>4, SubSeqEmpty
  <2> QED
    BY <2>1, <2>3, <2>4
<1> QED
  BY <1>1, <1>2

LEMMA TwoArrive ==
  ASSUME NEW topic, NEW m, NEW n, NEW arriving \in Arriving(topic, <<m, n>>)
  PROVE  arriving = <<>> \/ arriving = <<n>> \/ arriving = <<m, n>>
<1>1. CASE topic \in matched
  BY <1>1 DEF Arriving
<1>2. CASE topic \notin matched
  <2> DEFINE s == <<m, n>>
  <2>1. PICK k \in 1 .. 3 : arriving = SubSeq(s, k, Len(s))
    BY <1>2 DEF Arriving
  <2>2. s \in Seq({m, n}) /\ Len(s) = 2 /\ s[2] = n
    OBVIOUS
  <2> HIDE DEF s
  <2>3. CASE k = 1
    BY <2>1, <2>2, <2>3, SubSeqFull DEF s
  <2>4. CASE k = 2
    <3>1. arriving = <<n>> \o SubSeq(s, 3, 2)
      BY <2>1, <2>2, <2>4, SubSeqRecursiveFirst
    <3>2. SubSeq(s, 3, 2) = <<>>
      BY SubSeqEmpty
    <3>3. <<n>> \o <<>> = <<n>>
      OBVIOUS
    <3> QED
      BY <3>1, <3>2, <3>3
  <2>5. CASE k = 3
    BY <2>1, <2>2, <2>5, SubSeqEmpty
  <2> QED
    BY <2>1, <2>3, <2>4, <2>5
<1> QED
  BY <1>1, <1>2

LEMMA SpokenMessages ==
  ASSUME TypeOK
  PROVE  /\ Message("Environment", script.environment) \in ToRobot
         /\ Message("Instruction", script.text) \in ToRobot
         /\ \A e \in {"Are_you_ready", "Task_succeeded", "Mission_complete"} :
              Message(e, None) \in ToRobot
<1>1. {"Are_you_ready", "Task_succeeded", "Mission_complete"} \subseteq Blank
  BY DEF Blank, Incoming
<1> QED
  BY <1>1 DEF TypeOK, ToRobot, Message

LEMMA ToRobotIsValid == \A m \in ToRobot : ValidIncoming(m) /\ m.event \in DOMAIN Incoming
BY ScriptsAssumption DEF ToRobot, Blank, Incoming, ValidIncoming

\* The messages of a handshake that arrive.
LEMMA PublishedHandshake ==
  ASSUME TypeOK, Publish(Handshake)
  PROVE  /\ toRobot' \in Seq(ToRobot) /\ matched' \in {matched, matched \cup {"to_robot"}}
         /\ UNCHANGED <<toModerator, sent>>
         /\ \A i \in 1 .. Len(toRobot') :
              \/ i \in 1 .. Len(toRobot) /\ toRobot'[i] = toRobot[i]
              \/ toRobot'[i] = Message("Environment", script.environment)
              \/ toRobot'[i] = Message("Are_you_ready", None)
<1> DEFINE m == Message("Environment", script.environment)
           n == Message("Are_you_ready", None)
<1>1. m \in ToRobot /\ n \in ToRobot /\ toRobot \in Seq(ToRobot)
  BY SpokenMessages DEF TypeOK
<1>2. PICK arriving \in Arriving("to_robot", <<m, n>>) :
        /\ toRobot' = toRobot \o arriving
        /\ matched' \in {matched, matched \cup {"to_robot"}}
        /\ UNCHANGED <<toModerator, sent>>
  BY DEF Publish, Handshake
<1> HIDE DEF m, n
<1>3. arriving = <<>> \/ arriving = <<n>> \/ arriving = <<m, n>>
  BY <1>2, TwoArrive
<1>4. /\ toRobot' \in Seq(ToRobot)
      /\ \A i \in 1 .. Len(toRobot') :
           \/ i \in 1 .. Len(toRobot) /\ toRobot'[i] = toRobot[i]
           \/ toRobot'[i] = m \/ toRobot'[i] = n
  <2>1. CASE arriving = <<>>
    BY <1>1, <1>2, <2>1
  <2>2. CASE arriving = <<n>>
    BY <1>1, <1>2, <2>2
  <2>3. CASE arriving = <<m, n>>
    BY <1>1, <1>2, <2>3
  <2> QED
    BY <1>3, <2>1, <2>2, <2>3
<1> QED
  BY <1>2, <1>4 DEF m, n

\* The farewell that arrives.
LEMMA PublishedFarewell ==
  ASSUME TypeOK, Publish(<<Message("Mission_complete", None)>>)
  PROVE  /\ toRobot' \in Seq(ToRobot) /\ matched' \in {matched, matched \cup {"to_robot"}}
         /\ UNCHANGED <<toModerator, sent>>
         /\ \/ toRobot' = toRobot
            \/ toRobot' = Append(toRobot, Message("Mission_complete", None))
<1> DEFINE m == Message("Mission_complete", None)
<1>1. m \in ToRobot /\ toRobot \in Seq(ToRobot)
  BY SpokenMessages DEF TypeOK
<1>2. PICK arriving \in Arriving("to_robot", <<m>>) :
        /\ toRobot' = toRobot \o arriving
        /\ matched' \in {matched, matched \cup {"to_robot"}}
        /\ UNCHANGED <<toModerator, sent>>
  BY DEF Publish
<1> HIDE DEF m
<1>3. arriving = <<>> \/ arriving = <<m>>
  BY <1>2, OneArrives
<1>4. toRobot' \in Seq(ToRobot) /\ (toRobot' = toRobot \/ toRobot' = Append(toRobot, m))
  <2>1. CASE arriving = <<>>
    BY <1>1, <1>2, <2>1
  <2>2. CASE arriving = <<m>>
    BY <1>1, <1>2, <2>2
  <2> QED
    BY <1>3, <2>1, <2>2
<1> QED
  BY <1>2, <1>4 DEF m

\* A report is sent, and arrives or does not.
LEMMA Reporting ==
  ASSUME TypeOK, NEW event, NEW rest, PublishEvent(event, rest)
  PROVE  /\ event \in Outgoing /\ toRobot' = rest
         /\ matched' \in {matched, matched \cup {"to_moderator"}}
         /\ toModerator' \in Seq(ToModerator)
         /\ sent' \in Seq([event : Outgoing, delivered : BOOLEAN])
         /\ \/ /\ toModerator' = Append(toModerator, Message(event, None))
               /\ sent' = Append(sent, [event |-> event, delivered |-> TRUE])
               /\ "to_moderator" \in matched'
            \/ /\ toModerator' = toModerator /\ "to_moderator" \notin matched
               /\ sent' = Append(sent, [event |-> event, delivered |-> FALSE])
<1> DEFINE m == Message(event, None)
<1>1. PICK arriving \in Arriving("to_moderator", <<m>>) :
        /\ toModerator' = toModerator \o arriving
        /\ matched' = IF arriving = <<>> THEN matched ELSE matched \cup {"to_moderator"}
        /\ sent' = Append(sent, [event |-> event, delivered |-> arriving # <<>>])
  BY DEF PublishEvent
<1>2. /\ event \in Outgoing /\ toRobot' = rest /\ m \in ToModerator
      /\ toModerator \in Seq(ToModerator) /\ sent \in Seq([event : Outgoing, delivered : BOOLEAN])
  BY DEF PublishEvent, ToModerator, Message, TypeOK
<1> HIDE DEF m
<1>3. arriving = <<>> \/ arriving = <<m>>
  BY <1>1, OneArrives
<1>4. "to_moderator" \in matched => arriving = <<m>>
  BY <1>1, OneArrives
<1>5. CASE arriving = <<>>
  <2>1. arriving # <<m>>
    BY <1>5
  <2>2. matched' = matched /\ (arriving # <<>>) = FALSE /\ toModerator \o <<>> = toModerator
    BY <1>1, <1>2, <1>5
  <2>3. /\ toModerator' = toModerator /\ "to_moderator" \notin matched /\ matched' = matched
        /\ sent' = Append(sent, [event |-> event, delivered |-> FALSE])
    BY <1>1, <1>4, <1>5, <2>1, <2>2
  <2>4. sent' \in Seq([event : Outgoing, delivered : BOOLEAN])
    BY <1>2, <2>3
  <2> QED
    BY <1>2, <2>3, <2>4
<1>6. CASE arriving = <<m>>
  <2>1. (arriving # <<>>) = TRUE /\ toModerator \o <<m>> = Append(toModerator, m)
    BY <1>2, <1>6
  <2>2. /\ toModerator' = Append(toModerator, m) /\ matched' = matched \cup {"to_moderator"}
        /\ sent' = Append(sent, [event |-> event, delivered |-> TRUE])
    BY <1>1, <1>6, <2>1
  <2>3. toModerator' \in Seq(ToModerator) /\ sent' \in Seq([event : Outgoing, delivered : BOOLEAN])
    BY <1>2, <2>2
  <2> QED
    BY <1>2, <2>2, <2>3 DEF m
<1> QED
  BY <1>3, <1>5, <1>6

-----------------------------------------------------------------------------
(* Types.                                                                  *)

\* The message the coordinator takes.
LEMMA Taken ==
  ASSUME TypeOK, NEW event, OnMessage(event)
  PROVE  /\ Len(toRobot) \in Nat \ {0} /\ Head(toRobot) = toRobot[1] /\ toRobot[1].event = event
         /\ Tail(toRobot) \in Seq(ToRobot) /\ Len(Tail(toRobot)) = Len(toRobot) - 1
         /\ \A i \in 1 .. Len(toRobot) - 1 :
              Tail(toRobot)[i] = toRobot[i + 1] /\ i + 1 \in 2 .. Len(toRobot)
         /\ state # "kFinished" /\ UNCHANGED <<loaded, moderator>>
<1>1. toRobot \in Seq(ToRobot) /\ toRobot # <<>> /\ Head(toRobot).event = event
      /\ state # "kFinished" /\ UNCHANGED <<loaded, moderator>>
  BY DEF TypeOK, OnMessage
<1> QED
  BY <1>1, HeadTailProperties

LEMMA StepTypes ==
  /\ \A method \in DOMAIN Step : \A s \in TaskStates : After(method, s) \in TaskStates
  /\ "parsingFailed" \in DOMAIN Step /\ "parsingSucceeded" \in DOMAIN Step
  /\ \A i \in 1 .. 9 : SimulatedResults[i] \in DOMAIN Step
  /\ {"kWaitingReady", "kWaitingInstruction", "kParsingInstruction", "kFinished"}
       \subseteq TaskStates
<1>1. \A method \in DOMAIN Step : Step[method][2] \in TaskStates
  BY DEF Step, TaskStates
<1>2. \A i \in 1 .. 9 : SimulatedResults[i] \in DOMAIN Step
  BY DEF SimulatedResults, Step
<1> QED
  BY <1>1, <1>2 DEF Step, After, TaskStates

LEMMA OutgoingReports ==
  "I_am_ready" \in Outgoing /\ \A i \in DOMAIN SimulatedReports : SimulatedReports[i] \in Outgoing
BY ReportsPlayed DEF Outgoing

\* What an instruction is read as.
LEMMA InstructionRead ==
  ASSUME NEW text, NEW t, DOMAIN t = DOMAIN NoTask, NEW read \in ReadInstruction(text, t)
  PROVE  /\ DOMAIN read = DOMAIN NoTask /\ read.destination_is_avatar \in BOOLEAN
         /\ read.environment \in Find(catalog, t.environment)
         /\ \E parsed :
              /\ parsed.destination_is_avatar = (parsed.destination = "avatar")
              /\ read.destination_room \in ResolvedRooms(catalog[read.environment], parsed)
              /\ read.pickup_room = parsed.pickup_room /\ read.destination = parsed.destination
              /\ read.destination_is_avatar = parsed.destination_is_avatar
<1>1. PICK parsed \in Parse(text, aliases, t), name \in Find(catalog, t.environment) :
        read \in Resolved(parsed, name)
  BY DEF ReadInstruction
<1>3. PICK room \in ResolvedRooms(catalog[name], parsed) :
          read = [parsed EXCEPT !.environment = name, !.destination_room = room]
  BY <1>1 DEF Resolved
<1>4. DOMAIN parsed = DOMAIN NoTask /\ parsed.destination_is_avatar = (parsed.destination = "avatar")
  <2>1. PICK a, b, c, l : parsed = Told(t, a, b, c, l)
    BY DEF Parse
  <2> QED
    BY <2>1 DEF Told, NoTask
<1>5. /\ DOMAIN read = DOMAIN NoTask /\ read.environment = name /\ read.destination_room = room
      /\ read.pickup_room = parsed.pickup_room /\ read.destination = parsed.destination
      /\ read.destination_is_avatar = parsed.destination_is_avatar
  BY <1>3, <1>4 DEF NoTask
<1> QED
  BY <1>3, <1>4, <1>5

LEMMA ClearedTask ==
  ASSUME NEW t, DOMAIN t = DOMAIN NoTask
  PROVE  /\ DOMAIN Cleared(t) = DOMAIN NoTask /\ Cleared(t).environment = t.environment
         /\ Cleared(t).destination_is_avatar = t.destination_is_avatar
BY DEF Cleared, NoTask

LEMMA InitTypes == Init => TypeOK
<1> SUFFICES ASSUME Init PROVE TypeOK
  OBVIOUS
<1>1. state \in TaskStates /\ state = "kWaitingReady"
  BY DEF Init, After, Enabled, Step, TaskStates
<1>2. /\ DOMAIN task = DOMAIN NoTask /\ task.destination_is_avatar \in BOOLEAN
      /\ ticks \in 0 .. RepeatEvery - 1 /\ step \in ModeratorSteps
  BY ScriptsAssumption DEF Init, NoTask, ModeratorSteps
<1>3. simulation \in 0 .. Len(SimulatedResults)
  BY ResultMoves DEF Init
<1>4. /\ toRobot \in Seq(ToRobot) /\ toModerator \in Seq(ToModerator)
      /\ sent \in Seq([event : Outgoing, delivered : BOOLEAN]) /\ matched \subseteq Topics
  BY EmptySeq DEF Init
<1>5. script \in Scripts /\ verdict \in Verdicts /\ exited = FALSE
  BY DEF Init, Verdicts
<1> QED
  BY <1>1, <1>2, <1>3, <1>4, <1>5 DEF TypeOK

\* The coordinator's steps.
LEMMA MessagesKeepTypes == ASSUME TypeOK, OnAnyMessage PROVE TypeOK'
<1> USE DEF loaded, coordinator, moderator, channels
<1>1. /\ script \in Scripts /\ state \in TaskStates /\ simulation \in 0 .. 9
      /\ step \in ModeratorSteps /\ ticks \in 0 .. RepeatEvery - 1
      /\ verdict \in Verdicts /\ exited \in BOOLEAN
      /\ matched \subseteq Topics
      /\ DOMAIN task = DOMAIN NoTask /\ task.destination_is_avatar \in BOOLEAN
      /\ toModerator \in Seq(ToModerator)
      /\ sent \in Seq([event : Outgoing, delivered : BOOLEAN])
  BY ResultMoves DEF TypeOK
<1>2. PICK event : OnMessage(event)
  BY DEF OnAnyMessage, OnEnvironment, OnAreYouReady, OnInstruction, OnTaskSucceeded, OnMissionComplete
<1>3. /\ Tail(toRobot) \in Seq(ToRobot) /\ script' \in Scripts
      /\ step' \in ModeratorSteps /\ ticks' \in 0 .. RepeatEvery - 1
      /\ verdict' \in Verdicts /\ exited' \in BOOLEAN
  BY <1>1, <1>2, Taken
<1>4. /\ toRobot' \in Seq(ToRobot) /\ toModerator' \in Seq(ToModerator)
      /\ sent' \in Seq([event : Outgoing, delivered : BOOLEAN]) /\ matched' \subseteq Topics
  <2>1. CASE Silent(Tail(toRobot))
    BY <1>1, <1>3, <2>1 DEF Silent
  <2>2. CASE PublishEvent("I_am_ready", Tail(toRobot))
    BY <1>1, <1>3, <2>2, Reporting DEF Topics
  <2> QED
    BY <2>1, <2>2 DEF OnAnyMessage, OnEnvironment, OnAreYouReady, OnInstruction,
                      OnTaskSucceeded, OnMissionComplete
<1>5. /\ state' \in TaskStates /\ simulation' \in 0 .. 9
      /\ DOMAIN task' = DOMAIN NoTask /\ task'.destination_is_avatar \in BOOLEAN
  <2>1. CASE OnEnvironment
    BY <1>1, <2>1 DEF OnEnvironment, NoTask
  <2>2. CASE OnAreYouReady
    BY <1>1, <2>2, StepTypes DEF OnAreYouReady
  <2>3. CASE OnInstruction
    <3> DEFINE read == ReadInstruction(Head(toRobot).detail, Cleared(task))
    <3>1. CASE ~InstructionAccepted(state, FALSE)
      BY <1>1, <2>3, <3>1 DEF OnInstruction
    <3>2. CASE InstructionAccepted(state, FALSE) /\ read = {}
      BY <1>1, <2>3, <3>2, StepTypes, ClearedTask DEF OnInstruction
    <3>3. CASE InstructionAccepted(state, FALSE) /\ read # {}
      <4>1. task' \in read /\ simulation' = 1 /\ state' = After("parsingSucceeded", "kParsingInstruction")
        BY <2>3, <3>3 DEF OnInstruction
      <4>2. DOMAIN Cleared(task) = DOMAIN NoTask
        BY <1>1, ClearedTask
      <4>3. DOMAIN task' = DOMAIN NoTask /\ task'.destination_is_avatar \in BOOLEAN
        BY <4>1, <4>2, InstructionRead
      <4> QED
        BY <4>1, <4>3, StepTypes
    <3> QED
      BY <3>1, <3>2, <3>3
  <2>4. CASE OnTaskSucceeded
    <3>1. /\ state' \in {state, "kWaitingReady"} /\ UNCHANGED simulation
          /\ task' \in {task, NoTask}
      BY <2>4 DEF OnTaskSucceeded
    <3>2. DOMAIN NoTask = DOMAIN NoTask /\ NoTask.destination_is_avatar \in BOOLEAN
      BY DEF NoTask
    <3>3. DOMAIN task' = DOMAIN NoTask /\ task'.destination_is_avatar \in BOOLEAN
      BY <1>1, <3>1, <3>2
    <3> QED
      BY <1>1, <3>1, <3>3, StepTypes
  <2>5. CASE OnMissionComplete
    <3>1. state' = "kFinished" /\ simulation' = 0 /\ task' = task
      BY <2>5 DEF OnMissionComplete
    <3>2. DOMAIN task' = DOMAIN NoTask /\ task'.destination_is_avatar \in BOOLEAN
      BY <1>1, <3>1
    <3> QED
      BY <3>1, <3>2, StepTypes
  <2> QED
    BY <2>1, <2>2, <2>3, <2>4, <2>5 DEF OnAnyMessage
<1> QED
  BY <1>3, <1>4, <1>5, ResultMoves DEF TypeOK


LEMMA SimulationKeepsTypes == ASSUME TypeOK, RunSimulationStep PROVE TypeOK'
<1> USE DEF loaded, moderator
<1>1. /\ script \in Scripts /\ state \in TaskStates /\ simulation \in 1 .. 9
      /\ step \in ModeratorSteps /\ ticks \in 0 .. RepeatEvery - 1
      /\ verdict \in Verdicts /\ exited \in BOOLEAN
      /\ DOMAIN task = DOMAIN NoTask /\ task.destination_is_avatar \in BOOLEAN
      /\ matched \subseteq Topics /\ toRobot \in Seq(ToRobot) /\ toModerator \in Seq(ToModerator)
      /\ sent \in Seq([event : Outgoing, delivered : BOOLEAN])
  <2>1. simulation \in 0 .. 9 /\ simulation # 0
    BY ResultMoves DEF TypeOK, RunSimulationStep
  <2>2. simulation \in 1 .. 9
    BY <2>1
  <2> QED
    BY <2>2 DEF TypeOK
<1>2. UNCHANGED <<script, step, ticks, verdict, exited, task>>
  BY DEF RunSimulationStep
<1>3. state' \in TaskStates /\ simulation' \in 0 .. 9
  <2>1. state' = After(SimulatedResults[simulation], state) /\ SimulatedResults[simulation] \in DOMAIN Step
    BY <1>1, StepTypes DEF RunSimulationStep
  <2>2. state' \in TaskStates
    BY <1>1, <2>1, StepTypes
  <2>3. /\ simulation' = simulation + 1 \/ simulation' = 0
        /\ simulation' = simulation + 1 => simulation < 9
    <3> DEFINE moved == Enabled(SimulatedResults[simulation], state)
    <3>1. simulation' = IF moved /\ simulation < Len(SimulatedResults) THEN simulation + 1 ELSE 0
      BY DEF RunSimulationStep
    <3> HIDE DEF moved
    <3> QED
      BY <1>1, <3>1, ResultMoves
  <2>4. simulation' \in 0 .. 9
    BY <1>1, <2>3
  <2> QED
    BY <2>2, <2>4
<1>4. /\ toRobot' \in Seq(ToRobot) /\ toModerator' \in Seq(ToModerator)
      /\ sent' \in Seq([event : Outgoing, delivered : BOOLEAN]) /\ matched' \subseteq Topics
  <2>1. CASE Silent(toRobot)
    BY <1>1, <2>1 DEF Silent
  <2>2. CASE PublishEvent(SimulatedReports[simulation], toRobot)
    BY <1>1, <2>2, Reporting DEF Topics
  <2> QED
    BY <2>1, <2>2 DEF RunSimulationStep
<1> QED
  BY <1>1, <1>2, <1>3, <1>4, ResultMoves DEF TypeOK

LEMMA ReplyTypes ==
  ASSUME TypeOK, NEW next
  PROVE  /\ Reply(next) \in Seq(ToRobot)
         /\ next = "kWaitingRoomReached" => Reply(next) = <<Message("Instruction", script.text)>>
         /\ next = "kSendMissionComplete" => Reply(next) = <<Message("Task_succeeded", None)>>
         /\ next \notin {"kWaitingRoomReached", "kSendMissionComplete"} => Reply(next) = <<>>
<1>1. /\ Message("Instruction", script.text) \in ToRobot
      /\ Message("Task_succeeded", None) \in ToRobot
  BY SpokenMessages
<1> QED
  BY <1>1 DEF Reply

\* The moderator's steps, and those of the medium.
LEMMA ModeratorKeepsTypes ==
  ASSUME TypeOK, Tick \/ TimeOut \/ OnRobotMessage \/ Exit \/ \E topic \in Topics : Discover(topic)
  PROVE  TypeOK'
<1> USE DEF loaded, coordinator, moderator, channels
<1>1. /\ script \in Scripts /\ state \in TaskStates /\ simulation \in 0 .. Len(SimulatedResults)
      /\ step \in ModeratorSteps /\ ticks \in 0 .. RepeatEvery - 1
      /\ verdict \in Verdicts /\ exited \in BOOLEAN
      /\ DOMAIN task = DOMAIN NoTask /\ task.destination_is_avatar \in BOOLEAN
      /\ matched \subseteq Topics /\ toRobot \in Seq(ToRobot) /\ toModerator \in Seq(ToModerator)
      /\ sent \in Seq([event : Outgoing, delivered : BOOLEAN])
  BY DEF TypeOK
<1>2. CASE Connect
  <2>1. UNCHANGED <<script, state, task, simulation, ticks, verdict, exited>>
        /\ step' = "kWaitingIAmReady" /\ Publish(Handshake)
    BY <1>2 DEF Connect
  <2>2. /\ toRobot' \in Seq(ToRobot) /\ UNCHANGED <<toModerator, sent>> /\ matched' \subseteq Topics
    BY <1>1, <2>1, PublishedHandshake DEF Topics
  <2> QED
    BY <1>1, <2>1, <2>2 DEF TypeOK, ModeratorSteps
<1>3. CASE RepeatHandshake
  <2>1. UNCHANGED <<script, state, task, simulation, step, verdict, exited>>
        /\ ticks' = (ticks + 1) % RepeatEvery
    BY <1>3 DEF RepeatHandshake
  <2>2. ticks' \in 0 .. RepeatEvery - 1
    <3>1. RepeatEvery \in Nat \ {0} /\ ticks \in Nat
      BY <1>1, ScriptsAssumption
    <3>2. (ticks + 1) % RepeatEvery \in 0 .. RepeatEvery - 1
      BY <3>1
    <3> QED
      BY <2>1, <3>2
  <2>3. toRobot' \in Seq(ToRobot) /\ UNCHANGED <<toModerator, sent>> /\ matched' \subseteq Topics
    BY <1>1, <1>3, PublishedHandshake DEF RepeatHandshake, Topics
  <2> QED
    BY <1>1, <2>1, <2>2, <2>3 DEF TypeOK
<1>4. CASE CompleteMission
  <2>1. UNCHANGED <<script, state, task, simulation, ticks, exited>>
        /\ step' = "kFinish" /\ verdict' = "passed" /\ Publish(<<Message("Mission_complete", None)>>)
    BY <1>4 DEF CompleteMission
  <2>2. /\ toRobot' \in Seq(ToRobot) /\ UNCHANGED <<toModerator, sent>> /\ matched' \subseteq Topics
    BY <1>1, <2>1, PublishedFarewell DEF Topics
  <2> QED
    BY <1>1, <2>1, <2>2 DEF TypeOK, ModeratorSteps, Verdicts
<1>5. CASE TimeOut
  BY <1>1, <1>5 DEF TimeOut, TypeOK, Verdicts
<1>6. CASE OnRobotMessage
  <2>1. UNCHANGED <<script, state, task, simulation, ticks, exited, matched, sent>>
        /\ toModerator' = Tail(toModerator) /\ toModerator # <<>>
    BY <1>6 DEF OnRobotMessage
  <2>2. toModerator' \in Seq(ToModerator)
    BY <1>1, <2>1, HeadTailProperties
  <2>3. /\ step' \in ModeratorSteps /\ toRobot' \in Seq(ToRobot)
        /\ verdict' \in Verdicts
    <3>1. CASE UNCHANGED <<step, toRobot>> /\ verdict' \in {verdict, "unexpected"}
      BY <1>1, <3>1 DEF Verdicts
    <3>2. CASE /\ step \in DOMAIN Expectations /\ step' = Expectations[step][2]
               /\ toRobot' = toRobot \o Reply(step') /\ UNCHANGED verdict
      <4>1. step' \in ModeratorSteps
        BY <3>2, Expected
      <4>2. Reply(step') \in Seq(ToRobot)
        BY ReplyTypes
      <4> QED
        BY <1>1, <3>2, <4>1, <4>2
    <3> QED
      <4>1. \/ UNCHANGED <<step, toRobot>> /\ verdict' \in {verdict, "unexpected"}
            \/ /\ step \in DOMAIN Expectations /\ step' = Expectations[step][2]
               /\ toRobot' = toRobot \o Reply(step') /\ UNCHANGED verdict
        BY <1>6 DEF OnRobotMessage
      <4> QED
        BY <3>1, <3>2, <4>1
  <2> QED
    BY <1>1, <2>1, <2>2, <2>3 DEF TypeOK
<1>7. CASE Exit
  BY <1>1, <1>7 DEF Exit, TypeOK
<1>8. CASE \E topic \in Topics : Discover(topic)
  BY <1>1, <1>8 DEF Discover, TypeOK
<1> QED
  BY <1>2, <1>3, <1>4, <1>5, <1>6, <1>7, <1>8 DEF Tick

LEMMA TypesKept == TypeOK /\ [Next]_vars => TypeOK'
<1> SUFFICES ASSUME TypeOK, [Next]_vars PROVE TypeOK'
  OBVIOUS
<1>1. CASE Next
  BY <1>1, MessagesKeepTypes, SimulationKeepsTypes, ModeratorKeepsTypes DEF Next
<1>2. CASE UNCHANGED vars
  BY <1>2 DEF TypeOK, vars, loaded, coordinator, moderator, channels
<1> QED
  BY <1>1, <1>2

-----------------------------------------------------------------------------
(* Reports.                                                                *)

LEMMA HeardBy ==
  /\ Heard["kWaitingConnections"] = 0 /\ Heard["kWaitingIAmReady"] = 0
  /\ Heard["kWaitingRoomReached"] = 1 /\ Heard["kWaitingObjectGrasped"] = 2
  /\ Heard["kWaitingTaskFinished"] = 3 /\ Heard["kSendMissionComplete"] = 4
  /\ Heard["kFinish"] = 4
BY DEF Heard

LEMMA ReportNames ==
  /\ AllReports[1] = "I_am_ready" /\ AllReports[2] = "Room_reached"
  /\ AllReports[3] = "Object_grasped" /\ AllReports[4] = "Task_finished"
  /\ AllReports = [i \in 1 .. 4 |-> AllReports[i]]
  /\ \A i \in DOMAIN SimulatedReports : SimulatedReports[i] = AllReports[ReportsBefore(i) + 1]
<1>1. /\ AllReports[1] = "I_am_ready" /\ AllReports[2] = "Room_reached"
      /\ AllReports[3] = "Object_grasped" /\ AllReports[4] = "Task_finished"
      /\ AllReports = [i \in 1 .. 4 |-> AllReports[i]]
  BY DEF AllReports
<1>2. ReportsBefore(2) = 1 /\ ReportsBefore(6) = 2 /\ ReportsBefore(9) = 3
  BY ReportsCounted
<1> QED
  BY <1>1, <1>2, ReportsPlayed

\* How the count goes on past a result.
LEMMA ReportsAfter ==
  ASSUME NEW i \in 1 .. 8
  PROVE  ReportsBefore(i + 1) = IF i \in DOMAIN SimulatedReports THEN ReportsBefore(i) + 1
                                ELSE ReportsBefore(i)
BY ReportsCounted, ReportsPlayed

LEMMA SameReported ==
  ASSUME NEW n, Reported(n), UNCHANGED <<sent, toModerator>>, Heard[step'] = Heard[step]
  PROVE  Reported(n)'
BY DEF Reported

LEMMA ThenReported ==
  ASSUME NEW n, NEW h, h = Heard[step'], Len(sent') = n, Len(toModerator') = n - h,
         \A i \in 1 .. n : sent'[i] = [event |-> AllReports[i], delivered |-> TRUE],
         \A i \in 1 .. n - h : toModerator'[i] = Message(AllReports[h + i], None)
  PROVE  Reported(n)'
BY DEF Reported

\* One more report that arrives.
LEMMA MoreReported ==
  ASSUME TypeOK, NEW n \in 0 .. 3, NEW k, k = n + 1, Reported(n), UNCHANGED step,
         toModerator' = Append(toModerator, Message(AllReports[k], None)),
         sent' = Append(sent, [event |-> AllReports[k], delivered |-> TRUE])
  PROVE  Reported(k)'
<1>1. toModerator \in Seq(ToModerator) /\ sent \in Seq([event : Outgoing, delivered : BOOLEAN])
      /\ step \in ModeratorSteps
  BY DEF TypeOK
<1>2. PICK h \in 0 .. 4 : h = Heard[step]
  BY <1>1, HeardBy DEF ModeratorSteps
<1> DEFINE S(i) == [event |-> AllReports[i], delivered |-> TRUE]
           M(i) == Message(AllReports[i], None)
<1>3. /\ Len(sent) = n /\ Len(toModerator) = n - h
      /\ \A i \in 1 .. n : sent[i] = S(i)
      /\ \A i \in 1 .. n - h : toModerator[i] = M(h + i)
  BY <1>2 DEF Reported
<1>4. toModerator' = Append(toModerator, M(k)) /\ sent' = Append(sent, S(k))
  OBVIOUS
<1> HIDE DEF S, M
<1>5. Len(sent') = k /\ \A i \in 1 .. k : sent'[i] = S(i)
  BY <1>1, <1>3, <1>4
<1>6. Len(toModerator') = k - h
  BY <1>1, <1>2, <1>3, <1>4
<1>7. ASSUME NEW i \in 1 .. k - h PROVE toModerator'[i] = M(h + i)
  <2>1. CASE i = k - h
    <3>1. h + i = k /\ i = Len(toModerator) + 1
      BY <1>2, <1>3, <2>1
    <3> QED
      BY <1>1, <1>4, <3>1
  <2>2. CASE i # k - h
    <3>1. i \in 1 .. n - h
      BY <1>2, <2>2
    <3> QED
      BY <1>1, <1>3, <1>4, <3>1
  <2> QED
    BY <2>1, <2>2
<1>8. \A i \in 1 .. k : sent'[i] = [event |-> AllReports[i], delivered |-> TRUE]
  BY <1>5 DEF S
<1>9. \A i \in 1 .. k - h : toModerator'[i] = Message(AllReports[h + i], None)
  BY <1>7 DEF M
<1>10. h = Heard[step']
  BY <1>2
<1> QED
  BY <1>5, <1>6, <1>8, <1>9, <1>10, ThenReported

\* The moderator hears the report it waits for.
LEMMA NextHeard ==
  ASSUME TypeOK, NEW n \in 0 .. 4, Reported(n), toModerator # <<>>
  PROVE  /\ Heard[step] \in 0 .. n - 1 /\ Head(toModerator) = Message(AllReports[Heard[step] + 1], None)
         /\ UNCHANGED sent /\ toModerator' = Tail(toModerator) /\ Heard[step'] = Heard[step] + 1
              => Reported(n)'
<1>1. toModerator \in Seq(ToModerator) /\ step \in ModeratorSteps
  BY DEF TypeOK
<1>2. Heard[step] \in 0 .. 4
  BY <1>1, HeardBy DEF ModeratorSteps
<1> DEFINE h == Heard[step]
           M(i) == Message(AllReports[i], None)
<1> HIDE DEF M, h
<1>3. /\ Len(toModerator) = n - h
      /\ \A i \in 1 .. n - h : toModerator[i] = M(h + i)
  BY DEF Reported, M, h
<1>4. Len(toModerator) \in Nat \ {0} /\ Head(toModerator) = toModerator[1] /\ h \in 0 .. 4
  BY <1>1, <1>2, HeadTailProperties DEF h
<1>5. h \in 0 .. n - 1 /\ Head(toModerator) = M(h + 1)
  BY <1>3, <1>4
<1>6. ASSUME UNCHANGED sent, toModerator' = Tail(toModerator), Heard[step'] = h + 1
      PROVE  Reported(n)'
  <2>1. /\ Len(toModerator') = n - h - 1
        /\ \A i \in 1 .. n - h - 1 : toModerator'[i] = toModerator[i + 1]
    BY <1>1, <1>3, <1>4, <1>6, HeadTailProperties
  <2>2. ASSUME NEW i \in 1 .. n - (h + 1) PROVE toModerator'[i] = M(h + 1 + i)
    <3>1. i \in 1 .. n - h - 1 /\ i + 1 \in 1 .. n - h /\ h + (i + 1) = h + 1 + i
      BY <1>4
    <3> QED
      BY <1>3, <2>1, <3>1
  <2>3. Len(toModerator') = n - (h + 1)
    BY <1>4, <2>1
  <2>4. Len(sent) = n /\ \A i \in 1 .. n : sent[i] = [event |-> AllReports[i], delivered |-> TRUE]
    BY DEF Reported
  <2> QED
    BY <1>6, <2>2, <2>3, <2>4 DEF Reported, M
<1> QED
  BY <1>5, <1>6 DEF M, h

-----------------------------------------------------------------------------
(* Layouts.                                                                *)

\* A layout that was found is found again by its own name.
LEMMA FoundAgain ==
  ASSUME NEW files, NEW name, NEW e \in Find(files, name)
  PROVE  e \in DOMAIN files /\ Find(files, e) = {e}
BY DEF Find

\* The catalog the coordinator starts with.
LEMMA CatalogLoaded ==
  ASSUME NEW files, NEW name \in DOMAIN LoadCatalog(files)
  PROVE  EnvironmentValid(LoadCatalog(files)[name])
BY DEF LoadCatalog

\* The room an object may be brought to.
LEMMA RoomResolved ==
  ASSUME NEW e, NEW t, NEW room \in ResolvedRooms(e, t)
  PROVE  /\ t.pickup_room \in DOMAIN e.rooms
         /\ t.destination_is_avatar => room = None
         /\ ~t.destination_is_avatar =>
              t.destination \in DOMAIN e.destinations /\ room \in CandidateRooms(e, t.destination)
BY DEF ResolvedRooms

AtWorkStates ==
  {"kNavigatingToRoom", "kVerifyingRoom", "kSearchingObject", "kApproachingObject", "kGrasping",
   "kVerifyingGrasp", "kNavigatingToDestination", "kPlacing", "kVerifyingPlacement",
   "kWaitingModeratorResult"}

LEMMA WorkStates ==
  /\ state \in TaskStates => (AtWork <=> state \in AtWorkStates)
  /\ \A i \in 1 .. 9 : PlayedIn[i] \in AtWorkStates
<1>1. state \in TaskStates => (AtWork <=> state \in AtWorkStates)
  BY DEF AtWork, AtWorkStates, TaskStates
<1>2. \A i \in 1 .. 9 : PlayedIn[i] \in AtWorkStates
  <2>1. \A i \in 1 .. 9 : i \in {1, 2, 3, 4, 5, 6, 7, 8, 9}
    OBVIOUS
  <2>2. /\ PlayedIn[1] \in AtWorkStates /\ PlayedIn[2] \in AtWorkStates /\ PlayedIn[3] \in AtWorkStates
        /\ PlayedIn[4] \in AtWorkStates /\ PlayedIn[5] \in AtWorkStates /\ PlayedIn[6] \in AtWorkStates
        /\ PlayedIn[7] \in AtWorkStates /\ PlayedIn[8] \in AtWorkStates /\ PlayedIn[9] \in AtWorkStates
    BY DEF PlayedIn, SimulatedResults, Step, AtWorkStates
  <2> QED
    BY <2>1, <2>2
<1> QED
  BY <1>1, <1>2

\* No step brings another layout than the script's, but one that is on its way.
NoOtherLayout ==
  \A i \in 1 .. Len(toRobot') : toRobot'[i].event = "Environment" =>
    \/ toRobot'[i].detail = script.environment
    \/ \E k \in 1 .. Len(toRobot) : toRobot'[i] = toRobot[k]

\* What a step that starts no work leaves.
LEMMA LayoutKept ==
  ASSUME RoundInv, UNCHANGED <<loaded, task>>, NoOtherLayout,
         state' = state \/ {state, state'} \subseteq AtWorkStates
  PROVE  LayoutIsKnown' /\ TaskFitsLayout'
<1>1. LayoutIsKnown /\ TaskFitsLayout /\ state \in TaskStates
  BY DEF RoundInv, TypeOK
<1>2. catalog' = catalog /\ task' = task /\ script' = script
  BY DEF loaded
<1>3. AtWork' => AtWork
  <2>1. CASE state' = state
    BY <2>1 DEF AtWork
  <2>2. CASE state \in AtWorkStates
    BY <1>1, <2>2, WorkStates
  <2> QED
    BY <2>1, <2>2
<1>4. TaskFitsLayout'
  BY <1>1, <1>2, <1>3 DEF TaskFitsLayout, Layout
<1>5. state' \notin {"kWaitingReady", "kFinished"} => state \notin {"kWaitingReady", "kFinished"}
  BY DEF AtWorkStates
<1>6. LayoutIsKnown'
  BY <1>1, <1>2, <1>5 DEF LayoutIsKnown, NoOtherLayout
<1> QED
  BY <1>4, <1>6

\* The robot is ready once it knows a layout.
LEMMA NewlyReady ==
  ASSUME RoundInv, UNCHANGED <<loaded, task>>, task.environment # None, state' = "kWaitingInstruction",
         \A i \in 1 .. Len(toRobot') : \E k \in 1 .. Len(toRobot) : toRobot'[i] = toRobot[k]
  PROVE  LayoutIsKnown' /\ TaskFitsLayout'
<1>1. LayoutIsKnown /\ catalog' = catalog /\ task' = task /\ script' = script
  BY DEF RoundInv, loaded
<1>2. LayoutIsKnown'
  BY <1>1 DEF LayoutIsKnown
<1> QED
  BY <1>2 DEF TaskFitsLayout, AtWork

\* Taking a message brings no other on its way.
LEMMA TakenBringsNone ==
  ASSUME TypeOK, NEW event, OnMessage(event), toRobot' = Tail(toRobot)
  PROVE  \A i \in 1 .. Len(toRobot') : \E k \in 1 .. Len(toRobot) : toRobot'[i] = toRobot[k]
<1> SUFFICES ASSUME NEW i \in 1 .. Len(toRobot')
             PROVE  \E k \in 1 .. Len(toRobot) : toRobot'[i] = toRobot[k]
  OBVIOUS
<1>1. i \in 1 .. Len(toRobot) - 1
  BY Taken
<1> QED
  BY <1>1, Taken

\* An environment the coordinator is told of.
LEMMA EnvironmentHeard ==
  ASSUME RoundInv, OnEnvironment, state \notin AtWorkStates
  PROVE  LayoutIsKnown' /\ TaskFitsLayout'
<1>1. /\ TypeOK /\ LayoutIsKnown /\ OnMessage("Environment") /\ toRobot' = Tail(toRobot)
      /\ UNCHANGED <<loaded, state>> /\ state \in TaskStates
  BY DEF RoundInv, TypeOK, OnEnvironment, Silent, OnMessage
<1>2. UNCHANGED <<catalog, script>>
  BY <1>1 DEF loaded
<1>3. Head(toRobot).detail = script.environment
  BY <1>1, Taken DEF LayoutIsKnown
<1>4. DOMAIN task = DOMAIN NoTask
  BY <1>1 DEF TypeOK
<1>5. task' = task \/ task'.environment \in Find(catalog, script.environment)
  BY <1>3, <1>4 DEF OnEnvironment, NoTask
<1>6. ~AtWork'
  BY <1>1, WorkStates DEF AtWork
<1>7. \A i \in 1 .. Len(toRobot') : \E k \in 1 .. Len(toRobot) : toRobot'[i] = toRobot[k]
  BY <1>1, TakenBringsNone
<1>8. LayoutIsKnown'
  BY <1>1, <1>2, <1>5, <1>7 DEF LayoutIsKnown
<1> QED
  BY <1>6, <1>8 DEF TaskFitsLayout

\* The task that is over is forgotten.
LEMMA TaskOver ==
  ASSUME RoundInv, OnTaskSucceeded \/ OnMissionComplete
  PROVE  LayoutIsKnown' /\ TaskFitsLayout'
<1>1. PICK event : OnMessage(event) /\ toRobot' = Tail(toRobot)
  BY DEF OnTaskSucceeded, OnMissionComplete, Silent
<1>2. TypeOK /\ LayoutIsKnown /\ TaskFitsLayout /\ UNCHANGED <<catalog, script>>
  BY <1>1 DEF RoundInv, OnMessage, loaded
<1>3. \A i \in 1 .. Len(toRobot') : \E k \in 1 .. Len(toRobot) : toRobot'[i] = toRobot[k]
  BY <1>1, <1>2, TakenBringsNone
<1>4. \/ UNCHANGED <<state, task>>
      \/ state' = "kWaitingReady" /\ task'.environment = None
      \/ state' = "kFinished" /\ UNCHANGED task
  BY DEF OnTaskSucceeded, OnMissionComplete, NoTask
<1>5. LayoutIsKnown'
  BY <1>2, <1>3, <1>4 DEF LayoutIsKnown
<1>6. TaskFitsLayout'
  <2>1. CASE UNCHANGED <<state, task>>
    BY <1>2, <2>1 DEF TaskFitsLayout, Layout, AtWork
  <2>2. CASE state' \in {"kWaitingReady", "kFinished"}
    BY <2>2 DEF TaskFitsLayout, AtWork
  <2> QED
    BY <1>4, <2>1, <2>2
<1> QED
  BY <1>5, <1>6

\* The task an instruction is read as is of the layout the coordinator was told of.
LEMMA InstructionFits ==
  ASSUME RoundInv, OnInstruction, state = "kWaitingInstruction"
  PROVE  LayoutIsKnown' /\ TaskFitsLayout'
<1> DEFINE read == ReadInstruction(Head(toRobot).detail, Cleared(task))
<1>1. /\ TypeOK /\ LayoutIsKnown /\ OnMessage("Instruction") /\ toRobot' = Tail(toRobot)
      /\ UNCHANGED <<catalog, script>> /\ DOMAIN task = DOMAIN NoTask
  BY DEF RoundInv, TypeOK, OnInstruction, Silent, OnMessage, loaded
<1>2. \/ read = {} /\ state' = "kRecovering" /\ task' = Cleared(task)
      \/ task' \in read /\ state' = "kNavigatingToRoom"
  BY DEF OnInstruction, InstructionAccepted, After, Enabled, Step
<1>3. task.environment \in Find(catalog, script.environment)
  BY <1>1 DEF LayoutIsKnown
<1>4. /\ \A name \in DOMAIN catalog : EnvironmentValid(catalog[name])
      /\ \A i \in 1 .. Len(toRobot') :
           toRobot'[i].event = "Environment" => toRobot'[i].detail = script.environment
  BY <1>1, TakenBringsNone DEF LayoutIsKnown
<1>5. DOMAIN Cleared(task) = DOMAIN NoTask /\ Cleared(task).environment = task.environment
  BY <1>1, ClearedTask
<1>6. CASE read = {} /\ state' = "kRecovering" /\ task' = Cleared(task)
  BY <1>1, <1>3, <1>4, <1>5, <1>6 DEF LayoutIsKnown, TaskFitsLayout, AtWork
<1>7. CASE task' \in read /\ state' = "kNavigatingToRoom"
  <2>1. PICK parsed :
           /\ parsed.destination_is_avatar = (parsed.destination = "avatar")
           /\ task'.destination_room \in ResolvedRooms(catalog[task'.environment], parsed)
           /\ task'.pickup_room = parsed.pickup_room /\ task'.destination = parsed.destination
           /\ task'.destination_is_avatar = parsed.destination_is_avatar
    BY <1>5, <1>7, InstructionRead
  <2>2. task'.environment \in Find(catalog, task.environment)
    BY <1>5, <1>7, InstructionRead
  <2>3. task'.environment = task.environment /\ task.environment \in DOMAIN catalog
    BY <1>3, <2>2, FoundAgain
  <2> DEFINE e == catalog[task.environment]
  <2>4. /\ parsed.pickup_room \in DOMAIN e.rooms
        /\ parsed.destination_is_avatar => task'.destination_room = None
        /\ ~parsed.destination_is_avatar =>
             /\ parsed.destination \in DOMAIN e.destinations
             /\ task'.destination_room \in CandidateRooms(e, parsed.destination)
    BY <2>1, <2>3, RoomResolved
  <2>5. EnvironmentValid(e) /\ Layout' = e
    BY <1>1, <1>4, <2>3 DEF Layout
  <2>6. LayoutIsKnown'
    BY <1>1, <1>3, <1>4, <2>3 DEF LayoutIsKnown
  <2>7. task'.destination_is_avatar <=> task'.destination = "avatar"
    BY <2>1
  <2> HIDE DEF e
  <2> QED
    BY <1>1, <1>3, <2>1, <2>3, <2>4, <2>5, <2>6, <2>7 DEF TaskFitsLayout
<1> QED
  BY <1>2, <1>6, <1>7

-----------------------------------------------------------------------------
(* Where the two nodes are.                                                *)

Where == Calling \/ Ready \/ Instructed \/ Rejected \/ Playing \/ Played

\* All but the last message are of a handshake.
LEMMA EarlierHandshakes ==
  ASSUME NEW messages \in Seq(ToRobot), messages # <<>>
  PROVE  Handshakes(SubSeq(messages, 1, Len(messages) - 1)) <=>
           \A i \in 1 .. Len(messages) - 1 : messages[i].event \in {"Environment", "Are_you_ready"}
<1> DEFINE n == Len(messages) - 1
           s == SubSeq(messages, 1, n)
<1>1. n \in Nat /\ n + 1 = Len(messages)
  OBVIOUS
<1>2. Len(s) = n /\ \A i \in 1 .. n : s[i] = messages[i]
  <2>1. \A i \in 1 .. n : messages[i] \in ToRobot
    BY <1>1
  <2> HIDE DEF n
  <2>2. /\ Len(s) = IF 1 <= n THEN n - 1 + 1 ELSE 0
        /\ \A i \in 1 .. n - 1 + 1 : s[i] = messages[1 + i - 1]
    BY <1>1, <2>1, SubSeqProperties
  <2> HIDE DEF s
  <2>3. Len(s) = n
    BY <1>1, <2>2
  <2>4. ASSUME NEW i \in 1 .. n PROVE s[i] = messages[i]
    <3>1. i \in 1 .. n - 1 + 1 /\ 1 + i - 1 = i
      BY <1>1
    <3>2. s[i] = messages[1 + i - 1]
      BY <2>2, <3>1
    <3> QED
      BY <3>1, <3>2
  <2> QED
    BY <2>3, <2>4
<1> HIDE DEF s
<1>3. Handshakes(s) <=> \A i \in 1 .. Len(s) : s[i].event \in {"Environment", "Are_you_ready"}
  BY DEF Handshakes
<1> QED
  BY <1>2, <1>3 DEF s

\* The first message on its way to the robot, by where the nodes are.
LEMMA FirstMessage ==
  ASSUME TypeOK, Where, Len(toRobot) \in Nat \ {0}
  PROVE  /\ Calling \/ Ready \/ Instructed \/ Played
         /\ Calling \/ Ready => toRobot[1].event \in {"Environment", "Are_you_ready"}
         /\ Instructed => toRobot[1].event \in {"Environment", "Are_you_ready", "Instruction"}
         /\ Instructed /\ Len(toRobot) > 1 => toRobot[1].event \in {"Environment", "Are_you_ready"}
         /\ Instructed /\ Len(toRobot) = 1 => toRobot[1].event = "Instruction"
         /\ Played => toRobot[1].event \in {"Task_succeeded", "Mission_complete"}
<1>1. Calling \/ Ready => toRobot[1].event \in {"Environment", "Are_you_ready"}
  BY DEF Calling, Ready, Handshakes
<1>2. Instructed /\ Len(toRobot) = 1 => toRobot[1].event = "Instruction"
  BY DEF Instructed
<1>3. Instructed /\ Len(toRobot) > 1 => toRobot[1].event \in {"Environment", "Are_you_ready"}
  BY EarlierHandshakes DEF Instructed, TypeOK
<1>4. Played => toRobot[1].event \in {"Task_succeeded", "Mission_complete"}
  <2>1. ASSUME NEW a, ToRobotAre(<<a>>) PROVE toRobot[1].event = a
    BY <2>1 DEF ToRobotAre
  <2>2. ASSUME NEW a, NEW b, ToRobotAre(<<a, b>>) PROVE toRobot[1].event = a
    BY <2>2 DEF ToRobotAre
  <2>3. ~ToRobotAre(<<>>)
    BY DEF ToRobotAre
  <2> QED
    BY <2>1, <2>2, <2>3 DEF Played
<1>5. ~Rejected /\ ~Playing
  BY DEF Rejected, Playing
<1> QED
  BY <1>1, <1>2, <1>3, <1>4, <1>5 DEF Where

\* A handshake message is taken, and nothing else changes.
LEMMA HandshakeTaken ==
  ASSUME TypeOK, NEW event \in {"Environment", "Are_you_ready"}, OnMessage(event),
         toRobot' = Tail(toRobot), UNCHANGED <<state, simulation, sent, toModerator, matched>>,
         Calling \/ Ready \/ Instructed
  PROVE  Where'
<1>1. /\ Len(toRobot) \in Nat \ {0} /\ toRobot[1].event = event /\ Len(toRobot') = Len(toRobot) - 1
      /\ \A i \in 1 .. Len(toRobot) - 1 :
           toRobot'[i] = toRobot[i + 1] /\ i + 1 \in 2 .. Len(toRobot)
      /\ step' = step /\ toRobot' \in Seq(ToRobot) /\ toRobot \in Seq(ToRobot) /\ toRobot # <<>>
  BY Taken DEF moderator, TypeOK, OnMessage
<1>2. \A n : Reported(n) => Reported(n)'
  BY <1>1 DEF Reported
<1>3. Handshakes(toRobot) => Handshakes(toRobot')
  <2> SUFFICES ASSUME Handshakes(toRobot), NEW i \in 1 .. Len(toRobot')
               PROVE  toRobot'[i].event \in {"Environment", "Are_you_ready"}
    BY DEF Handshakes
  <2>1. i \in 1 .. Len(toRobot) - 1
    BY <1>1
  <2>2. toRobot'[i] = toRobot[i + 1] /\ i + 1 \in 1 .. Len(toRobot)
    BY <1>1, <2>1
  <2> QED
    BY <2>2 DEF Handshakes
<1>4. CASE Calling
  <2>1. step = "kWaitingIAmReady"
    BY <1>1, <1>4 DEF Calling
  <2>2. Calling'
    BY <1>1, <1>2, <1>3, <1>4, <2>1 DEF Calling
  <2> QED
    BY <2>2 DEF Where
<1>5. CASE Ready
  <2>1. Ready'
    BY <1>1, <1>2, <1>3, <1>5 DEF Ready
  <2> QED
    BY <2>1 DEF Where
<1>6. CASE Instructed
  <2>1. Len(toRobot) # 1
    BY <1>1, <1>6 DEF Instructed
  <2>2. /\ toRobot' # <<>> /\ Len(toRobot') \in Nat \ {0}
        /\ toRobot'[Len(toRobot')].event = "Instruction"
    <3>1. Len(toRobot) - 1 \in 1 .. Len(toRobot) - 1 /\ (Len(toRobot) - 1) + 1 = Len(toRobot)
      BY <1>1, <2>1
    <3>2. toRobot'[Len(toRobot) - 1] = toRobot[Len(toRobot)]
      BY <1>1, <3>1
    <3>3. Len(toRobot') \in Nat \ {0}
      BY <1>1, <3>1
    <3> QED
      BY <1>1, <1>6, <3>2, <3>3 DEF Instructed
  <2>3. \A i \in 1 .. Len(toRobot) - 1 : toRobot[i].event \in {"Environment", "Are_you_ready"}
    BY <1>1, <1>6, EarlierHandshakes DEF Instructed
  <2>4. ASSUME NEW i \in 1 .. Len(toRobot') - 1
        PROVE  toRobot'[i].event \in {"Environment", "Are_you_ready"}
    <3>1. i \in 1 .. Len(toRobot) - 1 /\ i + 1 \in 1 .. Len(toRobot) - 1
      BY <1>1
    <3> QED
      BY <1>1, <2>3, <3>1
  <2>5. Handshakes(SubSeq(toRobot', 1, Len(toRobot') - 1))
    BY <1>1, <2>2, <2>4, EarlierHandshakes
  <2>6. Instructed'
    BY <1>1, <1>2, <1>6, <2>2, <2>5 DEF Instructed
  <2> QED
    BY <2>6 DEF Where
<1> QED
  BY <1>4, <1>5, <1>6

LEMMA EnvironmentTaken == ASSUME RoundInv, OnEnvironment PROVE RoundInv'
<1>1. /\ TypeOK /\ Where /\ OnMessage("Environment") /\ toRobot' = Tail(toRobot)
      /\ UNCHANGED <<state, simulation, sent, toModerator, matched>>
  BY DEF RoundInv, OnEnvironment, Silent, Where
<1>2. Len(toRobot) \in Nat \ {0} /\ toRobot[1].event = "Environment" /\ UNCHANGED <<step, verdict>>
  BY <1>1, Taken DEF moderator
<1>3. Calling \/ Ready \/ Instructed
  BY <1>1, <1>2, FirstMessage
<1>4. Where'
  BY <1>1, <1>3, HandshakeTaken
<1>5. state \notin AtWorkStates
  BY <1>3 DEF Calling, Ready, Instructed, AtWorkStates
<1>6. LayoutIsKnown' /\ TaskFitsLayout'
  BY <1>5, EnvironmentHeard
<1>7. TypeOK'
  BY <1>1, MessagesKeepTypes DEF OnAnyMessage
<1> QED
  BY <1>2, <1>4, <1>6, <1>7 DEF RoundInv, Where

\* The handshake is answered once.
LEMMA ReadyTaken == ASSUME RoundInv, OnAreYouReady PROVE RoundInv'
<1>1. /\ TypeOK /\ Where /\ OnMessage("Are_you_ready") /\ toRobot' = Tail(toRobot)
      /\ UNCHANGED <<task, simulation>>
  BY DEF RoundInv, OnAreYouReady, Silent, PublishEvent, Where
<1>2. /\ Len(toRobot) \in Nat \ {0} /\ toRobot[1].event = "Are_you_ready"
      /\ UNCHANGED <<loaded, step, verdict>>
  BY <1>1, Taken DEF moderator
<1>3. Calling \/ Ready \/ Instructed
  BY <1>1, <1>2, FirstMessage
<1>4. TypeOK'
  BY <1>1, MessagesKeepTypes DEF OnAnyMessage
<1>5. \A i \in 1 .. Len(toRobot') : \E k \in 1 .. Len(toRobot) : toRobot'[i] = toRobot[k]
  BY <1>1, TakenBringsNone
<1>6. CASE ~ReadyAccepted(state, task.environment # None)
  <2>1. UNCHANGED <<state, sent, toModerator, matched>>
    BY <1>6 DEF OnAreYouReady, Silent
  <2>2. Where'
    BY <1>1, <1>3, <2>1, HandshakeTaken
  <2>3. LayoutIsKnown' /\ TaskFitsLayout'
    <3>1. UNCHANGED <<loaded, task>> /\ state' = state
      BY <1>1, <1>2, <2>1
    <3>2. NoOtherLayout
      BY <1>5 DEF NoOtherLayout
    <3> QED
      BY <3>1, <3>2, LayoutKept
  <2> QED
    BY <1>2, <1>4, <2>2, <2>3 DEF RoundInv, Where
<1>7. CASE ReadyAccepted(state, task.environment # None)
  <2>1. /\ state' = "kWaitingInstruction" /\ PublishEvent("I_am_ready", Tail(toRobot))
        /\ state = "kWaitingReady" /\ task.environment # None
    BY <1>7 DEF OnAreYouReady, ReadyAccepted
  <2>2. Calling /\ step = "kWaitingIAmReady" /\ Reported(0)
    BY <1>2, <1>3, <2>1 DEF Calling, Ready, Instructed
  <2>3. Handshakes(toRobot')
    <3> SUFFICES ASSUME NEW i \in 1 .. Len(toRobot')
                 PROVE  toRobot'[i].event \in {"Environment", "Are_you_ready"}
      BY DEF Handshakes
    <3> QED
      BY <1>5, <2>2 DEF Calling, Handshakes
  <2>4. \/ "to_moderator" \in matched' /\ Reported(1)'
        \/ sent' = <<[event |-> "I_am_ready", delivered |-> FALSE]>> /\ toModerator' = <<>>
    <3>1. /\ sent \in Seq([event : Outgoing, delivered : BOOLEAN]) /\ Len(sent) = 0
          /\ toModerator \in Seq(ToModerator) /\ Len(toModerator) = 0
      BY <1>1, <2>2, HeardBy DEF Reported, TypeOK
    <3>2. sent = <<>> /\ toModerator = <<>>
      BY <3>1
    <3>3. CASE /\ toModerator' = toModerator
               /\ sent' = Append(sent, [event |-> "I_am_ready", delivered |-> FALSE])
      BY <3>2, <3>3
    <3>4. CASE /\ toModerator' = Append(toModerator, Message("I_am_ready", None))
               /\ sent' = Append(sent, [event |-> "I_am_ready", delivered |-> TRUE])
               /\ "to_moderator" \in matched'
      <4>1. /\ AllReports[1] = "I_am_ready" /\ 0 \in 0 .. 3 /\ 1 = 0 + 1 /\ Reported(0) /\ TypeOK
            /\ UNCHANGED step
        BY <1>1, <1>2, <2>2, ReportNames
      <4>2. Reported(1)'
        BY <3>4, <4>1, MoreReported
      <4> QED
        BY <3>4, <4>2
    <3> QED
      BY <1>1, <2>1, <3>3, <3>4, Reporting
  <2>5. Where'
    BY <1>1, <1>2, <2>1, <2>2, <2>3, <2>4 DEF Where, Ready, Calling
  <2>6. LayoutIsKnown' /\ TaskFitsLayout'
    BY <1>1, <1>2, <1>5, <2>1, NewlyReady
  <2> QED
    BY <1>2, <1>4, <2>5, <2>6 DEF RoundInv, Where
<1> QED
  BY <1>6, <1>7

\* The instruction is heard once, and answered or rejected.
LEMMA InstructionTaken == ASSUME RoundInv, OnInstruction PROVE RoundInv'
<1>1. /\ TypeOK /\ Where /\ OnMessage("Instruction") /\ toRobot' = Tail(toRobot)
      /\ UNCHANGED <<sent, toModerator, matched>>
  BY DEF RoundInv, OnInstruction, Silent, Where
<1>2. /\ Len(toRobot) \in Nat \ {0} /\ toRobot[1].event = "Instruction"
      /\ UNCHANGED <<step, verdict>> /\ Len(toRobot') = Len(toRobot) - 1
  BY <1>1, Taken DEF moderator
<1>3. Instructed /\ Len(toRobot) = 1
  BY <1>1, <1>2, FirstMessage
<1>4. TypeOK'
  BY <1>1, MessagesKeepTypes DEF OnAnyMessage
<1>5. toRobot' = <<>>
  BY <1>2, <1>3, <1>4 DEF TypeOK
<1>6. /\ state = "kWaitingInstruction" /\ simulation = 0 /\ step = "kWaitingRoomReached"
      /\ "to_moderator" \in matched /\ Reported(1)
  BY <1>3 DEF Instructed
<1>7. Reported(1)'
  BY <1>1, <1>2, <1>6, SameReported
<1>8. LayoutIsKnown' /\ TaskFitsLayout'
  BY <1>6, InstructionFits
<1>9. Where'
  <2>1. \/ state' = "kRecovering" /\ simulation' = 0
        \/ state' = "kNavigatingToRoom" /\ simulation' = 1
    BY <1>6 DEF OnInstruction, InstructionAccepted, After, Enabled, Step
  <2>2. CASE state' = "kRecovering" /\ simulation' = 0
    BY <1>2, <1>5, <1>6, <1>7, <2>2 DEF Where, Rejected
  <2>3. CASE state' = "kNavigatingToRoom" /\ simulation' = 1
    <3>1. ReportsBefore(1) = 1 /\ PlayedIn[1] = "kNavigatingToRoom"
      BY ReportsCounted, ResultMoves
    <3>2. Reported(ReportsBefore(1))'
      BY <1>7, <3>1
    <3>3. step' \in DOMAIN Expectations \ {"kWaitingIAmReady"}
      BY <1>2, <1>6, Expected
    <3>4. Playing'
      BY <1>1, <1>5, <1>6, <2>3, <3>1, <3>2, <3>3 DEF Playing
    <3> QED
      BY <3>4 DEF Where
  <2> QED
    BY <2>1, <2>2, <2>3
<1> QED
  BY <1>2, <1>4, <1>6, <1>8, <1>9 DEF RoundInv, Where

\* What is on its way once everything is said.
LEMMA LastWords ==
  ASSUME TypeOK
  PROVE  /\ ToRobotAre(<<>>) <=> toRobot = <<>>
         /\ \A a : ToRobotAre(<<a>>) <=> Len(toRobot) = 1 /\ toRobot[1].event = a
         /\ \A a, b : ToRobotAre(<<a, b>>) <=>
              Len(toRobot) = 2 /\ toRobot[1].event = a /\ toRobot[2].event = b
<1>1. toRobot \in Seq(ToRobot)
  BY DEF TypeOK
<1>2. ToRobotAre(<<>>) <=> toRobot = <<>>
  BY <1>1 DEF ToRobotAre
<1>3. ASSUME NEW a PROVE ToRobotAre(<<a>>) <=> Len(toRobot) = 1 /\ toRobot[1].event = a
  BY <1>1 DEF ToRobotAre
<1>4. ASSUME NEW a, NEW b
      PROVE  ToRobotAre(<<a, b>>) <=>
               Len(toRobot) = 2 /\ toRobot[1].event = a /\ toRobot[2].event = b
  BY <1>1 DEF ToRobotAre
<1> QED
  BY <1>2, <1>3, <1>4

\* The moderator's last words are heard.
LEMMA LastWordsTaken ==
  ASSUME RoundInv, OnTaskSucceeded \/ OnMissionComplete
  PROVE  RoundInv'
<1>1. PICK event \in {"Task_succeeded", "Mission_complete"} :
        /\ OnMessage(event) /\ toRobot' = Tail(toRobot) /\ UNCHANGED <<sent, toModerator, matched>>
        /\ event = "Task_succeeded" => OnTaskSucceeded
        /\ event = "Mission_complete" => OnMissionComplete
  BY DEF OnTaskSucceeded, OnMissionComplete, Silent
<1>2. TypeOK /\ Where /\ (verdict # "unexpected" /\ (verdict = "passed" => step = "kFinish"))
  BY DEF RoundInv, Where
<1>3. /\ Len(toRobot) \in Nat \ {0} /\ toRobot[1].event = event
      /\ UNCHANGED <<step, verdict>> /\ Len(toRobot') = Len(toRobot) - 1
      /\ Len(toRobot) > 1 => toRobot'[1] = toRobot[2]
  BY <1>1, <1>2, Taken DEF moderator
<1>4. Played
  BY <1>1, <1>2, <1>3, FirstMessage
<1>5. TypeOK'
  BY <1>2, MessagesKeepTypes DEF OnAnyMessage
<1>6. Reported(4)' /\ simulation = 0
  BY <1>1, <1>3, <1>4, SameReported DEF Played
<1>7. LayoutIsKnown' /\ TaskFitsLayout'
  BY TaskOver
<1>8. Len(toRobot) = 1 => toRobot' = <<>>
  BY <1>3, <1>5 DEF TypeOK
<1>9. Where'
  <2>1. CASE event = "Task_succeeded"
    <3>1. /\ state = "kWaitingModeratorResult"
          /\ \/ step \in {"kSendMissionComplete", "kFinish"} /\ Len(toRobot) = 1
             \/ step = "kFinish" /\ Len(toRobot) = 2 /\ toRobot[2].event = "Mission_complete"
      BY <1>2, <1>3, <1>4, <2>1, LastWords DEF Played
    <3>2. state' = "kWaitingReady" /\ simulation' = 0
      BY <1>1, <1>6, <2>1, <3>1 DEF OnTaskSucceeded, SuccessAccepted
    <3>3. CASE step \in {"kSendMissionComplete", "kFinish"} /\ Len(toRobot) = 1
      <4>1. ToRobotAre(<<>>)'
        BY <1>5, <1>8, <3>3 DEF ToRobotAre
      <4> QED
        BY <1>3, <1>6, <3>2, <3>3, <4>1 DEF Where, Played
    <3>4. CASE step = "kFinish" /\ Len(toRobot) = 2 /\ toRobot[2].event = "Mission_complete"
      <4>1. ToRobotAre(<<"Mission_complete">>)'
        BY <1>3, <3>4 DEF ToRobotAre
      <4> QED
        BY <1>3, <1>6, <3>2, <3>4, <4>1 DEF Where, Played
    <3> QED
      BY <3>1, <3>3, <3>4
  <2>2. CASE event = "Mission_complete"
    <3>1. state = "kWaitingReady" /\ step = "kFinish" /\ Len(toRobot) = 1
      BY <1>2, <1>3, <1>4, <2>2, LastWords DEF Played
    <3>2. state' = "kFinished" /\ simulation' = 0
      BY <1>1, <2>2 DEF OnMissionComplete
    <3>3. ToRobotAre(<<>>)'
      BY <1>8, <3>1 DEF ToRobotAre
    <3> QED
      BY <1>3, <1>6, <3>1, <3>2, <3>3 DEF Where, Played
  <2> QED
    BY <2>1, <2>2
<1> QED
  BY <1>2, <1>3, <1>5, <1>7, <1>9 DEF RoundInv, Where

\* A result is played, and reported when it is to be.
LEMMA ResultPlayed == ASSUME RoundInv, RunSimulationStep PROVE RoundInv'
<1>1. /\ TypeOK /\ Where /\ verdict # "unexpected" /\ (verdict = "passed" => step = "kFinish")
      /\ simulation # 0 /\ UNCHANGED <<loaded, task, step, verdict>>
  BY DEF RoundInv, Where, RunSimulationStep, moderator
<1>2. Playing /\ simulation \in 1 .. 9
  <2>1. simulation \in 0 .. 9
    BY <1>1, ResultMoves DEF TypeOK
  <2> QED
    BY <1>1, <2>1 DEF Where, Calling, Ready, Instructed, Rejected, Played
<1>3. /\ state = PlayedIn[simulation] /\ "to_moderator" \in matched
      /\ Reported(ReportsBefore(simulation)) /\ toRobot = <<>>
      /\ step \in DOMAIN Expectations \ {"kWaitingIAmReady"}
  BY <1>2 DEF Playing
<1>0. PICK i \in 1 .. 9 : i = simulation
  BY <1>2
<1>4. PICK n \in 1 .. 3 : n = ReportsBefore(i)
  BY ReportsCounted
<1>5. TypeOK'
  BY <1>1, SimulationKeepsTypes
<1>6. Enabled(SimulatedResults[simulation], state)
  BY <1>0, <1>3, ResultMoves
<1>7. /\ state' = After(SimulatedResults[i], PlayedIn[i])
      /\ simulation' = IF i < 9 THEN i + 1 ELSE 0
      /\ IF i \in DOMAIN SimulatedReports
         THEN PublishEvent(SimulatedReports[i], toRobot) ELSE Silent(toRobot)
  BY <1>0, <1>3, <1>6, ResultMoves DEF RunSimulationStep
<1>8. toRobot' = <<>> /\ "to_moderator" \in matched'
  BY <1>1, <1>3, <1>7, Reporting DEF Silent
<1>9. Reported(IF i \in DOMAIN SimulatedReports THEN n + 1 ELSE n)'
  <2>1. CASE i \notin DOMAIN SimulatedReports
    <3>1. UNCHANGED <<sent, toModerator>>
      BY <1>7, <2>1 DEF Silent
    <3>2. Reported(n)'
      BY <1>1, <1>3, <1>4, <1>0, <3>1, SameReported
    <3> QED
      BY <2>1, <3>2
  <2>2. CASE i \in DOMAIN SimulatedReports
    <3>1. PublishEvent(AllReports[n + 1], toRobot)
      BY <1>4, <1>7, <2>2, ReportNames
    <3>2. /\ toModerator' = Append(toModerator, Message(AllReports[n + 1], None))
          /\ sent' = Append(sent, [event |-> AllReports[n + 1], delivered |-> TRUE])
      BY <1>1, <1>3, <3>1, Reporting
    <3>3. n \in 0 .. 3 /\ UNCHANGED step /\ Reported(n)
      BY <1>1, <1>3, <1>4, <1>0
    <3>4. Reported(n + 1)'
      BY <1>1, <3>2, <3>3, MoreReported
    <3> QED
      BY <2>2, <3>4
  <2> QED
    BY <2>1, <2>2
<1>10. state' \in AtWorkStates /\ state \in AtWorkStates
  <2>1. CASE i < 9
    <3>1. i \in 1 .. 8 /\ i + 1 \in 1 .. 9
      BY <2>1
    <3> QED
      BY <1>0, <1>3, <1>7, <3>1, ResultMoves, WorkStates
  <2>2. CASE i = 9
    <3>1. state' = "kWaitingModeratorResult"
      BY <1>7, <2>2, ResultMoves
    <3> QED
      BY <1>0, <1>3, <3>1, WorkStates DEF AtWorkStates
  <2> QED
    BY <2>1, <2>2
<1>11. NoOtherLayout
  BY <1>8 DEF NoOtherLayout
<1>12. LayoutIsKnown' /\ TaskFitsLayout'
  <2>1. UNCHANGED <<loaded, task>>
    BY <1>1
  <2> QED
    BY <1>10, <1>11, <2>1, LayoutKept
<1>13. Where'
  <2>1. CASE i < 9
    <3>1. i \in 1 .. 8 /\ simulation' = i + 1
      BY <1>7, <2>1
    <3>2. state' = PlayedIn[i + 1]
      BY <1>7, <3>1, ResultMoves
    <3>3. Reported(ReportsBefore(i + 1))'
      BY <1>4, <1>9, <3>1, ReportsAfter
    <3>4. simulation' # 0 /\ state' = PlayedIn[simulation'] /\ Reported(ReportsBefore(simulation))'
      BY <3>1, <3>2, <3>3
    <3>5. Playing'
      BY <1>1, <1>3, <1>8, <3>4 DEF Playing
    <3> QED
      BY <3>5 DEF Where
  <2>2. CASE i = 9
    <3>1. n + 1 = 4 /\ i \in DOMAIN SimulatedReports
      BY <1>4, <2>2, ReportsCounted, ReportsPlayed
    <3>2. Reported(4)'
      BY <1>9, <3>1
    <3>3. state' = "kWaitingModeratorResult" /\ simulation' = 0
      BY <1>7, <2>2, ResultMoves
    <3>4. ToRobotAre(<<>>)'
      BY <1>8 DEF ToRobotAre
    <3>5. Played'
      BY <1>1, <1>3, <3>2, <3>3, <3>4 DEF Played
    <3> QED
      BY <3>5 DEF Where
  <2> QED
    BY <2>1, <2>2
<1> QED
  BY <1>1, <1>5, <1>12, <1>13 DEF RoundInv, Where

\* The moderator calls until it is answered.
LEMMA Called == ASSUME RoundInv, Connect \/ RepeatHandshake PROVE RoundInv'
<1> USE DEF loaded, coordinator, moderator, channels
<1>1. /\ TypeOK /\ Where /\ UNCHANGED <<loaded, task, state, simulation, verdict, sent, toModerator>>
      /\ matched \subseteq matched'
      /\ \/ step = "kWaitingConnections" /\ step' = "kWaitingIAmReady" /\ Publish(Handshake)
         \/ /\ step = "kWaitingIAmReady" /\ step' = step
            /\ Publish(Handshake) \/ toRobot' = toRobot
      /\ verdict = "none" /\ verdict # "passed"
  BY DEF RoundInv, Where, Connect, RepeatHandshake, Publish, Ticking
<1>2. TypeOK'
  BY <1>1, ModeratorKeepsTypes DEF Tick
<1>3. \A i \in 1 .. Len(toRobot') :
        \/ i \in 1 .. Len(toRobot) /\ toRobot'[i] = toRobot[i]
        \/ toRobot'[i] = Message("Environment", script.environment)
        \/ toRobot'[i] = Message("Are_you_ready", None)
  <2>1. CASE Publish(Handshake)
    BY <1>1, <2>1, PublishedHandshake
  <2>2. CASE toRobot' = toRobot
    BY <2>2
  <2> QED
    BY <1>1, <2>1, <2>2
<1>4. NoOtherLayout
  BY <1>3 DEF NoOtherLayout, Message
<1>5. LayoutIsKnown' /\ TaskFitsLayout'
  <2>1. UNCHANGED <<loaded, task>> /\ state' = state
    BY <1>1
  <2> QED
    BY <1>4, <2>1, LayoutKept
<1>6. Handshakes(toRobot) => Handshakes(toRobot')
  BY <1>3 DEF Handshakes, Message
<1>7. Heard[step'] = Heard[step]
  BY <1>1, HeardBy
<1>8. \A n : Reported(n) => Reported(n)'
  BY <1>1, <1>7, SameReported
<1>9. Calling \/ Ready
  BY <1>1, Expected DEF Where, Instructed, Rejected, Playing, Played
<1>10. Where'
  <2>1. CASE Calling
    <3>1. Calling'
      BY <1>1, <1>6, <1>8, <2>1 DEF Calling
    <3> QED
      BY <3>1 DEF Where
  <2>2. CASE Ready
    <3>1. Ready'
      BY <1>1, <1>6, <1>8, <2>2 DEF Ready
    <3> QED
      BY <3>1 DEF Where
  <2> QED
    BY <1>9, <2>1, <2>2
<1> QED
  BY <1>1, <1>2, <1>5, <1>10 DEF RoundInv, Where

\* The moderator says farewell after the last report.
LEMMA Farewell == ASSUME RoundInv, CompleteMission PROVE RoundInv'
<1> USE DEF loaded, coordinator, moderator, channels
<1>1. /\ TypeOK /\ Where /\ UNCHANGED <<loaded, task, state, simulation, sent, toModerator>>
      /\ step = "kSendMissionComplete" /\ step' = "kFinish" /\ verdict' = "passed"
      /\ Publish(<<Message("Mission_complete", None)>>)
  BY DEF RoundInv, Where, CompleteMission, Publish
<1>2. TypeOK'
  BY ModeratorKeepsTypes DEF RoundInv, Tick
<1>3. toRobot' = toRobot \/ toRobot' = Append(toRobot, Message("Mission_complete", None))
  BY <1>1, PublishedFarewell
<1>4. toRobot \in Seq(ToRobot) /\ Len(toRobot) \in Nat
  BY <1>1 DEF TypeOK
<1>5. NoOtherLayout
  <2> SUFFICES ASSUME NEW i \in 1 .. Len(toRobot'), toRobot'[i].event = "Environment"
               PROVE  \E k \in 1 .. Len(toRobot) : toRobot'[i] = toRobot[k]
    BY DEF NoOtherLayout
  <2>1. toRobot'[i] # Message("Mission_complete", None)
    BY DEF Message
  <2>2. i \in 1 .. Len(toRobot) /\ toRobot'[i] = toRobot[i]
    BY <1>3, <1>4, <2>1
  <2> QED
    BY <2>2
<1>6. LayoutIsKnown' /\ TaskFitsLayout'
  <2>1. UNCHANGED <<loaded, task>> /\ state' = state
    BY <1>1
  <2> QED
    BY <1>5, <2>1, LayoutKept
<1>7. /\ simulation = 0 /\ Reported(4)
      /\ \/ state = "kWaitingModeratorResult" /\ Len(toRobot) = 1 /\ toRobot[1].event = "Task_succeeded"
         \/ state = "kWaitingReady" /\ Len(toRobot) = 0
  BY <1>1, Expected, LastWords DEF Where, Calling, Ready, Instructed, Rejected, Playing, Played
<1>8. Heard[step'] = Heard[step]
  BY <1>1, HeardBy
<1>9. Reported(4)'
  BY <1>1, <1>7, <1>8, SameReported
<1>10. \/ state' = "kWaitingModeratorResult" /\ ToRobotAre(<<"Task_succeeded">>)'
       \/ state' = "kWaitingModeratorResult" /\ ToRobotAre(<<"Task_succeeded", "Mission_complete">>)'
       \/ state' = "kWaitingReady" /\ ToRobotAre(<<>>)'
       \/ state' = "kWaitingReady" /\ ToRobotAre(<<"Mission_complete">>)'
  <2>1. CASE toRobot' = toRobot
    BY <1>1, <1>7, <2>1 DEF ToRobotAre
  <2>2. CASE toRobot' = Append(toRobot, Message("Mission_complete", None))
    <3>1. CASE Len(toRobot) = 1 /\ toRobot[1].event = "Task_succeeded"
      <4>1. Len(toRobot') = 2 /\ toRobot'[1] = toRobot[1] /\ toRobot'[2].event = "Mission_complete"
        <5>1. /\ Len(toRobot') = Len(toRobot) + 1 /\ \A i \in 1 .. Len(toRobot) : toRobot'[i] = toRobot[i]
              /\ toRobot'[Len(toRobot) + 1] = Message("Mission_complete", None)
          BY <1>4, <2>2
        <5>2. Len(toRobot) = 1
          BY <3>1
        <5> QED
          BY <5>1, <5>2 DEF Message
      <4>2. ToRobotAre(<<"Task_succeeded", "Mission_complete">>)'
        BY <3>1, <4>1 DEF ToRobotAre
      <4> QED
        BY <1>1, <1>7, <3>1, <4>2
    <3>2. CASE Len(toRobot) = 0
      <4>1. Len(toRobot') = 1 /\ toRobot'[1].event = "Mission_complete"
        BY <1>4, <2>2, <3>2 DEF Message
      <4>2. ToRobotAre(<<"Mission_complete">>)'
        BY <4>1 DEF ToRobotAre
      <4> QED
        BY <1>1, <1>7, <3>2, <4>2
    <3> QED
      BY <1>7, <3>1, <3>2
  <2> QED
    BY <1>3, <2>1, <2>2
<1>11. Played'
  BY <1>1, <1>7, <1>9, <1>10 DEF Played
<1> QED
  BY <1>1, <1>2, <1>6, <1>11 DEF RoundInv

\* The moderator is told what it waits for.
LEMMA ReportTaken == ASSUME RoundInv, OnRobotMessage PROVE RoundInv'
<1> USE DEF loaded, coordinator, moderator, channels
<1>1. /\ TypeOK /\ Where /\ UNCHANGED <<loaded, task, state, simulation, matched, sent>>
      /\ toModerator # <<>> /\ toModerator' = Tail(toModerator)
      /\ verdict # "unexpected" /\ (verdict = "passed" => step = "kFinish")
  BY DEF RoundInv, Where, OnRobotMessage
<1>2. /\ toModerator \in Seq(ToModerator) /\ toRobot \in Seq(ToRobot) /\ Len(toRobot) \in Nat
      /\ step \in ModeratorSteps /\ Len(toModerator) # 0
  BY <1>1 DEF TypeOK
<1>3. TypeOK'
  BY <1>1, ModeratorKeepsTypes
<1>4. PICK n \in 0 .. 4 : Reported(n) /\ (n = 0 => Calling) /\ (n = 4 => Played)
  <2>1. CASE Calling
    BY <2>1 DEF Calling
  <2>2. CASE Ready
    BY <1>1, <2>2 DEF Ready
  <2>3. CASE Instructed \/ Rejected
    BY <2>3 DEF Instructed, Rejected
  <2>4. CASE Playing
    <3>1. simulation \in 1 .. 9
      <4>1. simulation \in 0 .. 9 /\ simulation # 0
        BY <1>1, <2>4, ResultMoves DEF TypeOK, Playing
      <4> QED
        BY <4>1
    <3>2. PICK n \in 1 .. 3 : n = ReportsBefore(simulation)
      BY <3>1, ReportsCounted
    <3> QED
      BY <2>4, <3>2 DEF Playing
  <2>5. CASE Played
    BY <2>5 DEF Played
  <2> QED
    BY <1>1, <2>1, <2>2, <2>3, <2>4, <2>5 DEF Where
<1>5. /\ Heard[step] \in 0 .. n - 1
      /\ Head(toModerator) = Message(AllReports[Heard[step] + 1], None)
  BY <1>1, <1>4, NextHeard
<1>6. step \in DOMAIN Expectations
  <2>1. step # "kWaitingConnections"
    <3>1. Ready \/ Calling \/ step # "kWaitingConnections"
      BY <1>1, Expected DEF Where, Instructed, Rejected, Playing, Played
    <3>2. Calling => n = 0 \/ step # "kWaitingConnections"
      BY <1>4 DEF Calling, Reported
    <3> QED
      BY <1>5, <3>1, <3>2 DEF Ready
  <2>2. Heard[step] # 4
    BY <1>5
  <2> QED
    BY <1>2, <2>1, <2>2, HeardBy, Expected DEF ModeratorSteps
<1> DEFINE next == Expectations[step][2]
<1>7. /\ step' = next /\ toRobot' = toRobot \o Reply(next) /\ UNCHANGED verdict
  <2>1. Head(toModerator).event = Expectations[step][1] /\ Head(toModerator).detail = None
    BY <1>5, <1>6, Expected DEF Message
  <2>2. step' = Expectations[step][2] /\ toRobot' = toRobot \o Reply(step') /\ verdict' = verdict
    BY <1>6, <2>1 DEF OnRobotMessage
  <2> QED
    BY <2>2
<1>8. Reported(n)'
  BY <1>1, <1>4, <1>6, <1>7, Expected, NextHeard
<1>9. step # "kFinish" /\ verdict' = verdict /\ verdict # "passed"
  BY <1>1, <1>6, <1>7, Expected
<1>10. TypeOK /\ toRobot' \in Seq(ToRobot)
  BY <1>1, <1>3 DEF TypeOK
<1>11. /\ next = "kWaitingRoomReached" <=> step = "kWaitingIAmReady"
       /\ next = "kSendMissionComplete" <=> step = "kWaitingTaskFinished"
       /\ next # "kWaitingIAmReady"
       /\ step # "kWaitingTaskFinished" => next \in DOMAIN Expectations
  BY <1>6, Expected
<1> HIDE DEF next
<1>12. step \notin {"kWaitingIAmReady", "kWaitingTaskFinished"} => toRobot' = toRobot
  <2> SUFFICES ASSUME step \notin {"kWaitingIAmReady", "kWaitingTaskFinished"}
               PROVE  toRobot' = toRobot
    OBVIOUS
  <2>1. Reply(next) = <<>>
    BY <1>1, <1>11, ReplyTypes
  <2> QED
    BY <1>2, <1>7, <2>1
<1>13. NoOtherLayout
  <2>1. PICK m : /\ m.event # "Environment"
                 /\ toRobot' = toRobot \/ toRobot' = Append(toRobot, m)
    <3>1. CASE step = "kWaitingIAmReady"
      <4>1. toRobot' = toRobot \o <<Message("Instruction", script.text)>>
        BY <1>1, <1>7, <1>11, <3>1, ReplyTypes
      <4>2. toRobot' = Append(toRobot, Message("Instruction", script.text))
        BY <1>2, <4>1
      <4>3. Message("Instruction", script.text).event # "Environment"
        BY DEF Message
      <4> QED
        BY <4>2, <4>3
    <3>2. CASE step = "kWaitingTaskFinished"
      <4>1. toRobot' = toRobot \o <<Message("Task_succeeded", None)>>
        BY <1>1, <1>7, <1>11, <3>2, ReplyTypes
      <4>2. toRobot' = Append(toRobot, Message("Task_succeeded", None))
        BY <1>2, <4>1
      <4>3. Message("Task_succeeded", None).event # "Environment"
        BY DEF Message
      <4> QED
        BY <4>2, <4>3
    <3>3. Message("Task_succeeded", None).event # "Environment"
      BY DEF Message
    <3> QED
      BY <1>12, <3>1, <3>2, <3>3
  <2> SUFFICES ASSUME NEW i \in 1 .. Len(toRobot'), toRobot'[i].event = "Environment"
               PROVE  \E k \in 1 .. Len(toRobot) : toRobot'[i] = toRobot[k]
    BY DEF NoOtherLayout
  <2>2. i \in 1 .. Len(toRobot) /\ toRobot'[i] = toRobot[i]
    BY <1>2, <2>1
  <2> QED
    BY <2>2
<1>14. LayoutIsKnown' /\ TaskFitsLayout'
  <2>1. UNCHANGED <<loaded, task>> /\ state' = state
    BY <1>1
  <2> QED
    BY <1>13, <2>1, LayoutKept
<1>15. Where'
  <2>1. ~Calling
    BY <1>4, <1>5 DEF Calling, Reported
  <2>2. ~Instructed /\ ~Rejected
    <3>1. ~(step = "kWaitingRoomReached" /\ Reported(1))
      BY <1>2, HeardBy DEF Reported
    <3> QED
      BY <3>1 DEF Instructed, Rejected
  <2>3. CASE Ready
    <3>1. /\ "to_moderator" \in matched' /\ n = 1 /\ step = "kWaitingIAmReady"
          /\ state' = "kWaitingInstruction" /\ simulation' = 0 /\ Handshakes(toRobot)
      BY <1>1, <1>4, <2>3 DEF Ready, Reported
    <3>2. toRobot' = toRobot \o <<Message("Instruction", script.text)>>
      BY <1>1, <1>7, <1>11, <3>1, ReplyTypes
    <3>3. toRobot' = Append(toRobot, Message("Instruction", script.text))
      BY <1>2, <3>2
    <3>4. /\ Len(toRobot') = Len(toRobot) + 1 /\ toRobot' # <<>>
          /\ toRobot'[Len(toRobot')].event = "Instruction"
          /\ \A i \in 1 .. Len(toRobot) : toRobot'[i] = toRobot[i]
      BY <1>2, <3>3 DEF Message
    <3>5. \A i \in 1 .. Len(toRobot') - 1 : toRobot'[i].event \in {"Environment", "Are_you_ready"}
      BY <1>2, <3>1, <3>4 DEF Handshakes
    <3>6. Handshakes(SubSeq(toRobot', 1, Len(toRobot') - 1))
      BY <1>10, <3>4, <3>5, EarlierHandshakes
    <3>7. step' = "kWaitingRoomReached" /\ Reported(1)'
      BY <1>7, <1>8, <1>11, <3>1
    <3> QED
      BY <3>1, <3>4, <3>6, <3>7 DEF Where, Instructed
  <2>4. CASE Playing
    <3>1. PICK i \in 1 .. 9 : i = simulation
      <4>1. simulation \in 0 .. 9 /\ simulation # 0
        BY <1>1, <2>4, ResultMoves DEF TypeOK, Playing
      <4> QED
        BY <4>1
    <3>2. Reported(ReportsBefore(i)) /\ ReportsBefore(i) \in 1 .. 3
      BY <2>4, <3>1, ReportsCounted DEF Playing
    <3>3. n = ReportsBefore(i)
      BY <1>4, <3>2 DEF Reported
    <3>4. step \notin {"kWaitingIAmReady", "kWaitingTaskFinished"}
      BY <1>5, <2>4, <3>2, <3>3, HeardBy DEF Playing
    <3>5. toRobot' = <<>> /\ step' \in DOMAIN Expectations \ {"kWaitingIAmReady"}
      BY <1>7, <1>11, <1>12, <2>4, <3>4 DEF Playing
    <3>6. /\ simulation' = simulation /\ state' = PlayedIn[simulation'] /\ "to_moderator" \in matched'
          /\ simulation' # 0 /\ Reported(ReportsBefore(simulation))'
      <4>1. Reported(ReportsBefore(i))'
        BY <1>8, <3>3
      <4> QED
        BY <1>1, <2>4, <3>1, <4>1 DEF Playing
    <3> QED
      BY <3>5, <3>6 DEF Where, Playing
  <2>5. CASE Played
    <3>1. /\ state' = "kWaitingModeratorResult" /\ simulation' = 0 /\ toRobot = <<>>
          /\ step # "kWaitingIAmReady" /\ n = 4
      BY <1>1, <1>4, <1>6, <2>5, Expected, LastWords DEF Played, Reported
    <3>2. CASE step = "kWaitingTaskFinished"
      <4>1. toRobot' = <<>> \o <<Message("Task_succeeded", None)>>
        BY <1>1, <1>7, <1>11, <3>1, <3>2, ReplyTypes
      <4>2. Len(toRobot') = 1 /\ toRobot'[1].event = "Task_succeeded"
        BY <4>1 DEF Message
      <4>3. ToRobotAre(<<"Task_succeeded">>)'
        BY <4>2 DEF ToRobotAre
      <4> QED
        BY <1>7, <1>8, <1>11, <3>1, <3>2, <4>3 DEF Where, Played
    <3>3. CASE step # "kWaitingTaskFinished"
      <4>1. ToRobotAre(<<>>)'
        BY <1>12, <3>1, <3>3 DEF ToRobotAre
      <4>2. step' \in DOMAIN Expectations \ {"kWaitingIAmReady"}
        BY <1>7, <1>11, <3>3
      <4> QED
        BY <1>8, <3>1, <4>1, <4>2 DEF Where, Played
    <3> QED
      BY <3>2, <3>3
  <2> QED
    BY <1>1, <2>1, <2>2, <2>3, <2>4, <2>5 DEF Where
<1> QED
  BY <1>1, <1>3, <1>9, <1>14, <1>15 DEF RoundInv, Where

\* The end of the time or of the process, and discovery.
LEMMA NothingSaid ==
  ASSUME RoundInv, TimeOut \/ Exit \/ \E topic \in Topics : Discover(topic)
  PROVE  RoundInv'
<1> USE DEF loaded, coordinator, moderator, channels
<1>1. /\ TypeOK /\ Where
      /\ UNCHANGED <<loaded, task, state, simulation, step, sent, toModerator, toRobot>>
      /\ matched \subseteq matched' /\ (verdict' = verdict \/ verdict' = "timed out")
      /\ verdict # "unexpected" /\ (verdict = "passed" => step = "kFinish")
  BY DEF RoundInv, Where, TimeOut, Exit, Discover
<1>2. TypeOK'
  BY ModeratorKeepsTypes DEF RoundInv
<1>3. LayoutIsKnown' /\ TaskFitsLayout'
  <2>1. UNCHANGED <<loaded, task>> /\ state' = state
    BY <1>1
  <2>2. NoOtherLayout
    BY <1>1 DEF NoOtherLayout
  <2> QED
    BY <2>1, <2>2, LayoutKept
<1>4. Where'
  <2>1. Calling => Calling'
    BY <1>1 DEF Calling, Reported
  <2>2. Ready => Ready'
    BY <1>1 DEF Ready, Reported
  <2>3. Instructed => Instructed'
    BY <1>1 DEF Instructed, Reported
  <2>4. Rejected => Rejected'
    BY <1>1 DEF Rejected, Reported
  <2>5. Playing => Playing'
    BY <1>1 DEF Playing, Reported
  <2>6. Played => Played'
    BY <1>1 DEF Played, Reported, ToRobotAre
  <2> QED
    BY <1>1, <2>1, <2>2, <2>3, <2>4, <2>5, <2>6 DEF Where
<1> QED
  BY <1>1, <1>2, <1>3, <1>4 DEF RoundInv, Where

-----------------------------------------------------------------------------
(* Theorems.                                                               *)

LEMMA RoundBegins == Init => RoundInv
<1> SUFFICES ASSUME Init PROVE RoundInv
  OBVIOUS
<1>1. TypeOK
  BY InitTypes
<1>2. /\ state = "kWaitingReady" /\ simulation = 0 /\ step = "kWaitingConnections" /\ verdict = "none"
      /\ toRobot = <<>> /\ toModerator = <<>> /\ sent = <<>> /\ task = NoTask
  BY DEF Init, After, Enabled, Step
<1>3. Reported(0)
  BY <1>2, HeardBy DEF Reported
<1>4. Calling
  BY <1>2, <1>3 DEF Calling, Handshakes
<1>5. PICK files : catalog = LoadCatalog(files)
  BY DEF Init
<1>6. \A name \in DOMAIN catalog : EnvironmentValid(catalog[name])
  BY <1>5, CatalogLoaded
<1>7. task.environment = None
  BY <1>2 DEF NoTask
<1>8. LayoutIsKnown
  BY <1>2, <1>6, <1>7 DEF LayoutIsKnown
<1>9. TaskFitsLayout
  BY <1>2 DEF TaskFitsLayout, AtWork
<1> QED
  BY <1>1, <1>2, <1>4, <1>8, <1>9 DEF RoundInv

LEMMA RoundGoesOn == RoundInv /\ [Next]_vars => RoundInv'
<1> SUFFICES ASSUME RoundInv, [Next]_vars PROVE RoundInv'
  OBVIOUS
<1>1. CASE OnAnyMessage
  BY <1>1, EnvironmentTaken, ReadyTaken, InstructionTaken, LastWordsTaken DEF OnAnyMessage
<1>2. CASE RunSimulationStep
  BY <1>2, ResultPlayed
<1>3. CASE Tick
  BY <1>3, Called, Farewell DEF Tick
<1>4. CASE OnRobotMessage
  BY <1>4, ReportTaken
<1>5. CASE TimeOut \/ Exit \/ \E topic \in Topics : Discover(topic)
  BY <1>5, NothingSaid
<1>6. CASE UNCHANGED vars
  BY <1>6 DEF RoundInv, TypeOK, LayoutIsKnown, TaskFitsLayout, AtWork, Layout, Calling, Ready,
     Instructed, Rejected, Playing, Played, Reported, ToRobotAre, vars, loaded, coordinator,
     moderator, channels
<1> QED
  BY <1>1, <1>2, <1>3, <1>4, <1>5, <1>6 DEF Next

\* Every variable of the two nodes and of their topics keeps its type, whatever is lost
\* before discovery.
THEOREM RoundTypes == Spec => []TypeOK
<1>1. RoundInv => TypeOK
  BY DEF RoundInv
<1> QED
  BY <1>1, RoundBegins, RoundGoesOn, PTL DEF Spec

\* The instruction that parseCurrentInstruction accepted fits the layout the moderator
\* announced, to the end of the task: its rooms and destination exist there, and the
\* object is brought to a room the destination stands in.
THEOREM TaskFits == Spec => []TaskFitsLayout
<1>1. RoundInv => TaskFitsLayout
  BY DEF RoundInv
<1> QED
  BY <1>1, RoundBegins, RoundGoesOn, PTL DEF Spec

\* The moderator never hears a report out of turn, and passes a round only when the
\* coordinator has sent every report, in order and once, and has reached the end of
\* the task.
THEOREM VerdictTrue == Spec => []VerdictIsTrue
<1>1. RoundInv => VerdictIsTrue
  <2> SUFFICES ASSUME RoundInv, verdict = "passed"
               PROVE  /\ [i \in DOMAIN sent |-> sent[i].event] = AllReports
                      /\ state \in {"kWaitingModeratorResult", "kWaitingReady", "kFinished"}
    BY DEF RoundInv, VerdictIsTrue
  <2>1. TypeOK /\ Where /\ step = "kFinish"
    BY DEF RoundInv, Where
  <2>2. Played
    BY <2>1, Expected DEF Where, Calling, Ready, Instructed, Rejected, Playing
  <2>3. /\ sent \in Seq([event : Outgoing, delivered : BOOLEAN]) /\ Len(sent) = 4
        /\ \A i \in 1 .. 4 : sent[i] = [event |-> AllReports[i], delivered |-> TRUE]
    BY <2>1, <2>2 DEF TypeOK, Played, Reported
  <2>4. DOMAIN sent = 1 .. 4 /\ \A i \in 1 .. 4 : sent[i].event = AllReports[i]
    BY <2>3
  <2>5. [i \in DOMAIN sent |-> sent[i].event] = [i \in 1 .. 4 |-> AllReports[i]]
    BY <2>4
  <2> QED
    BY <2>2, <2>5, ReportNames DEF Played
<1> QED
  BY <1>1, RoundBegins, RoundGoesOn, PTL DEF Spec
-----------------------------------------------------------------------------
(* Arrangements: what Arranged makes of finitely many places.              *)

\* A set of naturals has a least element.
LEMMA LeastNatural ==
  ASSUME NEW T \in SUBSET Nat, T # {}
  PROVE  \E m \in T : \A n \in T : m <= n
<1> DEFINE R == OpToRel(<, Nat)
<1>1. \E x \in T : \A y \in T : ~ (<<y, x>> \in R)
  BY NatLessThanWellFounded, WFMin
<1>2. \A x, y \in Nat : <<y, x>> \in R <=> y < x
  BY DEF OpToRel
<1> HIDE DEF R
<1>3. PICK x \in T : \A y \in T : ~ (<<y, x>> \in R)
  BY <1>1
<1>4. ASSUME NEW y \in T PROVE x <= y
  <2>1. x \in Nat /\ y \in Nat
    OBVIOUS
  <2>2. ~ (y < x)
    BY <1>2, <1>3, <2>1
  <2> QED
    BY <2>1, <2>2
<1> QED
  BY <1>4

\* A strict total order of some places.
Orders(R, U) ==
  /\ \A x \in U : <<x, x>> \notin R
  /\ \A x, y \in U : x # y => <<x, y>> \in R \/ <<y, x>> \in R
  /\ \A x, y, z \in U : <<x, y>> \in R /\ <<y, z>> \in R => <<x, z>> \in R

HasLast(S, R) == \E m \in S : \A x \in S : x # m => <<x, m>> \in R

\* Every finite set of places but the empty one has a last.
LEMMA LastExists ==
  ASSUME NEW U, IsFiniteSet(U), NEW R, Orders(R, U), NEW S \in SUBSET U, S # {}
  PROVE  HasLast(S, R)
<1> DEFINE bad == {n \in Nat : \E T \in SUBSET U : Cardinality(T) = n /\ T # {} /\ ~HasLast(T, R)}
<1>1. SUFFICES ASSUME bad # {} PROVE FALSE
  <2>1. Cardinality(S) \in Nat
    BY FS_Subset, FS_CardinalityType
  <2> QED
    BY <2>1
<1>2. PICK n \in bad : \A k \in bad : n <= k
  <2>1. bad \in SUBSET Nat
    OBVIOUS
  <2> HIDE DEF bad
  <2> QED
    BY <1>1, <2>1, LeastNatural
<1>3. PICK T \in SUBSET U : Cardinality(T) = n /\ T # {} /\ ~HasLast(T, R)
  BY <1>2
<1>4. PICK x \in T : TRUE
  BY <1>3
<1>5. /\ IsFiniteSet(T \ {x}) /\ Cardinality(T \ {x}) = n - 1 /\ T \ {x} \in SUBSET U
  <2>1. IsFiniteSet(T)
    BY FS_Subset
  <2> QED
    BY <1>3, <1>4, <2>1, FS_RemoveElement
<1>6. n \in Nat /\ n - 1 \in Nat
  <2>1. n \in Nat
    BY <1>2
  <2>2. Cardinality(T \ {x}) \in Nat
    BY <1>5, FS_CardinalityType
  <2> QED
    BY <1>5, <2>1, <2>2
<1>7. n - 1 \notin bad
  <2> HIDE DEF bad
  <2> QED
    BY <1>2, <1>6
<1>8. T \ {x} = {} \/ HasLast(T \ {x}, R)
  BY <1>5, <1>6, <1>7
<1>9. CASE T \ {x} = {}
  <2>1. \A y \in T : y = x
    BY <1>9
  <2> QED
    BY <1>3, <1>4, <2>1 DEF HasLast
<1>10. CASE HasLast(T \ {x}, R)
  <2>1. PICK m \in T \ {x} : \A y \in T \ {x} : y # m => <<y, m>> \in R
    BY <1>10 DEF HasLast
  <2>2. CASE <<x, m>> \in R
    <3>1. \A y \in T : y # m => <<y, m>> \in R
      BY <2>1, <2>2
    <3> QED
      BY <1>3, <2>1, <3>1 DEF HasLast
  <2>3. CASE <<m, x>> \in R
    <3>1. \A y \in T : y # x => <<y, x>> \in R
      <4> SUFFICES ASSUME NEW y \in T, y # x PROVE <<y, x>> \in R
        OBVIOUS
      <4>1. y \in U /\ m \in U /\ x \in U
        OBVIOUS
      <4>2. CASE y = m
        BY <2>3, <4>2
      <4>3. CASE y # m
        <5>1. <<y, m>> \in R
          BY <2>1, <4>3
        <5> QED
          BY <2>3, <4>1, <5>1 DEF Orders
      <4> QED
        BY <4>2, <4>3
    <3> QED
      BY <1>3, <1>4, <3>1 DEF HasLast
  <2>4. m \in U /\ x \in U /\ x # m
    OBVIOUS
  <2> QED
    BY <2>2, <2>3, <2>4 DEF Orders
<1> QED
  BY <1>8, <1>9, <1>10

\* f lists the places of S in their order.
Enumerates(f, S, R) ==
  /\ f \in [1 .. Cardinality(S) -> S]
  /\ \A i, j \in DOMAIN f : i < j => <<f[i], f[j]>> \in R

\* The last place comes after all others.
LEMMA EnumerationExtended ==
  ASSUME NEW S, NEW R, NEW n \in Nat, NEW m \in S, \A x \in S : x # m => <<x, m>> \in R,
         Cardinality(S) = n + 1, Cardinality(S \ {m}) = n, NEW f, Enumerates(f, S \ {m}, R)
  PROVE  \E g : Enumerates(g, S, R)
<1> DEFINE g == [i \in 1 .. n + 1 |-> IF i = n + 1 THEN m ELSE f[i]]
<1>1. /\ DOMAIN f = 1 .. n /\ \A i \in 1 .. n : f[i] \in S \ {m}
      /\ \A i, j \in 1 .. n : i < j => <<f[i], f[j]>> \in R
  BY DEF Enumerates
<1>2. g \in [1 .. n + 1 -> S]
  BY <1>1
<1>3. ASSUME NEW i \in 1 .. n + 1, NEW j \in 1 .. n + 1, i < j PROVE <<g[i], g[j]>> \in R
  <2>1. i \in 1 .. n /\ g[i] = f[i]
    BY <1>3
  <2>2. CASE j = n + 1
    <3>1. g[j] = m
      BY <2>2
    <3>2. f[i] \in S /\ f[i] # m
      BY <1>1, <2>1
    <3> HIDE DEF g
    <3> QED
      BY <2>1, <3>1, <3>2
  <2>3. CASE j # n + 1
    <3>1. j \in 1 .. n /\ g[j] = f[j]
      BY <2>3
    <3> HIDE DEF g
    <3> QED
      BY <1>1, <1>3, <2>1, <3>1
  <2> QED
    BY <2>2, <2>3
<1>4. DOMAIN g = 1 .. n + 1
  OBVIOUS
<1> HIDE DEF g
<1> QED
  BY <1>2, <1>3, <1>4 DEF Enumerates

\* Finitely many places have a list in any strict total order.
LEMMA EnumerationExists ==
  ASSUME NEW U, IsFiniteSet(U), NEW R, Orders(R, U)
  PROVE  \E f : Enumerates(f, U, R)
<1> DEFINE bad == {n \in Nat : \E T \in SUBSET U : Cardinality(T) = n /\ ~\E f : Enumerates(f, T, R)}
<1>1. SUFFICES ASSUME bad # {} PROVE FALSE
  <2>1. Cardinality(U) \in Nat
    BY FS_CardinalityType
  <2> QED
    BY <2>1
<1>2. PICK n \in bad : \A k \in bad : n <= k
  <2>1. bad \in SUBSET Nat
    OBVIOUS
  <2> HIDE DEF bad
  <2> QED
    BY <1>1, <2>1, LeastNatural
<1>3. PICK T \in SUBSET U : Cardinality(T) = n /\ ~\E f : Enumerates(f, T, R)
  BY <1>2
<1>4. T # {}
  <2> SUFFICES ASSUME T = {} PROVE FALSE
    OBVIOUS
  <2>1. Cardinality(T) = 0
    BY FS_EmptySet
  <2>2. Enumerates([i \in {} |-> i], T, R)
    BY <2>1 DEF Enumerates
  <2> QED
    BY <1>3, <2>2
<1>5. PICK m \in T : \A x \in T : x # m => <<x, m>> \in R
  BY <1>4, LastExists DEF HasLast
<1>6. /\ Cardinality(T \ {m}) = n - 1 /\ n \in Nat /\ n - 1 \in Nat
  <2>1. IsFiniteSet(T)
    BY FS_Subset
  <2>2. IsFiniteSet(T \ {m}) /\ Cardinality(T \ {m}) = n - 1
    BY <1>3, <2>1, FS_RemoveElement
  <2>3. Cardinality(T \ {m}) \in Nat
    BY <2>2, FS_CardinalityType
  <2>4. n \in Nat
    BY <1>2
  <2> QED
    BY <2>2, <2>3, <2>4
<1>7. n - 1 \notin bad
  <2> HIDE DEF bad
  <2> QED
    BY <1>2, <1>6
<1>8. PICK f : Enumerates(f, T \ {m}, R)
  <2>1. T \ {m} \in SUBSET U
    OBVIOUS
  <2> QED
    BY <1>6, <1>7, <2>1
<1>9. \E g : Enumerates(g, T, R)
  <2>1. PICK k \in Nat : k = n - 1
    BY <1>6
  <2>2. Cardinality(T) = k + 1 /\ Cardinality(T \ {m}) = k
    BY <1>3, <1>6, <2>1
  <2> QED
    BY <1>5, <1>8, <2>2, EnumerationExtended
<1> QED
  BY <1>3, <1>9

\* A function on the first n numbers is a sequence.
LEMMA FunctionIsSeq ==
  ASSUME NEW S, NEW n \in Nat, NEW f \in [1 .. n -> S]
  PROVE  f \in Seq(S) /\ Len(f) = n /\ DOMAIN f = 1 .. n
<1>1. f \in Seq(S)
  BY SeqDef
<1>2. Len(f) \in Nat /\ DOMAIN f = 1 .. Len(f) /\ DOMAIN f = 1 .. n
  BY <1>1, LenProperties
<1> QED
  BY <1>1, <1>2

\* An enumeration leaves no place out.
LEMMA EnumerationCovers ==
  ASSUME NEW n \in Nat, NEW S, IsFiniteSet(S), Cardinality(S) = n, NEW R, Orders(R, S),
         NEW f \in [1 .. n -> S], \A i, j \in 1 .. n : i < j => <<f[i], f[j]>> \in R
  PROVE  \A i \in S : \E k \in 1 .. n : f[k] = i
<1>1. f \in Injection(1 .. n, S)
  <2> SUFFICES ASSUME NEW a \in 1 .. n, NEW b \in 1 .. n, f[a] = f[b] PROVE a = b
    BY DEF Injection, IsInjective
  <2>1. f[a] \in S /\ ~(a < b) /\ ~(b < a)
    BY DEF Orders
  <2> QED
    BY <2>1
<1>2. IsFiniteSet(1 .. n) /\ Cardinality(1 .. n) = Cardinality(S)
  BY FS_Interval
<1>3. f \in Surjection(1 .. n, S)
  BY <1>1, <1>2, FS_Injection
<1> QED
  BY <1>3 DEF Surjection

\* The k-th place of an enumeration comes after k - 1 others.
LEMMA HowManyBefore ==
  ASSUME NEW n \in Nat, NEW S, IsFiniteSet(S), NEW R, Orders(R, S),
         NEW f \in [1 .. n -> S], \A i, j \in 1 .. n : i < j => <<f[i], f[j]>> \in R,
         \A i \in S : \E k \in 1 .. n : f[k] = i, NEW k \in 1 .. n
  PROVE  Cardinality({j \in S : <<j, f[k]>> \in R}) = k - 1
<1> DEFINE T == {j \in S : <<j, f[k]>> \in R}
           g == [i \in 1 .. k - 1 |-> f[i]]
<1>1. k - 1 \in Nat /\ \A i \in 1 .. k - 1 : i \in 1 .. n /\ i < k
  OBVIOUS
<1>2. IsFiniteSet(T)
  BY FS_Subset
<1>3. g \in [1 .. k - 1 -> T]
  BY <1>1
<1>4. \A i \in 1 .. k - 1 : g[i] = f[i]
  OBVIOUS
<1>5. \A a, b \in 1 .. n : f[a] = f[b] => a = b
  <2> SUFFICES ASSUME NEW a \in 1 .. n, NEW b \in 1 .. n, f[a] = f[b] PROVE a = b
    OBVIOUS
  <2>1. f[a] \in S /\ ~(a < b) /\ ~(b < a)
    BY DEF Orders
  <2> QED
    BY <2>1
<1>6. \A i \in T : \E l \in 1 .. k - 1 : g[l] = i
  <2> SUFFICES ASSUME NEW i \in T PROVE \E l \in 1 .. k - 1 : g[l] = i
    OBVIOUS
  <2>1. PICK l \in 1 .. n : f[l] = i
    OBVIOUS
  <2>2. <<f[l], f[k]>> \in R /\ f[l] \in S /\ f[k] \in S
    BY <2>1
  <2>3. l # k
    BY <2>2 DEF Orders
  <2>4. ~(k < l)
    <3> SUFFICES ASSUME k < l PROVE FALSE
      OBVIOUS
    <3>1. <<f[k], f[l]>> \in R
      OBVIOUS
    <3>2. <<f[k], f[k]>> \in R
      BY <2>2, <3>1 DEF Orders
    <3> QED
      BY <2>2, <3>2 DEF Orders
  <2>5. l \in 1 .. k - 1
    BY <2>3, <2>4
  <2> QED
    BY <1>4, <2>1, <2>5
<1> HIDE DEF T, g
<1>7. g \in Injection(1 .. k - 1, T)
  BY <1>1, <1>3, <1>4, <1>5 DEF Injection, IsInjective
<1>8. g \in Surjection(1 .. k - 1, T)
  BY <1>3, <1>6 DEF Surjection
<1>9. IsFiniteSet(1 .. k - 1) /\ Cardinality(1 .. k - 1) = k - 1
  BY <1>1, FS_Interval
<1>10. Cardinality(1 .. k - 1) = Cardinality(T)
  BY <1>2, <1>7, <1>8, FS_Injection
<1> QED
  BY <1>9, <1>10 DEF T

\* a has the element at every place, once.
Arranges(a, seq, S) ==
  LET n == Cardinality(S)
  IN  /\ n \in Nat /\ Len(a) = n /\ DOMAIN a = 1 .. n
      /\ \A k \in 1 .. n : \E i \in S : a[k] = seq[i]
      /\ \A i \in S : \E k \in 1 .. n : a[k] = seq[i]
      /\ (a = <<>> <=> S = {}) /\ (n = 0 <=> S = {})

LEMMA Arrangement ==
  ASSUME NEW seq, NEW S, IsFiniteSet(S), NEW R, Orders(R, S)
  PROVE  Arranges(Arranged(seq, S, R), seq, S)
<1> DEFINE n == Cardinality(S)
           before(i) == {j \in S : <<j, i>> \in R}
           place(k) == CHOOSE i \in S : Cardinality(before(i)) = k - 1
<1>1. n \in Nat
  BY FS_CardinalityType
<1>2. PICK f \in [1 .. n -> S] : \A i, j \in 1 .. n : i < j => <<f[i], f[j]>> \in R
  <2>1. PICK g : Enumerates(g, S, R)
    BY EnumerationExists
  <2>2. g \in [1 .. n -> S] /\ \A i, j \in 1 .. n : i < j => <<g[i], g[j]>> \in R
    BY <2>1 DEF Enumerates
  <2> QED
    BY <2>2
<1>3. \A k \in 1 .. n : f[k] \in S
  BY <1>2
<1> HIDE DEF n
<1>4. \A i \in S : \E k \in 1 .. n : f[k] = i
  <2>1. Cardinality(S) = n
    BY DEF n
  <2> QED
    BY <1>1, <1>2, <2>1, EnumerationCovers
<1>5. ASSUME NEW k \in 1 .. n PROVE Cardinality(before(f[k])) = k - 1
  BY <1>1, <1>2, <1>4, <1>5, HowManyBefore
<1> HIDE DEF before
<1>6. ASSUME NEW k \in 1 .. n PROVE place(k) = f[k]
  <2>1. place(k) \in S /\ Cardinality(before(place(k))) = k - 1
    BY <1>3, <1>5
  <2> HIDE DEF place
  <2>2. PICK l \in 1 .. n : f[l] = place(k)
    BY <1>4, <2>1
  <2>3. Cardinality(before(f[l])) = l - 1
    BY <1>5
  <2> QED
    BY <1>1, <2>1, <2>2, <2>3
<1> DEFINE a == [k \in 1 .. n |-> seq[f[k]]]
<1>7. Arranged(seq, S, R) = a
  <2>1. Arranged(seq, S, R) = [k \in 1 .. n |-> seq[place(k)]]
    BY DEF Arranged, before, n
  <2> QED
    BY <1>6, <2>1
<1>8. a \in Seq({seq[i] : i \in S}) /\ Len(a) = n
  <2>1. a \in [1 .. n -> {seq[i] : i \in S}]
    BY <1>3
  <2> HIDE DEF a
  <2> QED
    BY <1>1, <2>1, FunctionIsSeq
<1>9. DOMAIN a = 1 .. n /\ \A k \in 1 .. n : a[k] = seq[f[k]]
  OBVIOUS
<1> HIDE DEF a
<1>10. a = <<>> <=> n = 0
  BY <1>1, <1>8, EmptySeq
<1>11. n = 0 <=> S = {}
  BY FS_EmptySet DEF n
<1>12. n = Cardinality(S)
  BY DEF n
<1>13. Arranges(a, seq, S)
  BY <1>1, <1>3, <1>4, <1>8, <1>9, <1>10, <1>11, <1>12 DEF Arranges
<1> QED
  BY <1>7, <1>13

\* Places of a list in their order, and by a key.
LEMMA PlacesOrder ==
  ASSUME NEW S \in SUBSET Nat
  PROVE  Orders({p \in S \X S : p[1] < p[2]}, S)
BY DEF Orders

LEMMA KeyOrder ==
  ASSUME NEW S \in SUBSET Nat, NEW key \in [S -> Int]
  PROVE  Orders({p \in S \X S : \/ key[p[1]] < key[p[2]]
                                \/ key[p[1]] = key[p[2]] /\ p[1] < p[2]}, S)
<1> DEFINE R == {p \in S \X S : \/ key[p[1]] < key[p[2]]
                                \/ key[p[1]] = key[p[2]] /\ p[1] < p[2]}
<1>1. \A x, y \in S : <<x, y>> \in R <=> key[x] < key[y] \/ (key[x] = key[y] /\ x < y)
  OBVIOUS
<1>2. \A x \in S : x \in Nat /\ key[x] \in Int
  OBVIOUS
<1> HIDE DEF R
<1>3. \A x \in S : <<x, x>> \notin R
  BY <1>1, <1>2
<1>4. \A x, y \in S : x # y => <<x, y>> \in R \/ <<y, x>> \in R
  BY <1>1, <1>2
<1>5. \A x, y, z \in S : <<x, y>> \in R /\ <<y, z>> \in R => <<x, z>> \in R
  BY <1>1, <1>2
<1> QED
  BY <1>3, <1>4, <1>5 DEF Orders

\* Places of a sequence are finitely many naturals.
LEMMA PlacesFinite ==
  ASSUME NEW n \in Nat, NEW S \in SUBSET (1 .. n)
  PROVE  IsFiniteSet(S) /\ S \in SUBSET Nat
<1>1. IsFiniteSet(1 .. n) /\ 1 .. n \in SUBSET Nat
  BY FS_Interval
<1> QED
  BY <1>1, FS_Subset

\* Chosen leaves the elements at the given places.
LEMMA ChosenHas ==
  ASSUME NEW n \in Nat, NEW seq, NEW S \in SUBSET (1 .. n)
  PROVE  Arranges(Chosen(seq, S), seq, S)
<1> DEFINE R == {p \in S \X S : p[1] < p[2]}
<1>1. IsFiniteSet(S) /\ Orders(R, S)
  BY PlacesFinite, PlacesOrder
<1>2. Chosen(seq, S) = Arranged(seq, S, R)
  BY DEF Chosen
<1> HIDE DEF R
<1> QED
  BY <1>1, <1>2, Arrangement

-----------------------------------------------------------------------------
(* Candidates.                                                             *)

\* A candidate for the pose at a place of a list.
Stands(c, room, pose, i) ==
  /\ DOMAIN c = {"x", "y", "room", "source_index", "route"}
  /\ c.x = pose.x /\ c.y = pose.y /\ c.room = room /\ c.source_index = i

\* The candidates are for the poses at some places of a list, and for all of them.
Covers(candidates, room, list, places) ==
  /\ Len(candidates) \in Nat \ {0} /\ DOMAIN candidates = 1 .. Len(candidates)
  /\ \A k \in 1 .. Len(candidates) : \E i \in places : Stands(candidates[k], room, list[i], i)
  /\ \A i \in places : \E k \in 1 .. Len(candidates) : Stands(candidates[k], room, list[i], i)

LEMMA CandidateStands ==
  ASSUME NEW pose, NEW room, NEW i
  PROVE  Stands(Candidate(pose, room, i), room, pose, i)
BY DEF Stands, Candidate

\* Only the route of a candidate is set.
LEMMA RouteGiven ==
  ASSUME NEW c, NEW room, NEW pose, NEW i, Stands(c, room, pose, i), NEW w
  PROVE  Stands([c EXCEPT !.route = w], room, pose, i) /\ [c EXCEPT !.route = w].route = w
BY DEF Stands

\* Sorting leaves all the candidates.
LEMMA OrderedCovers ==
  ASSUME NEW candidates, NEW room, NEW list, NEW places, Covers(candidates, room, list, places),
         \A i \in places : list[i].x \in Int /\ list[i].y \in Int,
         NEW robot, robot = None \/ (robot.x \in Int /\ robot.y \in Int)
  PROVE  Covers(OrderByDistance(candidates, robot), room, list, places)
<1> DEFINE n == Len(candidates)
           d2(c) == (c.x - robot.x) * (c.x - robot.x) + (c.y - robot.y) * (c.y - robot.y)
           key == [i \in 1 .. n |-> d2(candidates[i])]
           nearer == {p \in (1 .. n) \X (1 .. n) :
                        \/ d2(candidates[p[1]]) < d2(candidates[p[2]])
                        \/ d2(candidates[p[1]]) = d2(candidates[p[2]]) /\ p[1] < p[2]}
           a == Arranged(candidates, 1 .. n, nearer)
<1>1. n \in Nat \ {0} /\ DOMAIN candidates = 1 .. n
  BY DEF Covers
<1>2. CASE robot = None
  BY <1>2 DEF OrderByDistance
<1>3. CASE robot # None
  <2>1. \A k \in 1 .. n : candidates[k].x \in Int /\ candidates[k].y \in Int
    <3> SUFFICES ASSUME NEW k \in 1 .. n PROVE candidates[k].x \in Int /\ candidates[k].y \in Int
      OBVIOUS
    <3>1. PICK i \in places : Stands(candidates[k], room, list[i], i)
      BY DEF Covers
    <3> QED
      BY <3>1 DEF Stands
  <2>2. \A k \in 1 .. n : d2(candidates[k]) \in Int
    BY <1>3, <2>1
  <2> HIDE DEF d2
  <2>3. key \in [1 .. n -> Int]
    BY <2>2
  <2>4. nearer = {p \in (1 .. n) \X (1 .. n) : \/ key[p[1]] < key[p[2]]
                                               \/ key[p[1]] = key[p[2]] /\ p[1] < p[2]}
    OBVIOUS
  <2> HIDE DEF key, n
  <2>5. IsFiniteSet(1 .. n) /\ Cardinality(1 .. n) = n /\ 1 .. n \in SUBSET Nat
    BY <1>1, FS_Interval
  <2>6. Orders(nearer, 1 .. n)
    BY <2>3, <2>4, <2>5, KeyOrder
  <2> HIDE DEF nearer
  <2>7. Arranges(a, candidates, 1 .. n)
    BY <2>5, <2>6, Arrangement
  <2>8. /\ Len(a) = n /\ DOMAIN a = 1 .. n
        /\ \A k \in 1 .. n : \E i \in 1 .. n : a[k] = candidates[i]
        /\ \A i \in 1 .. n : \E k \in 1 .. n : a[k] = candidates[i]
    BY <2>5, <2>7 DEF Arranges
  <2>9. OrderByDistance(candidates, robot) = a
    BY <1>1, <1>3 DEF OrderByDistance, nearer, d2
  <2> HIDE DEF a
  <2> USE DEF n
  <2>10. \A k \in 1 .. n : \E i \in places : Stands(a[k], room, list[i], i)
    <3> SUFFICES ASSUME NEW k \in 1 .. n PROVE \E i \in places : Stands(a[k], room, list[i], i)
      OBVIOUS
    <3>1. PICK j \in 1 .. n : a[k] = candidates[j]
      BY <2>8
    <3> QED
      BY <3>1 DEF Covers
  <2>11. \A i \in places : \E k \in 1 .. n : Stands(a[k], room, list[i], i)
    <3> SUFFICES ASSUME NEW i \in places PROVE \E k \in 1 .. n : Stands(a[k], room, list[i], i)
      OBVIOUS
    <3>1. PICK j \in 1 .. n : Stands(candidates[j], room, list[i], i)
      BY DEF Covers
    <3>2. PICK k \in 1 .. n : a[k] = candidates[j]
      BY <2>8
    <3> QED
      BY <3>1, <3>2
  <2> QED
    BY <1>1, <2>8, <2>9, <2>10, <2>11 DEF Covers
<1> QED
  BY <1>2, <1>3

\* Row and column of a number in a grid, and the first number of a row.
LEMMA GridCell ==
  ASSUME NEW n \in Nat \ {0}, NEW m \in Nat \ {0}, NEW k \in 1 .. n * m
  PROVE  ((k - 1) \div m) + 1 \in 1 .. n /\ ((k - 1) % m) + 1 \in 1 .. m
<1> DEFINE q == (k - 1) \div m
           r == (k - 1) % m
<1>1. n * m \in Nat /\ k - 1 \in Nat /\ k - 1 < n * m
  OBVIOUS
<1>2. q \in Int /\ r \in 0 .. m - 1 /\ k - 1 = m * q + r
  BY <1>1
<1> HIDE DEF q, r
<1>3. q >= 0
  <2> SUFFICES ASSUME q <= -1 PROVE FALSE
    BY <1>2
  <2>1. m * q <= m * (-1)
    BY <1>2
  <2> QED
    BY <1>1, <1>2, <2>1
<1>4. q <= n - 1
  <2> SUFFICES ASSUME q >= n PROVE FALSE
    BY <1>2
  <2>1. m * q >= m * n
    BY <1>2
  <2>2. m * n = n * m
    OBVIOUS
  <2> QED
    BY <1>1, <1>2, <2>1, <2>2
<1>5. q + 1 \in 1 .. n /\ r + 1 \in 1 .. m
  BY <1>2, <1>3, <1>4
<1> QED
  BY <1>5 DEF q, r

LEMMA GridRow ==
  ASSUME NEW n \in Nat \ {0}, NEW m \in Nat \ {0}, NEW i \in 1 .. n
  PROVE  \E k \in 1 .. n * m : ((k - 1) \div m) + 1 = i
<1> DEFINE j == i - 1
           k == m * j + 1
<1>1. j \in Nat /\ j <= n - 1 /\ j + 1 = i
  OBVIOUS
<1> HIDE DEF j
<1>2. m * j \in Nat /\ m * j <= m * (n - 1)
  BY <1>1
<1>3. m * (n - 1) = n * m - m
  OBVIOUS
<1>4. k \in 1 .. n * m
  BY <1>2, <1>3
<1>5. (m * j) \div m = j
  BY <1>1
<1>6. k - 1 = m * j
  BY <1>2
<1> HIDE DEF k
<1> QED
  BY <1>1, <1>4, <1>5, <1>6

\* Every doorway is tried for every pose.
LEMMA ExpandedCovers ==
  ASSUME NEW candidates, NEW room, NEW list, NEW places, Covers(candidates, room, list, places),
         NEW routes, Len(routes) \in Nat \ {0}
  PROVE  LET e == ExpandRouteCandidates(candidates, routes)
         IN  /\ Covers(e, room, list, places)
             /\ \A k \in 1 .. Len(e) : \E j \in 1 .. Len(routes) : e[k].route = routes[j].waypoints
<1> DEFINE n == Len(candidates)
           m == Len(routes)
           row(k) == ((k - 1) \div m) + 1
           way(k) == routes[((k - 1) % m) + 1].waypoints
           e == [k \in 1 .. n * m |-> [candidates[row(k)] EXCEPT !.route = way(k)]]
<1>1. n \in Nat \ {0} /\ m \in Nat \ {0}
  BY DEF Covers
<1>2. ExpandRouteCandidates(candidates, routes) = e
  BY DEF ExpandRouteCandidates
<1>3. n * m \in Nat \ {0}
  <2> HIDE DEF n, m
  <2> QED
    BY <1>1
<1>4. DOMAIN e = 1 .. n * m /\ Len(e) = n * m
  <2> DEFINE all == {[candidates[row(k)] EXCEPT !.route = way(k)] : k \in 1 .. n * m}
  <2>1. e \in [1 .. n * m -> all]
    OBVIOUS
  <2> HIDE DEF e, all, n, m
  <2>2. PICK t \in Nat : t = n * m
    BY <1>3
  <2>3. e \in [1 .. t -> all]
    BY <2>1, <2>2
  <2> QED
    BY <2>2, <2>3, FunctionIsSeq
<1>5. \A k \in 1 .. n * m : e[k] = [candidates[row(k)] EXCEPT !.route = way(k)]
  OBVIOUS
<1> HIDE DEF e
<1>6. ASSUME NEW k \in 1 .. n * m
      PROVE  /\ row(k) \in 1 .. n /\ \E j \in 1 .. m : way(k) = routes[j].waypoints
             /\ \A i : Stands(candidates[row(k)], room, list[i], i) =>
                         Stands(e[k], room, list[i], i) /\ e[k].route = way(k)
  <2>1. row(k) \in 1 .. n /\ ((k - 1) % m) + 1 \in 1 .. m
    <3> HIDE DEF n, m
    <3> QED
      BY <1>1, GridCell
  <2>2. \E j \in 1 .. m : way(k) = routes[j].waypoints
    BY <2>1
  <2> HIDE DEF row, way, n, m
  <2>3. e[k] = [candidates[row(k)] EXCEPT !.route = way(k)]
    BY <1>5
  <2>4. ASSUME NEW i, Stands(candidates[row(k)], room, list[i], i)
        PROVE  Stands(e[k], room, list[i], i) /\ e[k].route = way(k)
    <3>1. /\ Stands([candidates[row(k)] EXCEPT !.route = way(k)], room, list[i], i)
          /\ [candidates[row(k)] EXCEPT !.route = way(k)].route = way(k)
      BY <2>4, RouteGiven
    <3> QED
      BY <2>3, <3>1
  <2> QED
    BY <2>1, <2>2, <2>4
<1>7. ASSUME NEW k \in 1 .. n * m
      PROVE  /\ \E i \in places : Stands(e[k], room, list[i], i)
             /\ \E j \in 1 .. m : e[k].route = routes[j].waypoints
  <2> HIDE DEF row, way
  <2>1. PICK i \in places : Stands(candidates[row(k)], room, list[i], i)
    BY <1>6 DEF Covers
  <2>2. Stands(e[k], room, list[i], i) /\ e[k].route = way(k)
    BY <1>6, <2>1
  <2> QED
    BY <1>6, <2>2
<1>8. ASSUME NEW i \in places PROVE \E k \in 1 .. n * m : Stands(e[k], room, list[i], i)
  <2>1. PICK c \in 1 .. n : Stands(candidates[c], room, list[i], i)
    BY DEF Covers
  <2>2. PICK k \in 1 .. n * m : row(k) = c
    <3> HIDE DEF n, m
    <3> QED
      BY <1>1, GridRow
  <2> HIDE DEF row, way
  <2> QED
    BY <1>6, <2>1, <2>2
<1> HIDE DEF n, row, way
<1>9. Covers(e, room, list, places)
  BY <1>3, <1>4, <1>7, <1>8 DEF Covers
<1> QED
  BY <1>2, <1>4, <1>7, <1>9

\* The candidates the plans begin with.
LEMMA PointsCovered ==
  ASSUME NEW list, NEW n \in Nat \ {0}, DOMAIN list = 1 .. n, NEW room
  PROVE  Covers([i \in DOMAIN list |-> Candidate(list[i], room, i)], room, list, 1 .. n)
<1> DEFINE c == [i \in 1 .. n |-> Candidate(list[i], room, i)]
<1>1. Len(c) = n /\ DOMAIN c = 1 .. n
  <2> DEFINE all == {Candidate(list[i], room, i) : i \in 1 .. n}
  <2>1. c \in [1 .. n -> all]
    OBVIOUS
  <2> HIDE DEF c, all
  <2> QED
    BY <2>1, FunctionIsSeq
<1>2. \A i \in 1 .. n : Stands(c[i], room, list[i], i)
  BY CandidateStands
<1> HIDE DEF c
<1>3. Covers(c, room, list, 1 .. n)
  BY <1>1, <1>2 DEF Covers
<1> QED
  BY <1>3 DEF c

LEMMA PointCovered ==
  ASSUME NEW list, NEW room, NEW index
  PROVE  Covers(<<Candidate(list[index], room, index)>>, room, list, {index})
<1> DEFINE c == <<Candidate(list[index], room, index)>>
<1>1. Len(c) = 1 /\ DOMAIN c = 1 .. 1 /\ c[1] = Candidate(list[index], room, index)
  OBVIOUS
<1>2. Stands(c[1], room, list[index], index)
  BY <1>1, CandidateStands
<1>3. \A k \in 1 .. Len(c) : k = 1
  BY <1>1
<1>4. 1 \in 1 .. Len(c)
  BY <1>1
<1> HIDE DEF c
<1>5. Covers(c, room, list, {index})
  BY <1>1, <1>2, <1>3, <1>4 DEF Covers
<1> QED
  BY <1>5 DEF c

LEMMA PlacesCovered ==
  ASSUME NEW list, NEW n \in Nat, DOMAIN list = 1 .. n, NEW room, NEW places \in SUBSET (1 .. n),
         places # {}, \A i \in places : list[i].room = room
  PROVE  LET made == [i \in DOMAIN list |-> Candidate(list[i], list[i].room, i)]
         IN  Covers(Chosen(made, places), room, list, places) /\ Chosen(made, places) # <<>>
<1> DEFINE made == [i \in DOMAIN list |-> Candidate(list[i], list[i].room, i)]
           c == Chosen(made, places)
<1>1. \A i \in places : Stands(made[i], room, list[i], i)
  BY CandidateStands
<1> HIDE DEF made
<1>2. /\ Len(c) \in Nat \ {0} /\ DOMAIN c = 1 .. Len(c) /\ c # <<>>
      /\ \A k \in 1 .. Len(c) : \E i \in places : c[k] = made[i]
      /\ \A i \in places : \E k \in 1 .. Len(c) : c[k] = made[i]
  <2>1. Arranges(c, made, places)
    BY ChosenHas
  <2> HIDE DEF c
  <2> QED
    BY <2>1 DEF Arranges
<1> HIDE DEF c
<1>3. \A k \in 1 .. Len(c) : \E i \in places : Stands(c[k], room, list[i], i)
  BY <1>1, <1>2
<1>4. \A i \in places : \E k \in 1 .. Len(c) : Stands(c[k], room, list[i], i)
  BY <1>1, <1>2
<1>5. Covers(c, room, list, places)
  BY <1>2, <1>3, <1>4 DEF Covers
<1> QED
  BY <1>2, <1>5 DEF c, made

-----------------------------------------------------------------------------
(* Plans.                                                                  *)

\* The rooms the robot may be taken to be in, and the doorways between two rooms.
Around(e, robot) ==
  {r \in DOMAIN e.rooms : robot # None /\ IsPoseInsideRoom(e.rooms[r], robot, Tolerance)}

Doorways(e, from, to) ==
  {route.waypoints : route \in {route \in Range(e.routes) : route.from = from /\ route.to = to}}

\* The routes into a room, when there is no doubt where the robot is.
LEMMA RoutesFound ==
  ASSUME NEW e, e.routes \in Seq(Range(e.routes)), NEW target, NEW robot,
         NEW routes \in RoutesForTarget(e, target, robot)
  PROVE  /\ routes = <<>> \/ Len(routes) \in Nat \ {0}
         /\ \A r : Around(e, robot) = {r} /\ r # target /\ Doorways(e, r, target) # {} =>
              /\ routes # <<>>
              /\ \A j \in 1 .. Len(routes) : routes[j].waypoints \in Doorways(e, r, target)
<1> DEFINE n == Len(e.routes)
           from(s) == {i \in 1 .. n : e.routes[i].from = s /\ e.routes[i].to = target}
<1>1. n \in Nat /\ DOMAIN e.routes = 1 .. n
  BY LenProperties
<1>2. /\ Around(e, robot) = {} => routes = <<>>
      /\ Around(e, robot) # {} => \E s \in Around(e, robot) :
           routes = IF s = target THEN <<>> ELSE Chosen(e.routes, from(s))
  BY <1>1 DEF RoutesForTarget, Around
<1>3. ASSUME NEW s PROVE Arranges(Chosen(e.routes, from(s)), e.routes, from(s))
  <2>1. from(s) \in SUBSET (1 .. n)
    OBVIOUS
  <2> HIDE DEF from, n
  <2> QED
    BY <1>1, <2>1, ChosenHas
<1>4. ASSUME NEW s
      PROVE  LET c == Chosen(e.routes, from(s))
             IN  /\ c = <<>> \/ Len(c) \in Nat \ {0}
                 /\ from(s) # {} => c # <<>>
                 /\ \A k \in 1 .. Len(c) : \E i \in from(s) : c[k] = e.routes[i]
  <2> HIDE DEF from
  <2> QED
    BY <1>3 DEF Arranges
<1>5. routes = <<>> \/ Len(routes) \in Nat \ {0}
  <2> HIDE DEF from
  <2> QED
    BY <1>2, <1>4
<1>6. ASSUME NEW r, Around(e, robot) = {r}, r # target, Doorways(e, r, target) # {}
      PROVE  /\ routes # <<>>
             /\ \A j \in 1 .. Len(routes) : routes[j].waypoints \in Doorways(e, r, target)
  <2>1. routes = Chosen(e.routes, from(r))
    <3> HIDE DEF from
    <3> QED
      BY <1>2, <1>6
  <2>2. \A i \in from(r) : e.routes[i].waypoints \in Doorways(e, r, target)
    BY <1>1 DEF Doorways, Range
  <2>3. from(r) # {}
    BY <1>1, <1>6 DEF Doorways, Range
  <2> HIDE DEF from
  <2> QED
    BY <1>4, <2>1, <2>2, <2>3
<1> QED
  BY <1>5, <1>6

\* Whether a pose is in a room is a matter of its place.
LEMMA SamePlace ==
  ASSUME NEW r, NEW p, NEW q, p.x = q.x, p.y = q.y, IsPoseInsideRoom(r, q, 0)
  PROVE  IsPoseInsideRoom(r, p, 0)
BY DEF IsPoseInsideRoom, Distance2

\* The candidates of a plan stand for the same poses in whichever order and by
\* whichever way, and by a doorway when there is no doubt which room to leave.
LEMMA PlanCovers ==
  ASSUME NEW e, e.routes \in Seq(Range(e.routes)), NEW robot,
         robot = None \/ (robot.x \in Int /\ robot.y \in Int),
         NEW candidates, NEW room, NEW list, NEW places, Covers(candidates, room, list, places),
         \A i \in places : list[i].x \in Int /\ list[i].y \in Int,
         NEW attempts, NEW plan \in Plans(e, candidates, room, attempts, robot)
  PROVE  /\ plan.maximum_attempts = attempts /\ Covers(plan.candidates, room, list, places)
         /\ \A r : Around(e, robot) = {r} /\ r # room /\ Doorways(e, r, room) # {} =>
              \A k \in 1 .. Len(plan.candidates) :
                plan.candidates[k].route \in Doorways(e, r, room)
<1>1. PICK routes \in RoutesForTarget(e, room, robot) :
        /\ plan.maximum_attempts = attempts
        /\ plan.candidates = IF routes = <<>> THEN OrderByDistance(candidates, robot)
                             ELSE ExpandRouteCandidates(candidates, routes)
  BY DEF Plans
<1>2. CASE routes = <<>>
  <2>1. Covers(plan.candidates, room, list, places)
    BY <1>1, <1>2, OrderedCovers
  <2>2. \A r : ~(Around(e, robot) = {r} /\ r # room /\ Doorways(e, r, room) # {})
    BY <1>2, RoutesFound
  <2> QED
    BY <1>1, <2>1, <2>2
<1>3. CASE routes # <<>>
  <2>1. Len(routes) \in Nat \ {0}
    BY <1>3, RoutesFound
  <2> DEFINE x == ExpandRouteCandidates(candidates, routes)
  <2>2. /\ Covers(x, room, list, places)
        /\ \A k \in 1 .. Len(x) : \E j \in 1 .. Len(routes) : x[k].route = routes[j].waypoints
    BY <2>1, ExpandedCovers
  <2>3. plan.candidates = x
    BY <1>1, <1>3
  <2> HIDE DEF x
  <2>4. ASSUME NEW r, Around(e, robot) = {r}, r # room, Doorways(e, r, room) # {},
               NEW k \in 1 .. Len(x)
        PROVE  x[k].route \in Doorways(e, r, room)
    <3>1. \A j \in 1 .. Len(routes) : routes[j].waypoints \in Doorways(e, r, room)
      BY <2>4, RoutesFound
    <3> QED
      BY <2>2, <3>1
  <2> QED
    BY <1>1, <2>2, <2>3, <2>4
<1> QED
  BY <1>2, <1>3

\* What is tried of a list of n elements in some attempts.
LEMMA Tried ==
  ASSUME NEW n \in Nat \ {0}, NEW a \in Nat \ {0}
  PROVE  /\ \A i \in 1 .. a : ((i - 1) % n) + 1 \in 1 .. n
         /\ a >= n => \A k \in 1 .. n : k \in 1 .. a /\ ((k - 1) % n) + 1 = k
<1>1. ASSUME NEW i \in 1 .. a PROVE ((i - 1) % n) + 1 \in 1 .. n
  <2>1. (i - 1) % n \in 0 .. n - 1
    OBVIOUS
  <2> QED
    BY <2>1
<1>2. ASSUME a >= n, NEW k \in 1 .. n PROVE k \in 1 .. a /\ ((k - 1) % n) + 1 = k
  BY <1>2
<1> QED
  BY <1>1, <1>2

LEMMA PlanReaches ==
  ASSUME NEW room, NEW list, NEW places, NEW candidates, Covers(candidates, room, list, places),
         \A i \in places : /\ list[i].x \in Int /\ list[i].y \in Int
                           /\ IsPoseInsideRoom(Layout.rooms[room], list[i], 0),
         Layout.routes \in Seq(Range(Layout.routes)), NEW robot \in RobotPoses,
         NEW plan \in Plans(Layout, candidates, room, Attempts, robot)
  PROVE  Reaches(plan, room, places, robot)
<1> DEFINE c == plan.candidates
           n == Len(c)
           tried == [i \in 1 .. Attempts |-> c[((i - 1) % n) + 1]]
<1>1. /\ plan.maximum_attempts = Attempts /\ Covers(c, room, list, places)
      /\ \A r : Around(Layout, robot) = {r} /\ r # room /\ Doorways(Layout, r, room) # {} =>
           \A k \in 1 .. n : c[k].route \in Doorways(Layout, r, room)
  BY PlanAssumption, PlanCovers
<1>2. n \in Nat \ {0} /\ Attempts \in Nat \ {0}
  BY <1>1, PlanAssumption DEF Covers
<1>3. Valid(plan)
  BY <1>1, <1>2 DEF Valid
<1>4. ASSUME NEW k \in 1 .. n
      PROVE  /\ c[k].room = room /\ IsPoseInsideRoom(Layout.rooms[room], c[k], 0)
             /\ c[k].source_index \in places
  <2>1. PICK i \in places : Stands(c[k], room, list[i], i)
    BY <1>1 DEF Covers
  <2> HIDE DEF c
  <2>2. c[k].room = room /\ c[k].x = list[i].x /\ c[k].y = list[i].y /\ c[k].source_index = i
    BY <2>1 DEF Stands
  <2> QED
    BY <2>2, SamePlace
<1>5. ASSUME NEW i \in 1 .. Attempts
      PROVE  ((i - 1) % n) + 1 \in 1 .. n /\ tried[i] = c[((i - 1) % n) + 1]
  <2>1. tried[i] = c[((i - 1) % n) + 1]
    OBVIOUS
  <2> HIDE DEF n, c, tried
  <2> QED
    BY <1>2, <2>1, Tried
<1>6. tried = [i \in 1 .. plan.maximum_attempts |-> Current(plan, i - 1)]
  BY <1>1 DEF Current
<1>7. ASSUME NEW i \in 1 .. Attempts
      PROVE  /\ tried[i].room = room /\ IsPoseInsideRoom(Layout.rooms[room], tried[i], 0)
             /\ \A r \in Around(Layout, robot) :
                  Around(Layout, robot) = {r} /\ r # room /\ Doorways(Layout, r, room) # {} =>
                    tried[i].route \in Doorways(Layout, r, room)
  <2>1. PICK k \in 1 .. n : tried[i] = c[k]
    BY <1>5
  <2> HIDE DEF n, c, tried
  <2> QED
    BY <1>1, <1>4, <2>1
<1>8. Attempts >= n => {tried[i].source_index : i \in 1 .. Attempts} = places
  <2> SUFFICES ASSUME Attempts >= n
               PROVE  {tried[i].source_index : i \in 1 .. Attempts} = places
    OBVIOUS
  <2>1. ASSUME NEW i \in 1 .. Attempts PROVE tried[i].source_index \in places
    <3>1. PICK k \in 1 .. n : tried[i] = c[k]
      BY <1>5
    <3> HIDE DEF n, c, tried
    <3> QED
      BY <1>4, <3>1
  <2>2. ASSUME NEW p \in places PROVE \E i \in 1 .. Attempts : tried[i].source_index = p
    <3>1. PICK k \in 1 .. n : Stands(c[k], room, list[p], p)
      BY <1>1 DEF Covers
    <3> HIDE DEF n, c
    <3>2. k \in 1 .. Attempts /\ ((k - 1) % n) + 1 = k
      BY <1>2, Tried
    <3>3. tried[k] = c[k]
      BY <3>2
    <3> HIDE DEF tried
    <3> QED
      BY <3>1, <3>2, <3>3 DEF Stands
  <2> HIDE DEF tried
  <2> QED
    BY <2>1, <2>2
<1>9. DOMAIN tried = 1 .. Attempts
  OBVIOUS
<1> HIDE DEF tried
<1> QED
  BY <1>1, <1>3, <1>6, <1>7, <1>8, <1>9 DEF Reaches, Around, Doorways

-----------------------------------------------------------------------------
(* The plans made for the task at work.                                    *)

\* The catalog is what the files say, or empty.
CatalogOfFiles == catalog = <<>> \/ catalog \in CatalogFiles

LEMMA CatalogStays == Spec => []CatalogOfFiles
<1>1. Init => CatalogOfFiles
  BY DEF Init, LoadCatalog, CatalogOfFiles
<1>2. CatalogOfFiles /\ [Next]_vars => CatalogOfFiles'
  <2> SUFFICES ASSUME CatalogOfFiles, [Next]_vars PROVE catalog' = catalog
    BY DEF CatalogOfFiles
  <2>1. CASE OnAnyMessage
    BY <2>1 DEF OnAnyMessage, OnEnvironment, OnAreYouReady, OnInstruction, OnTaskSucceeded,
       OnMissionComplete, OnMessage, loaded
  <2>2. CASE RunSimulationStep
    BY <2>2 DEF RunSimulationStep, loaded
  <2>3. CASE Tick
    BY <2>3 DEF Tick, Connect, RepeatHandshake, CompleteMission, loaded
  <2>4. CASE OnRobotMessage
    BY <2>4 DEF OnRobotMessage, loaded
  <2>5. CASE TimeOut \/ Exit \/ \E topic \in Topics : Discover(topic)
    BY <2>5 DEF TimeOut, Exit, Discover, loaded
  <2>6. CASE UNCHANGED vars
    BY <2>6 DEF vars, loaded
  <2> QED
    BY <2>1, <2>2, <2>3, <2>4, <2>5, <2>6 DEF Next
<1> QED
  BY <1>1, <1>2, PTL DEF Spec

\* A list of poses is a sequence of numbers.
LEMMA PosesListed ==
  ASSUME NEW list, ListsPoses(list)
  PROVE  /\ Len(list) \in Nat /\ DOMAIN list = 1 .. Len(list)
         /\ list # <<>> => Len(list) \in Nat \ {0}
         /\ \A i \in 1 .. Len(list) :
              list[i] \in Range(list) /\ list[i].x \in Int /\ list[i].y \in Int
<1>1. list \in Seq(Range(list))
  BY DEF ListsPoses
<1>2. Len(list) \in Nat /\ DOMAIN list = 1 .. Len(list)
  BY <1>1, LenProperties
<1>3. list # <<>> => Len(list) \in Nat \ {0}
  BY <1>1, EmptySeq
<1>4. \A i \in 1 .. Len(list) : list[i] \in Range(list)
  BY <1>2 DEF Range
<1> QED
  BY <1>2, <1>3, <1>4 DEF ListsPoses

\* The layout of the task at work.
LEMMA WorkingLayout ==
  ASSUME TaskFitsLayout, CatalogOfFiles, AtWork
  PROVE  /\ EnvironmentValid(Layout) /\ None \notin DOMAIN Layout.rooms
         /\ Layout.routes \in Seq(Range(Layout.routes))
         /\ \A r \in DOMAIN Layout.rooms : ListsPoses(Layout.rooms[r].search_points)
         /\ \A d \in DOMAIN Layout.destinations : ListsPoses(Layout.destinations[d])
<1>1. task.environment \in DOMAIN catalog /\ EnvironmentValid(Layout)
  BY FoundAgain DEF TaskFitsLayout
<1>2. catalog \in CatalogFiles
  BY <1>1 DEF CatalogOfFiles
<1> QED
  BY <1>1, <1>2, LayoutsAssumption DEF Layout

\* The search points of a room, and what a destination has in a room.
LEMMA PointsInRoom ==
  ASSUME NEW e, EnvironmentValid(e), NEW r \in DOMAIN e.rooms, ListsPoses(e.rooms[r].search_points)
  PROVE  LET points == e.rooms[r].search_points
         IN  /\ Len(points) \in Nat \ {0} /\ DOMAIN points = 1 .. Len(points)
             /\ \A i \in 1 .. Len(points) :
                  /\ points[i].x \in Int /\ points[i].y \in Int
                  /\ IsPoseInsideRoom(e.rooms[r], points[i], 0)
<1> DEFINE points == e.rooms[r].search_points
<1>1. points # <<>> /\ \A p \in Range(points) : IsPoseInsideRoom(e.rooms[r], p, 0)
  BY DEF EnvironmentValid, ValidateRoomGeometry
<1> HIDE DEF points
<1>2. ListsPoses(points)
  BY DEF points
<1>3. /\ Len(points) \in Nat \ {0} /\ DOMAIN points = 1 .. Len(points)
      /\ \A i \in 1 .. Len(points) :
           points[i] \in Range(points) /\ points[i].x \in Int /\ points[i].y \in Int
  BY <1>1, <1>2, PosesListed
<1>4. \A i \in 1 .. Len(points) : IsPoseInsideRoom(e.rooms[r], points[i], 0)
  BY <1>1, <1>3
<1> QED
  BY <1>3, <1>4 DEF points

LEMMA PlacesInRoom ==
  ASSUME NEW e, EnvironmentValid(e), NEW d \in DOMAIN e.destinations, ListsPoses(e.destinations[d]),
         NEW room \in CandidateRooms(e, d)
  PROVE  LET list == e.destinations[d]
             places == {i \in DOMAIN list : list[i].room = room}
         IN  /\ Len(list) \in Nat /\ DOMAIN list = 1 .. Len(list)
             /\ places # {} /\ room \in DOMAIN e.rooms
             /\ \A i \in places : /\ list[i].x \in Int /\ list[i].y \in Int
                                  /\ IsPoseInsideRoom(e.rooms[room], list[i], 0)
<1> DEFINE list == e.destinations[d]
           places == {i \in DOMAIN list : list[i].room = room}
<1>1. \A c \in Range(list) : c.room \in DOMAIN e.rooms /\ IsPoseInsideRoom(e.rooms[c.room], c, 0)
  BY DEF EnvironmentValid
<1>2. \E c \in Range(list) : c.room = room
  BY DEF CandidateRooms
<1>3. ListsPoses(list)
  OBVIOUS
<1> HIDE DEF list
<1>4. /\ Len(list) \in Nat /\ DOMAIN list = 1 .. Len(list)
      /\ \A i \in 1 .. Len(list) :
           list[i] \in Range(list) /\ list[i].x \in Int /\ list[i].y \in Int
  BY <1>3, PosesListed
<1>5. places # {}
  BY <1>2 DEF Range
<1>6. \A i \in places : list[i].room = room /\ i \in 1 .. Len(list)
  BY <1>4
<1>7. room \in DOMAIN e.rooms
  BY <1>1, <1>2
<1>8. \A i \in places : IsPoseInsideRoom(e.rooms[room], list[i], 0)
  BY <1>1, <1>4, <1>6
<1> QED
  BY <1>4, <1>5, <1>6, <1>7, <1>8 DEF list

\* What every plan for the task at work is, by the state it is made in.
LEMMA RoomReached ==
  ASSUME TaskFitsLayout, CatalogOfFiles, AtWork, NEW robot \in RobotPoses,
         NEW plan \in ForRoom(Layout, task.pickup_room, Attempts, robot)
  PROVE  Reaches(plan, task.pickup_room, DOMAIN Layout.rooms[task.pickup_room].search_points, robot)
<1> DEFINE room == task.pickup_room
           points == Layout.rooms[room].search_points
           n == Len(points)
           candidates == [i \in DOMAIN points |-> Candidate(points[i], room, i)]
<1>1. room \in DOMAIN Layout.rooms
  BY DEF TaskFitsLayout
<1>2. /\ n \in Nat \ {0} /\ DOMAIN points = 1 .. n
      /\ \A i \in 1 .. n : /\ points[i].x \in Int /\ points[i].y \in Int
                           /\ IsPoseInsideRoom(Layout.rooms[room], points[i], 0)
  BY <1>1, WorkingLayout, PointsInRoom
<1>3. plan \in Plans(Layout, candidates, room, Attempts, robot)
  BY <1>1 DEF ForRoom
<1>4. Covers(candidates, room, points, 1 .. n)
  <2> HIDE DEF points, room, n
  <2> QED
    BY <1>2, PointsCovered
<1>5. Layout.routes \in Seq(Range(Layout.routes))
  BY WorkingLayout
<1>6. Reaches(plan, room, 1 .. n, robot)
  <2> HIDE DEF candidates, points, room, n
  <2> QED
    BY <1>2, <1>3, <1>4, <1>5, PlanReaches
<1> QED
  BY <1>2, <1>6

LEMMA PointReached ==
  ASSUME TaskFitsLayout, CatalogOfFiles, AtWork, NEW robot \in RobotPoses,
         NEW i \in DOMAIN Layout.rooms[task.pickup_room].search_points,
         NEW plan \in ForSearchPoint(Layout, task.pickup_room, i, Attempts, robot)
  PROVE  Reaches(plan, task.pickup_room, {i}, robot)
<1> DEFINE room == task.pickup_room
           points == Layout.rooms[room].search_points
           candidates == <<Candidate(points[i], room, i)>>
<1>1. room \in DOMAIN Layout.rooms
  BY DEF TaskFitsLayout
<1>2. /\ points[i].x \in Int /\ points[i].y \in Int
      /\ IsPoseInsideRoom(Layout.rooms[room], points[i], 0)
  BY <1>1, WorkingLayout, PointsInRoom
<1>3. plan \in Plans(Layout, candidates, room, Attempts, robot)
  BY <1>1, <1>2 DEF ForSearchPoint
<1>4. Covers(candidates, room, points, {i})
  <2> HIDE DEF points, room
  <2> QED
    BY PointCovered
<1>5. Layout.routes \in Seq(Range(Layout.routes))
  BY WorkingLayout
<1>6. Reaches(plan, room, {i}, robot)
  <2> HIDE DEF candidates, points, room
  <2>1. \A k \in {i} : /\ points[k].x \in Int /\ points[k].y \in Int
                       /\ IsPoseInsideRoom(Layout.rooms[room], points[k], 0)
    BY <1>2
  <2> QED
    BY <1>3, <1>4, <1>5, <2>1, PlanReaches
<1> QED
  BY <1>6

LEMMA DestinationReached ==
  ASSUME TaskFitsLayout, CatalogOfFiles, AtWork, ~task.destination_is_avatar,
         NEW robot \in RobotPoses,
         NEW plan \in ForDestination(Layout, task.destination, task.destination_room, Attempts, robot)
  PROVE  Reaches(plan, task.destination_room,
                 {i \in DOMAIN Layout.destinations[task.destination] :
                    Layout.destinations[task.destination][i].room = task.destination_room}, robot)
<1> DEFINE room == task.destination_room
           list == Layout.destinations[task.destination]
           places == {i \in DOMAIN list : list[i].room = room}
           made == [i \in DOMAIN list |-> Candidate(list[i], list[i].room, i)]
           candidates == Chosen(made, places)
<1>1. /\ task.destination \in DOMAIN Layout.destinations
      /\ room \in CandidateRooms(Layout, task.destination)
  BY DEF TaskFitsLayout
<1>2. /\ Len(list) \in Nat /\ DOMAIN list = 1 .. Len(list)
      /\ places # {} /\ room \in DOMAIN Layout.rooms
      /\ \A i \in places : /\ list[i].x \in Int /\ list[i].y \in Int
                           /\ IsPoseInsideRoom(Layout.rooms[room], list[i], 0)
  BY <1>1, WorkingLayout, PlacesInRoom
<1>3. room # None
  BY <1>2, WorkingLayout
<1>4. Covers(candidates, room, list, places) /\ candidates # <<>>
  <2>1. places \in SUBSET (1 .. Len(list)) /\ \A i \in places : list[i].room = room
    BY <1>2
  <2> HIDE DEF places, list, room
  <2> QED
    BY <1>2, <2>1, PlacesCovered
<1>5. plan \in Plans(Layout, candidates, room, Attempts, robot)
  <2>1. {i \in DOMAIN list : room \in {None, list[i].room}} = places
    BY <1>3
  <2> QED
    BY <1>1, <1>4, <2>1 DEF ForDestination
<1>6. Layout.routes \in Seq(Range(Layout.routes))
  BY WorkingLayout
<1>7. Reaches(plan, room, places, robot)
  <2> HIDE DEF candidates, places, list, room
  <2> QED
    BY <1>2, <1>4, <1>5, <1>6, PlanReaches
<1> QED
  BY <1>7

\* Every plan the navigation executor makes for the task at work leads into the room it
\* is for, for any layouts and wherever the robot stands: every attempt is a pose within
\* the room, all the poses the layout has for it are tried when the attempts suffice, and
\* a robot that is in another room for certain takes one of the doorways.
THEOREM PlansReach == Spec => []PlansReachTheTask
<1>1. TaskFitsLayout /\ CatalogOfFiles => PlansReachTheTask
  <2> SUFFICES ASSUME TaskFitsLayout, CatalogOfFiles PROVE PlansReachTheTask
    OBVIOUS
  <2>1. state \in {"kNavigatingToRoom", "kSearchingObject", "kNavigatingToDestination"} => AtWork
    BY DEF AtWork
  <2> QED
    BY <2>1, RoomReached, PointReached, DestinationReached DEF PlansReachTheTask
<1> QED
  BY <1>1, TaskFits, CatalogStays, PTL

-----------------------------------------------------------------------------
(* Reading an instruction.                                                 *)

IsText(text) == text \in Seq(Range(text))

\* The words of a text are a list.
LEMMA WordsListed ==
  ASSUME NEW text, IsText(text)
  PROVE  Len(Normalize(text)) \in Nat /\ DOMAIN Normalize(text) = 1 .. Len(Normalize(text))
<1> DEFINE S == {i \in DOMAIN text : text[i] \in DOMAIN Lower}
           words == Chosen(text, S)
<1>1. PICK n \in Nat : DOMAIN text = 1 .. n
  BY LenProperties DEF IsText
<1>2. S \in SUBSET (1 .. n)
  BY <1>1
<1> HIDE DEF S
<1>3. Arranges(words, text, S)
  BY <1>1, <1>2, ChosenHas
<1>4. PICK m \in Nat : DOMAIN words = 1 .. m
  BY <1>3 DEF Arranges
<1> DEFINE f == [i \in 1 .. m |-> Lower[words[i]]]
<1>5. Normalize(text) = f
  BY <1>4 DEF Normalize, S
<1>6. f \in [1 .. m -> Range(f)]
  BY DEF Range
<1> HIDE DEF f
<1> QED
  BY <1>5, <1>6, FunctionIsSeq

\* Two phrases of one length at one place are the same.
LEMMA SamePhrase ==
  ASSUME NEW words, NEW i \in Int, NEW p, NEW q, Len(p) = Len(q), Len(p) \in Nat,
         p \in [1 .. Len(p) -> Range(p)], q \in [1 .. Len(p) -> Range(q)],
         IsAt(p, words, i), IsAt(q, words, i)
  PROVE  p = q
<1>1. \A k \in 1 .. Len(p) : p[k] = q[k]
  BY DEF IsAt
<1> QED
  BY <1>1

\* The aliases of a group are texts, and no two names share an alias.
Unambiguous(names) ==
  /\ \A name \in DOMAIN names : \A a \in names[name] : IsText(a)
  /\ \A m, n \in DOMAIN names : \A a \in names[m] : \A b \in names[n] :
       Normalize(a) = Normalize(b) /\ Normalize(a) # <<>> => m = n

\* A match is of an alias of its name that is at its position.
LEMMA Matched ==
  ASSUME NEW words, NEW names, NEW m \in FindMatches(words, names)
  PROVE  /\ m.position \in DOMAIN words /\ m.canonical \in DOMAIN names
         /\ \E a \in names[m.canonical] :
              m.length = Len(Normalize(a)) /\ IsAt(Normalize(a), words, m.position)
<1>1. PICK name \in DOMAIN names : \E a \in names[name] : \E i \in DOMAIN words :
        /\ m = [canonical |-> name, position |-> i, length |-> Len(Normalize(a))]
        /\ IsAt(Normalize(a), words, i)
  BY DEF FindMatches
<1> QED
  BY <1>1

\* Of two matches of different names one comes first.
LEMMA OneIsBefore ==
  ASSUME NEW text, IsText(text), NEW names, Unambiguous(names),
         NEW m \in FindMatches(Normalize(text), names), NEW n \in FindMatches(Normalize(text), names),
         ~Before(m, n), ~Before(n, m)
  PROVE  m.canonical = n.canonical
<1> DEFINE words == Normalize(text)
<1>1. m.position \in Int /\ n.position \in Int
  BY Matched, WordsListed
<1>2. PICK a \in names[m.canonical] :
        m.length = Len(Normalize(a)) /\ IsAt(Normalize(a), words, m.position)
  BY Matched
<1>3. PICK b \in names[n.canonical] :
        n.length = Len(Normalize(b)) /\ IsAt(Normalize(b), words, n.position)
  BY Matched
<1>4. m.canonical \in DOMAIN names /\ n.canonical \in DOMAIN names
  BY Matched
<1> DEFINE p == Normalize(a)
           q == Normalize(b)
<1>5. /\ Len(p) \in Nat /\ DOMAIN p = 1 .. Len(p)
      /\ Len(q) \in Nat /\ DOMAIN q = 1 .. Len(q)
  BY <1>4, WordsListed DEF Unambiguous
<1>6. p \in [1 .. Len(p) -> Range(p)] /\ q \in [1 .. Len(q) -> Range(q)]
  <2>1. \E S, T : p = [k \in S |-> p[k]] /\ q = [k \in T |-> q[k]]
    BY DEF Normalize
  <2> QED
    BY <1>5, <2>1 DEF Range
<1> HIDE DEF p, q, words
<1>7. m.position = n.position /\ m.length = n.length
  <2>1. m.length \in Int /\ n.length \in Int
    BY <1>2, <1>3, <1>5 DEF p, q
  <2> QED
    BY <1>1, <2>1 DEF Before
<1>8. IsAt(p, words, m.position) /\ IsAt(q, words, m.position) /\ Len(p) = Len(q)
  BY <1>2, <1>3, <1>7 DEF p, q
<1>9. p = q
  BY <1>1, <1>5, <1>6, <1>8, SamePhrase
<1>10. p # <<>>
  BY <1>8 DEF IsAt
<1> QED
  BY <1>4, <1>9, <1>10 DEF Unambiguous, p, q

\* The first and the last name a text mentions are each one name.
LEMMA OneMentioned ==
  ASSUME NEW text, IsText(text), NEW names, Unambiguous(names)
  PROVE  LET matches == FindMatches(Normalize(text), names)
         IN  /\ \A a, b \in FirstMentioned(matches) : a = b
             /\ \A a, b \in LastMentioned(matches) : a = b
<1> DEFINE matches == FindMatches(Normalize(text), names)
<1>1. \A m, n \in matches : ~Before(m, n) /\ ~Before(n, m) => m.canonical = n.canonical
  BY OneIsBefore
<1> HIDE DEF matches
<1>2. \A a, b \in FirstMentioned(matches) : a = b
  BY <1>1 DEF FirstMentioned
<1>3. \A a, b \in LastMentioned(matches) : a = b
  BY <1>1 DEF LastMentioned
<1> QED
  BY <1>2, <1>3 DEF matches

Vocabulary(file) == \A group \in Groups : Unambiguous(Aliases(file, group))

\* What the parser makes of a text does not depend on the order in which the
\* unordered maps of its vocabulary are searched: sort leaves matches of equal
\* place and length in any order, but there are no such matches of two names
\* unless these share an alias.
THEOREM OneReading ==
  ASSUME NEW text, IsText(text), NEW file, Vocabulary(file), NEW t,
         NEW p \in Parse(text, file, t), NEW q \in Parse(text, file, t)
  PROVE  p = q
<1> DEFINE words == Normalize(text)
           rooms == FindMatches(words, Aliases(file, "rooms"))
           objects == FindMatches(words, Aliases(file, "objects"))
           destinations == FindMatches(words, Aliases(file, "destinations"))
           last == IF Cardinality(rooms) > 1 THEN LastMentioned(rooms) ELSE {None}
<1>1. /\ Unambiguous(Aliases(file, "rooms")) /\ Unambiguous(Aliases(file, "objects"))
      /\ Unambiguous(Aliases(file, "destinations"))
  BY DEF Vocabulary, Groups
<1>2. /\ \A a, b \in FirstMentioned(rooms) : a = b
      /\ \A a, b \in LastMentioned(rooms) : a = b
      /\ \A a, b \in FirstMentioned(objects) : a = b
      /\ \A a, b \in LastMentioned(destinations) : a = b
  BY <1>1, OneMentioned
<1>3. \A a, b \in last : a = b
  BY <1>2
<1>4. Parse(text, file, t) =
        {Told(t, room, object, destination, second) :
           room \in FirstMentioned(rooms), object \in FirstMentioned(objects),
           destination \in LastMentioned(destinations), second \in last}
  BY DEF Parse
<1> HIDE DEF rooms, objects, destinations, last
<1>5. PICK r1 \in FirstMentioned(rooms), o1 \in FirstMentioned(objects),
           d1 \in LastMentioned(destinations), l1 \in last : p = Told(t, r1, o1, d1, l1)
  BY <1>4
<1>6. PICK r2 \in FirstMentioned(rooms), o2 \in FirstMentioned(objects),
           d2 \in LastMentioned(destinations), l2 \in last : q = Told(t, r2, o2, d2, l2)
  BY <1>4
<1> QED
  BY <1>2, <1>3, <1>5, <1>6
-----------------------------------------------------------------------------
(* The task at work is what the instruction means.                         *)

\* A task, resolved or not, is what is meant.
ReadsAs(t, meant) ==
  /\ t.pickup_room = meant.pickup_room /\ t.target_object = meant.target_object
  /\ t.destination = meant.destination
  /\ meant.destination # "avatar" => meant.destination_room \in {None, t.destination_room}

\* The names are told apart by their aliases, and one run of the parser on the
\* text of each script, whatever order it searches its maps in, rejects the text
\* or finds what is meant.
MeansWhatItSays ==
  \A file \in AliasFiles : AliasesLoad(file) =>
    /\ Vocabulary(file)
    /\ \A s \in Scripts :
         /\ IsText(s.text)
         /\ Parse(s.text, file, NoTask) # {} =>
              \E p \in Parse(s.text, file, NoTask) : ReadsAs(p, s.meaning)

\* What the coordinator knew before an instruction does not change how it is read.
LEMMA ReadInAnyTask ==
  ASSUME NEW text, NEW file, NEW t, DOMAIN t = DOMAIN NoTask, NEW p \in Parse(text, file, t)
  PROVE  /\ DOMAIN p = DOMAIN NoTask /\ p.destination_is_avatar = (p.destination = "avatar")
         /\ \E q \in Parse(text, file, NoTask) :
              \A f \in DOMAIN NoTask \ {"environment"} : q[f] = p[f]
<1> DEFINE words == Normalize(text)
           rooms == FindMatches(words, Aliases(file, "rooms"))
           objects == FindMatches(words, Aliases(file, "objects"))
           destinations == FindMatches(words, Aliases(file, "destinations"))
           last == IF Cardinality(rooms) > 1 THEN LastMentioned(rooms) ELSE {None}
<1>1. \A u : Parse(text, file, u) =
        {Told(u, room, object, destination, second) :
           room \in FirstMentioned(rooms), object \in FirstMentioned(objects),
           destination \in LastMentioned(destinations), second \in last}
  BY DEF Parse
<1> HIDE DEF rooms, objects, destinations, last
<1>2. PICK r \in FirstMentioned(rooms), o \in FirstMentioned(objects),
           d \in LastMentioned(destinations), l \in last : p = Told(t, r, o, d, l)
  BY <1>1
<1>3. Told(NoTask, r, o, d, l) \in Parse(text, file, NoTask)
  BY <1>1
<1>4. \A f \in DOMAIN NoTask \ {"environment"} :
        Told(NoTask, r, o, d, l)[f] = Told(t, r, o, d, l)[f]
  BY DEF Told, NoTask
<1>5. DOMAIN p = DOMAIN NoTask /\ p.destination_is_avatar = (p.destination = "avatar")
  BY <1>2 DEF Told, NoTask
<1> QED
  BY <1>2, <1>3, <1>4, <1>5

\* Whatever the parser makes of a script's text is what is meant.
LEMMA TextAsMeant ==
  ASSUME MeansWhatItSays, NEW file \in AliasFiles, AliasesLoad(file), NEW s \in Scripts,
         NEW t, DOMAIN t = DOMAIN NoTask, NEW p \in Parse(s.text, file, t)
  PROVE  ReadsAs(p, s.meaning)
<1>1. PICK q \in Parse(s.text, file, NoTask) :
        \A f \in DOMAIN NoTask \ {"environment"} : q[f] = p[f]
  BY ReadInAnyTask
<1>2. /\ Vocabulary(file) /\ IsText(s.text)
      /\ \E m \in Parse(s.text, file, NoTask) : ReadsAs(m, s.meaning)
  BY <1>1 DEF MeansWhatItSays
<1>3. ReadsAs(q, s.meaning)
  BY <1>2, OneReading
<1>4. {"pickup_room", "target_object", "destination", "destination_room"}
        \subseteq DOMAIN NoTask \ {"environment"}
  BY DEF NoTask
<1> QED
  BY <1>1, <1>3, <1>4 DEF ReadsAs

\* Resolving a task in a layout leaves what is meant.
LEMMA ResolvedAsMeant ==
  ASSUME NEW p, DOMAIN p = DOMAIN NoTask, p.destination_is_avatar = (p.destination = "avatar"),
         NEW meant, ReadsAs(p, meant), NEW name, NEW read \in Resolved(p, name)
  PROVE  ReadsAs(read, meant)
<1>1. PICK room \in ResolvedRooms(catalog[name], p) :
        read = [p EXCEPT !.environment = name, !.destination_room = room]
  BY DEF Resolved
<1>2. /\ read.pickup_room = p.pickup_room /\ read.target_object = p.target_object
      /\ read.destination = p.destination /\ read.destination_room = room
  BY <1>1 DEF NoTask
<1>3. p.destination # "avatar" /\ p.destination_room # None => room = p.destination_room
  BY <1>1 DEF ResolvedRooms
<1> QED
  BY <1>2, <1>3 DEF ReadsAs

\* The parser was loaded from a file with aliases for every name, the instruction
\* on its way is the script's, and the work is what is meant.
TaskIsMeant ==
  /\ aliases # None => aliases \in AliasFiles /\ AliasesLoad(aliases)
  /\ \A i \in 1 .. Len(toRobot) :
       toRobot[i].event = "Instruction" => toRobot[i].detail = script.text
  /\ AtWork => aliases # None /\ ReadsAs(task, script.meaning)

\* No step brings another instruction than the script's, but one that is on its way.
NoOtherText ==
  \A i \in 1 .. Len(toRobot') : toRobot'[i].event = "Instruction" =>
    \/ toRobot'[i].detail = script.text
    \/ \E k \in 1 .. Len(toRobot) : toRobot'[i] = toRobot[k]

\* What a step that reads no instruction leaves.
LEMMA MeaningKept ==
  ASSUME TaskIsMeant, UNCHANGED loaded, NoOtherText, AtWork' => AtWork /\ UNCHANGED task
  PROVE  TaskIsMeant'
<1>1. UNCHANGED <<script, aliases>>
  BY DEF loaded
<1> QED
  BY <1>1 DEF TaskIsMeant, NoOtherText

\* The instruction becomes the task that is meant.
LEMMA InstructionMeant ==
  ASSUME MeansWhatItSays, RoundInv, TaskIsMeant, OnInstruction
  PROVE  TaskIsMeant'
<1>1. TypeOK /\ OnMessage("Instruction") /\ toRobot' = Tail(toRobot)
  BY DEF RoundInv, OnInstruction, Silent
<1>2. UNCHANGED loaded /\ NoOtherText
  BY <1>1, Taken, TakenBringsNone DEF NoOtherText
<1>3. Head(toRobot).detail = script.text /\ script \in Scripts /\ DOMAIN task = DOMAIN NoTask
  BY <1>1, Taken DEF TaskIsMeant, TypeOK
<1> DEFINE t == Cleared(task)
           read == ReadInstruction(Head(toRobot).detail, t)
<1>4. CASE ~AtWork' \/ (UNCHANGED <<state, task>>)
  BY <1>2, <1>4, MeaningKept DEF AtWork
<1>5. CASE AtWork' /\ ~(UNCHANGED <<state, task>>)
  <2>1. task' \in read
    BY <1>5 DEF OnInstruction, coordinator, AtWork, After, Enabled, Step
  <2>2. aliases # None /\ aliases \in AliasFiles /\ AliasesLoad(aliases)
    BY <2>1 DEF ReadInstruction, TaskIsMeant
  <2>3. PICK p \in Parse(script.text, aliases, t), name \in Find(catalog, t.environment) :
          task' \in Resolved(p, name)
    BY <1>3, <2>1 DEF ReadInstruction
  <2>4. DOMAIN t = DOMAIN NoTask
    BY <1>3, ClearedTask
  <2> HIDE DEF t
  <2>5. ReadsAs(p, script.meaning)
    BY <1>3, <2>2, <2>4, TextAsMeant
  <2>6. DOMAIN p = DOMAIN NoTask /\ p.destination_is_avatar = (p.destination = "avatar")
    BY <2>4, ReadInAnyTask
  <2>7. ReadsAs(task', script.meaning)
    BY <2>3, <2>5, <2>6, ResolvedAsMeant
  <2> QED
    BY <1>2, <2>2, <2>7 DEF TaskIsMeant, NoOtherText, loaded
<1> QED
  BY <1>4, <1>5

\* The other messages bring no work.
LEMMA MessageMeant ==
  ASSUME RoundInv, TaskIsMeant,
         OnEnvironment \/ OnAreYouReady \/ OnTaskSucceeded \/ OnMissionComplete
  PROVE  TaskIsMeant'
<1>1. PICK event : OnMessage(event) /\ toRobot' = Tail(toRobot)
  BY DEF OnEnvironment, OnAreYouReady, OnTaskSucceeded, OnMissionComplete, Silent, PublishEvent
<1>2. TypeOK
  BY DEF RoundInv
<1>3. UNCHANGED loaded /\ NoOtherText
  BY <1>1, <1>2, Taken, TakenBringsNone DEF NoOtherText
<1>4. AtWork' => AtWork /\ UNCHANGED task
  <2>1. CASE OnEnvironment
    <3>1. OnMessage("Environment") /\ UNCHANGED state
      BY <2>1 DEF OnEnvironment
    <3>2. Len(toRobot) \in Nat \ {0} /\ toRobot[1].event = "Environment"
      BY <1>2, <3>1, Taken
    <3>3. Calling \/ Ready \/ Instructed
      BY <1>2, <3>2, FirstMessage DEF RoundInv, Where
    <3> QED
      BY <3>1, <3>3 DEF Calling, Ready, Instructed, AtWork
  <2>2. CASE OnAreYouReady
    BY <2>2 DEF OnAreYouReady, AtWork
  <2>3. CASE OnTaskSucceeded
    BY <2>3 DEF OnTaskSucceeded, AtWork
  <2>4. CASE OnMissionComplete
    BY <2>4 DEF OnMissionComplete, AtWork
  <2> QED
    BY <2>1, <2>2, <2>3, <2>4
<1> QED
  BY <1>3, <1>4, MeaningKept

\* What the moderator says is the script's, and a result is played only at work.
LEMMA OthersMeant ==
  ASSUME RoundInv, TaskIsMeant,
         RunSimulationStep \/ Tick \/ TimeOut \/ OnRobotMessage \/ Exit
           \/ \E topic \in Topics : Discover(topic)
  PROVE  TaskIsMeant'
<1>1. TypeOK /\ Where /\ UNCHANGED <<loaded, task>>
  BY DEF RoundInv, Where, RunSimulationStep, Tick, Connect, RepeatHandshake, CompleteMission,
         TimeOut, OnRobotMessage, Exit, Discover, coordinator
<1>2. AtWork' => AtWork
  <2>1. CASE RunSimulationStep
    <3>1. simulation # 0 /\ simulation \in 0 .. 9
      BY <1>1, <2>1, ResultMoves DEF RunSimulationStep, TypeOK
    <3>2. Playing
      BY <1>1, <3>1 DEF Where, Calling, Ready, Instructed, Rejected, Played
    <3>3. state \in AtWorkStates /\ state \in TaskStates
      BY <1>1, <3>1, <3>2, WorkStates DEF Playing, TypeOK
    <3> QED
      BY <3>3, WorkStates
  <2>2. CASE UNCHANGED state
    BY <2>2 DEF AtWork
  <2>3. RunSimulationStep \/ UNCHANGED state
    BY DEF Tick, Connect, RepeatHandshake, CompleteMission, TimeOut, OnRobotMessage, Exit,
           Discover, coordinator
  <2> QED
    BY <2>1, <2>2, <2>3
<1>3. NoOtherText
  <2>1. CASE toRobot' = toRobot
    BY <2>1 DEF NoOtherText
  <2>2. CASE Publish(Handshake)
    BY <1>1, <2>2, PublishedHandshake DEF NoOtherText, Message
  <2>3. CASE CompleteMission
    <3>1. \/ toRobot' = toRobot
          \/ toRobot' = Append(toRobot, Message("Mission_complete", None))
      BY <1>1, <2>3, PublishedFarewell DEF CompleteMission
    <3>2. toRobot \in Seq(ToRobot)
      BY <1>1 DEF TypeOK
    <3> QED
      BY <3>1, <3>2 DEF NoOtherText, Message
  <2>4. CASE OnRobotMessage
    <3>1. toRobot' = toRobot \/ \E next : toRobot' = toRobot \o Reply(next)
      BY <2>4 DEF OnRobotMessage
    <3>2. toRobot \in Seq(ToRobot)
      BY <1>1 DEF TypeOK
    <3>3. \A next : \/ Reply(next) = <<>>
                    \/ Reply(next) = <<Message("Instruction", script.text)>>
                    \/ Reply(next) = <<Message("Task_succeeded", None)>>
      BY DEF Reply
    <3>4. ASSUME NEW m, toRobot' = toRobot \o <<m>>,
                 m.event = "Instruction" => m.detail = script.text
          PROVE  NoOtherText
      BY <3>2, <3>4 DEF NoOtherText
    <3>5. toRobot \o <<>> = toRobot
      BY <3>2
    <3> QED
      BY <2>1, <3>1, <3>3, <3>4, <3>5 DEF Message
  <2>5. toRobot' = toRobot \/ Publish(Handshake) \/ CompleteMission \/ OnRobotMessage
    BY DEF RunSimulationStep, Silent, PublishEvent, Tick, Connect, RepeatHandshake, TimeOut,
           Exit, Discover, channels
  <2> QED
    BY <2>1, <2>2, <2>3, <2>4, <2>5
<1> QED
  BY <1>1, <1>2, <1>3, MeaningKept

LEMMA MeaningBegins == Init => TaskIsMeant
BY DEF Init, TaskIsMeant, AtWork, After, Enabled, Step

LEMMA MeaningStays ==
  ASSUME MeansWhatItSays, RoundInv, TaskIsMeant, [Next]_vars
  PROVE  TaskIsMeant'
<1>1. CASE OnInstruction
  BY <1>1, InstructionMeant
<1>2. CASE OnEnvironment \/ OnAreYouReady \/ OnTaskSucceeded \/ OnMissionComplete
  BY <1>2, MessageMeant
<1>3. CASE RunSimulationStep \/ Tick \/ TimeOut \/ OnRobotMessage \/ Exit
             \/ \E topic \in Topics : Discover(topic)
  BY <1>3, OthersMeant
<1>4. CASE UNCHANGED vars
  BY <1>4 DEF TaskIsMeant, AtWork, vars, loaded, coordinator, channels
<1> QED
  BY <1>1, <1>2, <1>3, <1>4 DEF Next, OnAnyMessage

LEMMA MeaningHolds ==
  ASSUME RoundInv, TaskIsMeant
  PROVE  ParsedAsMeant
BY DEF RoundInv, TaskFitsLayout, TaskIsMeant, ReadsAs, ParsedAsMeant

\* The task the coordinator works on is what the instruction means, in every
\* interleaving of the conversation: with repeated and lost handshakes, and
\* whatever the coordinator was told before.  What a text means to the parser
\* alone is the hypothesis; parseCurrentInstruction and resolveTask keep it.
THEOREM InstructionAsMeant == ASSUME MeansWhatItSays PROVE Spec => []ParsedAsMeant
<1>1. Init => TaskIsMeant
  BY MeaningBegins
<1>2. RoundInv /\ TaskIsMeant /\ [Next]_vars => TaskIsMeant'
  BY MeaningStays
<1>3. RoundInv /\ TaskIsMeant => ParsedAsMeant
  BY MeaningHolds
<1> QED
  BY <1>1, <1>2, <1>3, RoundBegins, RoundGoesOn, PTL DEF Spec
-----------------------------------------------------------------------------
(* The two controllers read an instruction alike.                          *)

\* Of the rooms given, the one the first controller finds mentioned last.
MentionedLast(text, rooms, room) ==
  LET keys == {Legacy!CanonicalRoomKey(Spelling[r]) : r \in rooms} \ {<<>>}
      mentions == Legacy!Mentions(Legacy!NormalizeForParsing(text), keys)
  IN  \E m \in mentions :
        /\ \A n \in mentions : m[2] > n[2] \/ (m[2] = n[2] /\ m[1] >= n[1])
        /\ Legacy!RoomAliases[m[1]].key = Legacy!CanonicalRoomKey(Spelling[room])

\* The last room a text mentions is the room meant for the object, or the room
\* it is taken from when no other is meant.
LastRoomAsMeant ==
  \A file \in AliasFiles : AliasesLoad(file) =>
    /\ IsFiniteSet(DOMAIN file.rooms)
    /\ \A s \in Scripts : s.meaning.destination # "avatar" =>
         /\ s.meaning.pickup_room \in DOMAIN file.rooms
         /\ MentionedLast(s.text, DOMAIN file.rooms,
              IF s.meaning.destination_room = None THEN s.meaning.pickup_room
              ELSE s.meaning.destination_room)

\* A set in any order has all its elements.
LEMMA SetListed ==
  ASSUME NEW S, IsFiniteSet(S)
  PROVE  LET list == SetToSeq(S)
         IN  \A f : Range([i \in DOMAIN list |-> f[list[i]]]) = {f[x] : x \in S}
<1> DEFINE list == SetToSeq(S)
           n == Cardinality(S)
<1>1. n \in Nat /\ IsFiniteSet(1 .. n) /\ Cardinality(1 .. n) = n
  BY FS_CardinalityType, FS_Interval
<1>2. ExistsBijection(1 .. n, S)
  BY <1>1, FS_SameCardinalityBij
<1>3. list \in [1 .. n -> S] /\ IsInjective(list)
  <2>1. \E f \in [1 .. n -> S] : IsInjective(f)
    BY <1>2 DEF ExistsBijection, Bijection, Injection
  <2> QED
    BY <2>1 DEF SetToSeq
<1> HIDE DEF list
<1>4. list \in Surjection(1 .. n, S)
  BY <1>1, <1>3, FS_Injection DEF Injection
<1>5. DOMAIN list = 1 .. n /\ \A x \in S : \E i \in 1 .. n : list[i] = x
  BY <1>3, <1>4 DEF Surjection
<1> HIDE DEF n
<1> SUFFICES ASSUME NEW f PROVE Range([i \in DOMAIN list |-> f[list[i]]]) = {f[x] : x \in S}
  BY DEF list
<1>6. Range([i \in DOMAIN list |-> f[list[i]]]) = {f[list[i]] : i \in 1 .. n}
  BY <1>5 DEF Range
<1>7. \A i \in 1 .. n : list[i] \in S
  BY <1>3
<1> QED
  BY <1>5, <1>6, <1>7

LEMMA SameSize == ASSUME NEW S PROVE Legacy!Cardinality(S) = Cardinality(S)
BY DEF Legacy!Cardinality, Cardinality

\* The words it reads have numbered places.
LEMMA WordsNumbered ==
  ASSUME NEW text, IsText(text)
  PROVE  DOMAIN Legacy!NormalizeForParsing(text) \subseteq Int
<1> DEFINE S == {i \in DOMAIN text : text[i] \in DOMAIN Lower}
<1>1. PICK n \in Nat : DOMAIN text = 1 .. n
  BY LenProperties DEF IsText
<1>2. S \in SUBSET (1 .. n)
  BY <1>1
<1>3. DOMAIN Legacy!Chosen(text, S) = 1 .. Cardinality(S)
  BY SameSize DEF Legacy!Chosen, Legacy!Arranged
<1> HIDE DEF S
<1>4. Cardinality(S) \in Nat
  BY <1>2, PlacesFinite, FS_CardinalityType
<1>5. DOMAIN Legacy!NormalizeForParsing(text) = DOMAIN Legacy!Chosen(text, S)
  BY DEF Legacy!NormalizeForParsing, S
<1> QED
  BY <1>3, <1>4, <1>5

\* Two mentions that come last are the same row of the table at the same place.
LEMMA OneLastMention ==
  ASSUME NEW text, IsText(text), NEW keys,
         NEW m \in Legacy!Mentions(Legacy!NormalizeForParsing(text), keys),
         \A n \in Legacy!Mentions(Legacy!NormalizeForParsing(text), keys) :
           m[2] > n[2] \/ (m[2] = n[2] /\ m[1] >= n[1])
  PROVE  Legacy!LatestMention(Legacy!Mentions(Legacy!NormalizeForParsing(text), keys)) = m
<1> DEFINE words == Legacy!NormalizeForParsing(text)
           mentions == Legacy!Mentions(words, keys)
           last(p) == \A n \in mentions : p[2] > n[2] \/ (p[2] = n[2] /\ p[1] >= n[1])
<1>1. DOMAIN words \subseteq Int
  BY WordsNumbered
<1> HIDE DEF words
<1>2. \A p \in mentions : p = <<p[1], p[2]>> /\ p[1] \in Int /\ p[2] \in Int
  BY <1>1 DEF Legacy!Mentions, Legacy!RoomAliases
<1> HIDE DEF mentions
<1>3. \A p \in mentions : last(p) => p = m
  <2> SUFFICES ASSUME NEW p \in mentions, last(p) PROVE p = m
    OBVIOUS
  <2>1. m \in mentions /\ last(m)
    BY DEF mentions, words
  <2>2. p[2] > m[2] \/ (p[2] = m[2] /\ p[1] >= m[1])
    BY <2>1
  <2>3. m[2] > p[2] \/ (m[2] = p[2] /\ m[1] >= p[1])
    BY <2>1
  <2>4. p[1] = m[1] /\ p[2] = m[2]
    BY <1>2, <2>1, <2>2, <2>3
  <2> QED
    BY <1>2, <2>1, <2>4
<1>4. m \in mentions /\ last(m)
  BY DEF mentions, words
<1>5. Legacy!LatestMention(mentions) = m
  BY <1>3, <1>4 DEF Legacy!LatestMention
<1> QED
  BY <1>5 DEF mentions, words

\* resolveDestinationRoom of the first controller answers the room mentioned last.
LEMMA LastMentionAnswered ==
  ASSUME NEW text, IsText(text), NEW S, IsFiniteSet(S), NEW pickup \in S, NEW room,
         MentionedLast(text, S, room)
  PROVE  LET rooms == SetToSeq(S)
         IN  Legacy!ResolveDestinationRoom(text, [i \in DOMAIN rooms |-> Spelling[rooms[i]]],
               Spelling[pickup]) = Legacy!CanonicalRoomKey(Spelling[room])
<1> DEFINE list == SetToSeq(S)
           rooms == [i \in DOMAIN list |-> Spelling[list[i]]]
           keys == {Legacy!CanonicalRoomKey(Spelling[r]) : r \in S} \ {<<>>}
           allowed == {Legacy!CanonicalRoomKey(r) : r \in Legacy!Range(rooms) \cup {Spelling[pickup]}}
                        \ {<<>>}
           mentions(k) == Legacy!Mentions(Legacy!NormalizeForParsing(text), k)
<1>1. Legacy!Range(rooms) = {Spelling[r] : r \in S}
  <2>1. Range(rooms) = {Spelling[r] : r \in S}
    BY SetListed
  <2>2. Legacy!Range(rooms) = Range(rooms)
    BY DEF Legacy!Range, Range
  <2> QED
    BY <2>1, <2>2
<1>2. allowed = keys
  <2>1. Legacy!Range(rooms) \cup {Spelling[pickup]} = {Spelling[r] : r \in S}
    BY <1>1
  <2> HIDE DEF rooms
  <2> QED
    BY <2>1
<1>3. PICK m \in mentions(keys) :
        /\ \A n \in mentions(keys) : m[2] > n[2] \/ (m[2] = n[2] /\ m[1] >= n[1])
        /\ Legacy!RoomAliases[m[1]].key = Legacy!CanonicalRoomKey(Spelling[room])
  BY DEF MentionedLast
<1>4. Legacy!LatestMention(mentions(keys)) = m /\ mentions(keys) # {}
  <2> HIDE DEF keys
  <2> QED
    BY <1>3, OneLastMention
<1>5. mentions(allowed) # {} =>
        Legacy!ResolveDestinationRoom(text, rooms, Spelling[pickup])
          = Legacy!RoomAliases[Legacy!LatestMention(mentions(allowed))[1]].key
  BY DEF Legacy!ResolveDestinationRoom
<1> HIDE DEF rooms, allowed, keys, mentions
<1>6. Legacy!ResolveDestinationRoom(text, rooms, Spelling[pickup])
        = Legacy!CanonicalRoomKey(Spelling[room])
  BY <1>2, <1>3, <1>4, <1>5
<1> QED
  BY <1>6 DEF rooms, list

\* The room meant for the object is the one the first controller answers.
LEMMA SameRoomAnswered ==
  ASSUME MeansWhatItSays, LastRoomAsMeant, RoundInv, TaskIsMeant
  PROVE  ReadersAgree
<1> SUFFICES ASSUME AtWork, ~task.destination_is_avatar PROVE ReadersAgree
  BY DEF ReadersAgree
<1> DEFINE meant == script.meaning
           room == IF meant.destination_room = None THEN meant.pickup_room
                   ELSE meant.destination_room
           S == DOMAIN aliases.rooms
<1>1. aliases \in AliasFiles /\ AliasesLoad(aliases) /\ script \in Scripts
  BY DEF RoundInv, TypeOK, TaskIsMeant
<1>2. /\ meant.pickup_room = task.pickup_room /\ meant.destination # "avatar"
      /\ meant.destination_room \in {None, task.destination_room}
  BY DEF RoundInv, TaskFitsLayout, TaskIsMeant, ReadsAs
<1>3. IsText(script.text)
  BY <1>1 DEF MeansWhatItSays
<1>4. IsFiniteSet(S) /\ meant.pickup_room \in S /\ MentionedLast(script.text, S, room)
  BY <1>1, <1>2 DEF LastRoomAsMeant
<1>5. room = IF meant.destination_room = None THEN task.pickup_room ELSE task.destination_room
  BY <1>2
<1> HIDE DEF room, S
<1>6. LET rooms == SetToSeq(S)
      IN  Legacy!ResolveDestinationRoom(script.text, [i \in DOMAIN rooms |-> Spelling[rooms[i]]],
            Spelling[task.pickup_room]) = Legacy!CanonicalRoomKey(Spelling[room])
  BY <1>2, <1>3, <1>4, LastMentionAnswered
<1> QED
  BY <1>5, <1>6 DEF ReadersAgree, S

\* The two controllers of this repository take an object to the same room, in every
\* state of a round: the second room of the rebuilt task, or its pickup room when the
\* instruction has no second one, is what resolveDestinationRoom answers from the text.
\* The hypotheses are about the texts alone: the room meant is mentioned last.
THEOREM ReadersAgreeAtWork ==
  ASSUME MeansWhatItSays, LastRoomAsMeant
  PROVE  Spec => []ReadersAgree
<1>1. Init => TaskIsMeant
  BY MeaningBegins
<1>2. RoundInv /\ TaskIsMeant /\ [Next]_vars => TaskIsMeant'
  BY MeaningStays
<1>3. RoundInv /\ TaskIsMeant => ReadersAgree
  BY SameRoomAnswered
<1> QED
  BY <1>1, <1>2, <1>3, RoundBegins, RoundGoesOn, PTL DEF Spec

=============================================================================
