# Verification of the RoboCup Japan Open 2026 robot software

TLA+ models of the software for the Handyman, Interactive Cleanup and Human Navigation tasks, their TLC runs
and their TLAPS proofs. Paths below are relative to the repository; `R/` stands for
`src/handyman_rebuild_ros2/`, `H/` for `src/handyman_ros2/`, `C/` for `src/interactive_cleanup_ros2/`, `N/`
for `src/human_nav_ros2/`.

## 1. The system

There are two generations. `R/` with the search execution under `training/scripts` is the rebuilt Handyman:
several nodes and processes with barriers between them. `H/`, `C/` and `N/` are controllers of one node each:
a step machine that is advanced by a loop and fed by callbacks of the same thread.

| Component | State it keeps | Operations | Talks to |
|---|---|---|---|
| Navigation executor (`R/src/navigation_executor.cpp`, `deferred_navigation_client.hpp`) | the plan and its cursor, the generation token, one goal handle, four kinds of timers, `sealed_`, the counter of pending responses, the maps of owned and cancelling goals, a cancellation fault | `navigateToRoom`, `navigateToSearchPoint`, `cancel`, `sealAndCancel`, `cancellationDrainState`; the callbacks of timers, goal responses, results and cancel replies | Nav2 `NavigateToPose` server (action messages); its owner through the completion, the cancellation observer and the dispatch intent |
| Coordinator (`R/src/coordinator_node.cpp`) | task state machine, navigation barrier, search barrier, active search request | six moderator events, navigation outcomes, three kinds of search status | moderator (topics), executor (calls and callbacks), search execution (request and status topics) |
| Task state machine (`R/src/task_state_machine.cpp`) | one of sixteen states, the task | one guarded method per transition | coordinator |
| Search worker (`R/src/search_worker_main.cpp` and the `search_*.hpp` headers) | execution guard, goal registration, lease, map evidence, cancel reporter | one dispatch per process, protection callback, retirement, lifetime | supervisor, registry, runtime |
| Goal registry, journal, supervisor (`training/scripts`) | accepted goals, durable rows, watchdog clocks | registration, intents, cancellation by UUID, restart recovery | worker, runtime, Nav2 |
| Search session runtime (`training/scripts/search_session_runtime.py`) | session, observer and worker processes, public and local cancellations | request, observation end, next point, drain, disposal | coordinator, worker |
| Search observation (`search_arrival_ros.py`, `search_scan.py`, ...) | arrival evidence, head stage, scan schedule | per-sample updates | runtime |
| Instruction parser, layouts, navigation plan (`R/src/instruction_parser.cpp`, `environment_config.cpp`, `navigation_plan.cpp`) | the alias file, the catalog of layouts, a plan's candidates | parse a text, validate a catalog, `resolveTask`, plans for a room, a search point, a destination | called by coordinator and executor |
| Simulated moderator (`R/src/simulated_moderator_node.cpp`) and `simulate_modules` | step, handshake ticks, verdict | timer, reports of the coordinator, exit code | coordinator (topics) |
| Handyman controller (`H/src/handyman_sample.cpp`) | step, environment, instruction, patrol point, navigation flags, the latest map | the loop's steps with the waits nested in them, messages, results of goals, the map | moderator, Nav2, map server |
| Interactive Cleanup controller (`C/src/interactive_cleanup_sample.cpp`) | step, commands heard, cue window and cues, target and destination, retry counters, navigation flags | one pass per step, messages, results of goals | moderator, the avatar's pointing, Nav2 |
| Human Navigation controller (`N/src/human_navigation_sample.cpp`) | step, session flags, queue of guidance and its two counts, speech state, cached avatar status, placement check | the loop with placement check and queue, five kinds of messages | moderator, avatar's speech and hands |
| Initial pose localizer, vision, map and training tools, vendored bridge | see `components` in `PROJECT.json` | | |

The hard behaviour is in the seams. Every node is a single-threaded ROS executor, so a callback is atomic;
what interleaves are messages. A goal may be accepted after its plan is gone, a result may overtake the reply
to a cancel request, a status report may be late or repeated, a process may die between a durable record and
the action it announces, a wait nested in a step runs callbacks in the middle of it, a flag may be set by the
goal before the last. What must hold in spite of it:

* executor: no goal runs that nobody waits for or stops; "drained" is only said when it is true; results of
  old goals do not touch a new plan; every wait ends;
* coordinator: its own goals and a search execution never drive together; a fault is final; the task state,
  the plan and the request agree; the barriers open again;
* search execution: every released goal is in the journal, no release without registration, lease and map
  evidence, retirement and "cancel_drained" only when no goal is left, also over crashes; a request is
  answered once, and only when nothing works for it any more;
* parser and layouts: the task is what the instruction means, and every plan made for it ends in its room;
* Handyman controller: it works on the moderator's task, on the map of its layout, and takes no arrival of
  another goal for its own;
* Interactive Cleanup: the robot acts on the latest pointing, misses no command, and gets back to where it can
  take a task;
* Human Navigation: guidance stays within the limits, is not said over the avatar, and gets out.

## 2. Modules

### The rebuilt Handyman

`NavigationExecutor.tla` models the executor together with the deferred action client and, as an external
environment, the Nav2 server. One action per timer, callback and owner call. `generation_` is only compared
for equality, so the model keeps `current`, the goal whose token is the current generation. `outcome` is what
a step handed to the completion, so that composing modules can react in the same step, as the code does.
Abstracted: poses (a candidate is a number of route waypoints), the verification of the robot's pose (it may
succeed or fail), wall-clock durations (a timer that exists may fire; the startup window is a number of
ticks). Branches no state reaches are left out: `sendCurrentGoal` without a candidate (`advance` keeps the
cursor inside the plan) and a negative dispatch decision for a request that is still held (a denial is
preceded by the seal, which discards it).

`TaskStateMachine.tla` is the table of transitions. `Coordinator.tla` extends both and adds the two barriers,
the request and the moderator. The search execution is external there: it may take up a published request
late, break down, drain or fail; `statuses` holds every message it ever sent, and any of them may be received
at any time, repeatedly, or never. Every executor callback runs together with the notices and the completion
it calls, as in the code. The returns of `publishSearchRequest` for a task without layout, room or search points
are left out because none can be taken: it is called when a room was reached or entered already, a task with a
room was resolved against the catalog, and the catalog refuses rooms without points (`EnvironmentValid` of
`TaskPlanning`, theorem `TaskFits`).

`RobotDrive.tla` is the abstract promise of the two barriers: driving and searching exclude each other, and
neither starts before the other has stopped. `Coordinator!HandsOver` is the refinement: the coordinator
implements `RobotDrive!Spec` under a mapping from goals that run or can still be accepted, and requests that
run or can still be taken up.

`SearchDispatch.tla` extends the executor with the worker that owns it and the runtime that owns the worker.
The worker is `search_worker_main.cpp` with the execution guard: map evidence, lease, goal registration,
cancel reporter, retirement and lifetime. The runtime is what one session does to its worker: the goal
registry with its result queries and cancellers, the dispatch journal, the supervisor with its watchdog,
failure and cancellation of the session, the end of the process and its restart. Both processes may end at any
time; `rows`, the journal, is all that survives of the runtime. `told`, `acked` and `issued` are the messages
ever published: receiving one is a separate action, so each may be late, repeated, reordered or lost.
Challenges and deadlines are events that may happen at any time. Abstracted: payload validation and duplicates
(ignored messages change nothing), the renewal of a lease that is already held, the look `checkMap` takes
inside another callback (a `MapFails` just before it). The new namespace of a restarted runtime appears as the
absence of any message from it to the old worker. The observer's part in `can_retire` only delays the
retirement. A session goes on from here in `SearchSession`.

`SearchSession.tla` is the runtime seen from outside its worker: the consumer of requests with its map gate,
public and local cancellations, the tick with its deadlines, the observer and worker of one search point after
the other, the head, the end of a session, faults and the shutdown, with the coordinator that publishes and
cancels requests. A request is delivered once or lost; a cancellation may be received any number of times and
before its request. Deadlines are the choice `late` of a tick. A worker here runs, is retired or is at fault:
its inside, the journal and the restart of the runtime are `SearchDispatch`. A head that is never tilted
stands for a runtime without one, a room where no view calls for the next point for one that has a single
point.

`SearchAnswer.tla` is the abstract promise of the runtime: a request is answered by drained or failed and not
by both; drained only when the cancellation was read and nothing works for it; an observation is published
with the drain, and only if the runtime itself asked for the end. `SearchSession!AnswersOnce` is the
refinement.

`TaskPlanning.tla` is the chain of pure functions from a text to the poses a robot drives to: normalisation,
aliases and matches, the rules of the parser, validation of a catalog, `resolveTask`, the plans with their
candidates and doorways. A text is a sequence of tokens, a room is a rectangle, and where the code iterates
over an unordered map the order is a choice. `PlacementNavigation.tla` is `resolveDestinationRoom` of `H/`,
which answers one of these questions a second time. `Lists.tla` is what both do with lists: `Arranged` is a
stable sort, in which the k-th element is the one with k - 1 before it, and `Chosen` a loop that keeps some of
the elements. Said that way and not by recursion, one can prove what they leave.

`SimulatedRound.tla` composes the simulated moderator with the coordinator of `simulate_modules`, which uses
the real parser and layouts of `TaskPlanning` and the real `TaskStateMachine`. Topics deliver in order from
the moment the subscription is discovered; what is published before is lost, and a callback that publishes
several messages may lose the first ones only. The moderator's instruction and the coordinator's files are
inputs, so its hard-coded script is one of many. `ScriptsAssumption` asks of a script what the protocol
requires, an environment and a text. `LayoutsAssumption` says what a layout file is once YAML has read it,
valid or not: lists, numbers, and rooms with names; `PlanAssumption` that a plan has at least one attempt, as
the coordinator makes sure with `std::max`. `RoundInv` says where the two nodes are in their conversation.

### The controllers of one node

In all three a goal has no identity for the callbacks of the action client: they set flags that a later step
reads. The models keep for which goal a flag was set, which the code cannot know, and the properties speak of
that.

`HandymanPlaces.tla` holds the names, patrol points and destinations that `H/` knows by heart,
`HandymanSample.tla` its step machine. `inner` is the wait nested in a step (`spinForSeconds` and the like),
during which callbacks go on. Loading a map is a sequence of phases that can each fail. The moderator has a
list of tasks and may time out at any moment. `patrol_step` is set to 0 once the room is reached, when nothing
reads it any more. The robot's pose and the outcome of detection and grasp are choices. Two steps of a load
depend on how long they take. `NavigationStarted` stands for the sleeps of `startAMCL`, `publishInitialPose` and
`startNav2`, eleven seconds at the end of which the moderator has read what the node said before;
`CostmapsCleared` waits for the replies of two services, and an instruction that answers an earlier
`I_am_ready` is read, and dropped, before they are in. A message that stays under way for longer than this is
outside the model. A load kills Nav2 with every goal in it (`NavKilled`): such a goal never reports, and the
action client still knows it, while it forgets a goal whose result it read. Cancelling one of those throws
(`TimeoutThrows`), which ends the node.

`InteractiveCleanup.tla` alternates one pass of `runStateMachine` with `spin_some`, which runs each
subscription's callback at most once. A timed wait is the choice between another pass and the one that sees
the timeout. No goal is ever cancelled. Commands, cues, target and destination carry the pointing they come
from. Perception, the resolvers of objects and places, and the servoing of the hand answer by choice. The node also
subscribes to `/hsrb/message/to_robot` with the same handler; nothing in the repository publishes there, its
README (`C/README.md:43`) lists only `/interactive_cleanup/message/to_robot` for the messages of the competition,
and the model has this one topic. With both in use a spin could handle two messages. `MinutePasses` is an
assumption on timing: a message is read by the next spin, within milliseconds in most steps and a few seconds
in those that sleep, so that a timeout or time limit of a minute or more does not coincide with one under way.
Without it a limit that ends a minute with the answer already sent could overtake that answer.

`HumanNavigation.tla` has a `turn`: one spin reads each subscription, in the order they were created, at most
once, then placement check, queue and step follow. A round takes no time; the surroundings move between
rounds. A question is asked again after its limit, whatever is still under way, and any answer may be lost or late.
`speechAsked` counts the questions about the speech that are under way, up to `MaxAsked`; `outdated` is how many
of them were asked before the last message was said. Their answers come in that order. One to an outdated
question may say anything: when it says that the avatar is silent, `speech` becomes `WasSpeakable`, which the code
takes for `Speakable`. The hands of the person move slower than the
polling. What messages say is left out. The sessions are not bounded.

`GuidancePhrases.tla` is what they say of a place: which things of the scene the sentence about the object and
the one about the destination name. These are pure functions of the task information. A name is a sequence of
words, a length is a number of tenths of a metre and distances are compared by their squares, which orders them
as the code's floating-point distances do but for rounding. A phrase is a relation and the words of a name; the
sentence around it is left out. Where the code keeps the best candidate in a loop over the furniture or the
objects, the model takes the least one by all that the loop compares (`FirstLeast`), and `MCHumanNavigation`
compares that with the loops. Left out are functions nothing calls (`nearestNearLandmarkName`,
`getFinalDestination`, `buildContextJson` and what only they use) and the test for a region of a rotated
destination.

The modules whose name ends in `_proofs` hold the theorems about the module they are named after, those about
`GuidancePhrases` are in `HumanNavigation_proofs`, and those about the instances in `SearchSession` and
`Coordinator` with the module that has the instance. The MC modules hold constants for TLC, and `MCHumanNavigation` the small world on which the sentences are evaluated. Definitions
marked "Seeded fault" are wrong variants of the definition that follows them; each is used to show that a
property notices that mistake, none is part of a specification.

## 3. Runs

| Run | Question | Bounds |
|---|---|---|
| `executor` | safety of the executor with a cancellation observer and search-owned goals | three goals, two candidates of which one has a route waypoint, two attempts, one startup tick |
| `executor_liveness` | a plan ends; a sealed executor settles | one plan with a goal for each of its possible submissions |
| `executor_unobserved` | the executor as the search worker uses it: a refused cancellation leaves no trace (violated, see findings) | as `executor` |
| `coordinator` | coordinator with executor and barriers | two goals, two requests, two attempts |
| `coordinator_blocked` | can the navigation barrier lock for nothing? (it can, see findings) | as `coordinator` |
| `coordinator_ready` | can the handshake of the next task be accepted while a goal is still alive? (it can) | as `coordinator` |
| `search_dispatch` | one goal with every fault at once: are journal, reports and restart truthful, does an orphaned worker stop its goal? | one goal, two attempts |
| `search_session` | does the runtime keep the promise of `SearchAnswer`, is a fault final, is every request answered? | two requests, two points |
| `simulated_round` | is every instruction parsed as meant and planned into its room, is the verdict true, does a round pass? | instructions in several forms over two rooms, two objects and two pieces of furniture; alias and catalog files, bad ones included |
| `handyman_sample` | does the controller work on its task, map and goal, is every handshake answered? | three tasks, two goals, poses inside, near and far from the room |
| `interactive_cleanup` | latest pointing, commands and reports, and the way back to `Ready` | two tasks, two goals at a time, two repeated pointings |
| `human_navigation` | limits, speech and end of a session, and the way out of the queue, with lost and late answers | two messages, one of them automatic; two questions about the speech under way; any number of sessions |

Three goals are enough for an old goal being cancelled, one whose acceptance is late and a current one; two
attempts and two candidates reach both ends of `advance`. Counters are bounded by these constants alone; the
finite set of goals bounds how often anything is sent, and a state in which the goals are used up is a stop of
the model and not of the code, hence `CHECK_DEADLOCK FALSE`. All faults of the search execution are combined
with one goal only, since two goals with all of them exceed what can be explored; what happens to an older
attempt while the next is held, sent or running is covered by the theorems of `SearchDispatch_proofs`, which
hold for any number of goals.

Two requests are the one at work and the one that supersedes it, two points make one transition. Three tasks
let the messages of the task before the last be still under way. Two goals let a late result meet a new goal;
the cleanup server forgets a goal once it is told of, so its two slots serve any number. Two limits of
guidance are enough for a message that is automatic and one that is not, in either order, at the limit of
each; the theorem `WithinBudget` holds for all. Two questions about the speech are one from before the last message
and one since, whose answers the node cannot tell apart; `TalksInTurn` holds for any number. In `simulated_round` the handshake is repeated every second
tick instead of every fifth, which only makes repetitions more frequent, and four messages may wait, fewer
than the ten the topic keeps; a length unit is 0.1 m.

`executor`, `search_dispatch`, `search_session`, `simulated_round`, `handyman_sample` and
`interactive_cleanup` may stop: the goals, requests or tasks of the model are used up, or the process has
ended. `human_navigation` never stops and is checked for deadlock. Each state machine has a type invariant. It
is proved for all of them; the runs list it only as part of `IInv`.

Fairness. Every callback and timer of a ROS node runs if it is ready, and a published message that was matched
is delivered; nothing is assumed of goals ending, of people or of perception, and of moderators only what is
said below.

* `executor_liveness`: weak fairness of each timer and callback and of the server's answer to a send-goal
  request.
* `search_dispatch`: weak fairness of the worker's callbacks and of the expiry of a lease that no runtime
  renews, which is a deadline checked by a 100 ms timer; nothing of the runtime, the server or the messages.
* `search_session`: weak fairness of the tick that sees its deadlines passed, and of the look that finds the
  request expired: a request has a deadline of its own, and every callback that looks takes the step.
* `simulated_round`: weak fairness of the two executors, their timers and the discovery of the topics. The
  round may take 15 seconds or not.
* `handyman_sample`: weak fairness of the loop, of the messages and of a moderator that asks again and judges;
  strong fairness of starting the map server, of the map's arrival and of a load that is repeated, because the
  code retries each of these without limit and none of them fails for ever.
* `interactive_cleanup`: weak fairness of the passes, of the timeouts, the messages and of a moderator that
  asks again and judges. `MaxRepeats` hides one thing that `SessionEnds` says in its comment: the node itself
  would ask for the place for ever.
* `human_navigation`: weak fairness of the loop and of the end of speech, strong fairness of the rounds that
  say something or ask for the speech state, whose intervals pass, and of answers about it, of which some
  arrive.

### Findings

* `coordinator_blocked`: `stopNavigation` locks the navigation barrier for every active plan, also between two
  attempts or while the server is awaited, when the executor has no goal to cancel. No notice ever opens it;
  the coordinator then refuses every handshake and dispatch.
* `coordinator_ready`: the goal timer without a handle seals the executor and drops its plan, so the
  `Task_failed` that follows locks nothing, and the next handshake is accepted while the goal can still be
  accepted and run.
* `executor_unobserved`: the search worker installs no cancellation observer, so a refused cancellation leaves
  no fault and `cancel_drained` is reported once the goal ended by itself, against what the repository
  documents for the executor. `search_dispatch` shows what still holds there: drained is quiet and accounted
  for.

Noted while reading, without a run:

* `H/src/handyman_sample.cpp:1517`: after 60 s the controller cancels through the last handle it got. When the
  request of the goal that is out was never answered, that is the handle of an earlier goal; once its result was
  read the client has forgotten it, `async_cancel_goal` throws, nothing catches it, and the node ends instead of
  "retrying" (:1515). The same happens at :1566. It is in the model (`TimeoutThrows`).
* `N/src/human_navigation_sample.cpp:1017`: a comment says that only a lost answer is asked for again, but the code
  cannot tell a lost answer from a late one. It asks a second time, says a message on the first answer, and the
  next one on the second answer, which was given before the first message and arrives while the avatar speaks.
  That is in the model too; `TalksOverOnlyIfLate` says that it is the only way to talk over the avatar.
* The coordinator does not know the fault reasons `search_head_failed` and `session_ended_or_changed` of the
  search runtime (`search_session_runtime.py:68`, `:276`), so only its own deadline ends such a search.
* A request cancelled before the runtime read it is never answered as cancelled; when it arrives late it locks
  the runtime.
* A fault in a transition to the next point, after a public cancellation, is reported under the private id of
  the transition, so the coordinator learns of it by its three-second deadline.
* `extractInfo` of `H/` takes every name of its lists that a word contains, so `soysauce` names `sauce` too.
* `H/src/handyman_sample.cpp:370`: an initial pose that cannot be published is only warned about.
* `C/src/interactive_cleanup_sample.cpp:1545`: without a Nav2 server `sendNavGoal` returns early and leaves
  the flags of the goal before.
* `N/src/human_navigation_sample.cpp:795`: putting down a wrong object unlocks the prompt, and the placement
  check of the target goes on if that one is taken up again.
* The answer `I_am_ready` that is published before its topic was discovered is never repeated (`ReportLost` in
  `SimulatedRound`).
* `UsesLastMentionFromInstruction` of the placement navigation test expects `living` with `bedroom` as the
  only room given, while `resolveDestinationRoom` only considers the rooms given and the pickup room.

## 4. Proofs

`NavigationExecutor_proofs.tla` proves for every number of goals, candidates, attempts and both kinds of owner
(assumptions `GoalsAssumption`, `PlanAssumption`, `ModeAssumption`): type correctness, `NoGoalAbandoned`,
`DrainedMeansQuiet`, `RefusalNeverDrains` (with an observer), `ActivePlanHasTimer` and the action properties
`SealedSendsNothing` and `OutcomeIsOfPlan`. Hardly any of them is inductive by itself. `IInv` adds what they
rest on: the counter equals the number of requests in flight (`PendingCounts`), nothing of a plan survives it
(`NothingLeft`), the handle is that of the current goal and no sending timer runs beside a goal in flight
(`HandleIsCurrent`), what the client knows of each goal (`GoalsAreOwned`), a goal that runs uncancelled is the
handle's (`RunningIsHandled`), and every unconfirmed cancellation is tracked or has left the fault
(`CancelsAreTracked`). There is one lemma per action (`...Keeps`) and two about cardinalities.

`SearchDispatch_proofs.tla` proves about the worker and its runtime, for every number of goals and under
`WorkerAssumption` (no observer, search-owned goals): type correctness, `SentIsJournaled`, `ClosedIsOver`,
`DrainIsAccounted`, `RetiredMeansQuiet` and `RestartFindsQuiet`. `DispatchInv` carries `IInv` along and adds
the chain the safety of a release hangs on: told before recorded, recorded before acknowledged, acknowledged
before sent (`IntentComesFirst`); what the worker told of each goal (`ToldOfGoals`); what the session has in
memory against the journal (`MemoryFollowsJournal`); that a drain stays one (`DrainStays`, from `SealedStep`
of the executor) and that a retirement comes after it (`RetirementFollowsDrain`). Two lemmas do most of the
work: `Recording`, for a callback of the worker that tells what the executor did in it, and `SilentKeeps`, for
a step nobody tells of (the server, a canceller, the death of the worker). They rest on `Moves`, how a request
can move in one step. The steps of the runtime leave the executor alone (`RuntimeKeeps`); `ClosingKeeps` and
`ControlKeeps` treat those that close rows and those that record nothing.

`Coordinator_proofs.tla` proves about the coordinator with its executor and the search execution, for every
number of goals, requests and tasks and under the assumptions of the executor and `CoordinatorAssumption`: type
correctness, `PlanMatchesTask`, `SearchHasRequest`, `OneUncancelledGoal`, `FaultIsFinal`,
`StallsOnlyWhenBlocked` and the refinement `HandsOver`. `CInv` carries `IInv` along and adds what the two
barriers know: a request that is in flight belongs to the plan, or the navigation barrier waits for it, or the
executor is sealed, and a tracked cancellation locks the barrier (`GoalsAreGuarded`); an execution that runs or
can still start is the active request, or the one the search barrier waits for, or the barrier is at fault, and
`cancel_drained` is only said of one that is over (`SearchesAreGuarded`). Without the second, a coordinator
whose barrier is open could start a plan beside a search nobody remembers. The callbacks of the executor are
treated together (`CallbackKeeps`, from what `Callback...` says of plan, flight and cancellations), since they
differ for the coordinator only in their notices. `HandoverIsExclusive` is about the abstract handover alone,
and `NeverBothDrive` follows from both. It is proved here as a lemma about the instance `Drive`.

`SearchSession_proofs.tla` proves about the runtime, for every number of requests and points
(`SessionAssumption`): type correctness, the refinement `AnswersOnce` and the action property `FaultsLatch`.
`SessionInv` says that a request that was not delivered has neither session nor answer (`RequestsAreFresh`),
that the session knows of the cancellation that was read and keeps its observation only for one it had asked
for (`CancelIsKnown`), and that a locked or closing runtime and a refused request have a session at fault, while
a session at hand is not drained (`FaultIsKnown`). The last is what makes a second answer impossible. One tick
of the code is several decisions; `TickOutcome` lists what can come of it, and both the invariant and the
refinement are proved from that list. `DrainedStaysOver` is what the abstract answer promises, `DrainIsTheEnd`
what the runtime inherits.

`InteractiveCleanup_proofs.tla` proves `ActsOnLatestPointing`, `NoCommandLost` and `ReportsAreExpected` and type
correctness for every number of tasks and repeated pointings (`CleanupAssumption`, `NoneAssumption`). None of
them speaks of what is under way, and all depend on it. `ConversationInv` puts every state in one of four:
`BetweenTasks`, where the last task is forgotten; `MissionOver`; `VerdictDue`, where the moderator is done with a
task and the robot is not; `InTask`, where what is in the inbox, by the moderator's phase, says how far the
robot is (`PickAhead`, `PickKnown`, `BothKnown`, `AskedAgain`), together with what it may have said
(`ReportsInTask`). There is one lemma for each of the four and each kind of step: a pass, a message read, a step
of the moderator.

`HumanNavigation_proofs.tla` proves for all limits (`GuidanceAssumption`) `GuidanceWithinBudget`, type
correctness and the action properties `TalksOverOnlyIfLate` and `OnlyCompletionAfterEnd`. The first is not
inductive: that a replaced or evicted message makes exactly the room the new one needs rests on `Fits`, which
says that at most one automatic message waits and that its place and those of the others are free; `Counts`
bounds the two counts. The other two rest on `TalkInv`: an answer to a question asked since the last message
makes the speech state speakable only when the avatar is done (`SpeechIsKnown`); the completion is alone in the
queue (`CompletionIsAlone`). All of it holds however many questions are under way and however late their answers
are. The lemmas on queues (`InsertedQueue`, `EvictedQueue`) are about the two operations the code performs on its deque.

The same module proves of `GuidancePhrases`, for every scene and vocabulary (`WordsAssumption`) what a listener needs: the
two sentences name different furniture and neither names the object (`SentencesDiffer`); what the object is
said to be on is below it and has a name of its own (`SupportIsBelow`); what it is said to be near is within
three metres and the only thing of its name (`NearbyIsUnambiguous`); the destination is named whenever something
can name it (`PlaceIsNamed`). `MCHumanNavigation` evaluates the same statements on a small world
(`SentencesHold`, `SentencesOccur`), where every kind of phrase occurs.

`HandymanSample_proofs.tla` proves about the Handyman controller, for every list of tasks the node can read
(`JobAssumption`, `NoneAssumption`) and every number of goals: type correctness, `WorksOnCurrentTask`,
`MapIsOfEnvironment`, `ArrivalIsOwn` and `CreditIsForTask`. `ControllerInv` is about the messages: those of two
tasks are separated by a `Task_failed`, or the earlier one is the `Task_succeeded` that is read next
(`TasksAreSeparated`); an `I_am_ready` stands alone in the outbox (`ReadyStandsAlone`), so that the moderator's
phase moves only by a report of its own task (`ReportsAreOfTheTask`); the layout in use is that of the
moderator's task until a failure is read (`LayoutIsOfTheTask`); a goal that can still report is one of the leg
the robot is in (`GoalsAreOfTheLeg`). Were two tasks not separated, a late `Environment` would change the layout
under a robot at work. `ArrivalIsOwn` has one hypothesis in its theorem, `ReadAsMeant`: the names `extractInfo`
finds in an instruction are those the instruction means. It is not true of every text, since a word names every
name it contains; `ArrivalsAreOfReading` is what holds without it.

`SimulatedRound_proofs.tla` proves about the simulated round, for all scripts, files and vocabularies, and
whenever the topics are discovered: type correctness, `VerdictIsTrue` and `TaskFitsLayout`, that the task at work
is of the layout the moderator announced and fits it. `RoundInv` puts every state in one of six: `Calling`, the
handshake is repeated; `Ready`, it was answered, and the answer may be lost; `Instructed`, the instruction is the
last message under way; `Rejected`; `Playing`, where the result that comes next says what was reported; `Played`,
where the moderator's last words are under way. In each, `Reported` says which reports were sent and which the
moderator has not heard yet. What keeps a report from being lost after the first one is that the topic was
discovered when that one arrived, and what keeps a repeated handshake from being answered again is that it can be
under way in the first three only. `LayoutIsKnown` carries the layout from its announcement to the instruction.

The same module proves `PlansReachTheTask`, for every layout file, number of attempts and pose of the robot
(`LayoutsAssumption`, `PlanAssumption`). A finite set with a total order can be enumerated (`EnumerationExists`,
since there is no least number of elements for which it fails: `WFMin` of `WellFoundedInduction`), so `Arranged`
has every element, once (`Arrangement`), and sorting leaves all candidates (`OrderedCovers`). A doorway for each
pose before the next pose leaves all of them too (`ExpandedCovers`, over `GridCell`: every pair of pose and
doorway has its place). With `maximum_attempts` at least the number of candidates every pose is then tried
(`Tried`); that the poses are in the room is what the catalog checked before the work began (`WorkingLayout`).

About the parser it proves `OneReading`: where no two names share an alias, a text has at most one reading,
although the code searches unordered maps and sorts matches of equal place and length in any order. The shipped
`config/name_aliases.yaml` has no shared alias. `InstructionAsMeant` and `ReadersAgreeAtWork` state
`ParsedAsMeant` and `ReadersAgree` under hypotheses about the texts alone. `MeansWhatItSays`: the vocabulary
is unambiguous, and one run of the parser on each text finds what is meant or rejects the text.
`LastRoomAsMeant`: the room meant for the object is the one mentioned last. They are hypotheses, because which
text means what is not in the code; every instruction of `MCSimulatedRound` satisfies both. What is proved is
the rest: no repeated handshake, lost answer, earlier layout, rejected or resolved task makes the robot work on
something else than the text says (`TaskIsMeant` is the invariant: the parser's file, the instruction under way
and the task at work), the room is resolved in the announced layout, and both controllers take the object there.

The constants' assumptions are evaluated by the runs on their instances.

Only model-checked:

* all liveness (`SealSettles`, `PlanEnds`, `OrphansAreCancelled`, `SearchIsAnswered`, `RoundPasses`,
  `HandshakeCompletes`, `SessionEnds`, `GuidanceGetsOut`), which is outside what the prover does;
* that a given text means what `MCSimulatedRound` says it means: the two hypotheses above are evaluated on its
  instructions, through `ParsedAsMeant` and `ReadersAgree`, and hold there; they are not claims about every text.

Every safety invariant and action property that a passing run checks is stated by a theorem.

## 5. Plan

Done: the executor, the coordinator with its abstract handover, the search worker with its journal, the search
runtime with its abstract answer, the three controllers, the sentences of one of them and the simulated round,
each with its proofs, and planning, whose plans and readings are
proved with the round.

What would come next, in this order:

1. `SearchScan`, the observer: bindings and action status, arrival gate, head stage, observation window and
   the schedule, with counters and deadlines as ticks.
2. The path of `Mission_complete` in the coordinator, and a cleanup node without a Nav2 server.

## 6. What is not modelled

Geometry, perception and numeric thresholds are answers chosen freely (pose verification, arrival, detections,
the arm, the servoing of hand and head), except for the rectangles and the tolerance of `TaskPlanning`. YAML
syntax, feedback logging and the clearing of costmaps have no effect on control. Of the observer of a search
only its end is modelled. Failures to write a file in the middle of a handler of the runtime are left out, and
so are an operator's tool (`single_search_request.py`) and the candidate poses around a piece of furniture of
`H/`. The initial pose localizer is one timer that publishes one transform. The older copies of the Human
Navigation node and the keyboard teleoperation nodes are not part of a task. Training, dataset, map and bag
tools are offline programs. Message packages, bridges and sample clients of other projects are vendored.
`PROJECT.json` lists each part with its status.
