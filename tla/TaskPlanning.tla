---------------------------- MODULE TaskPlanning ----------------------------
(***************************************************************************)
(* From the text of an instruction to the poses the robot drives to: the   *)
(* name aliases and the rule based parser, the catalog of layouts with its *)
(* validation and resolveTask, and the construction of a navigation plan.  *)
(*                                                                         *)
(* A text is a sequence of tokens.  Lower gives the lower-case word of     *)
(* each token made of letters and digits; any other token separates words. *)
(* Poses are whole multiples of one length unit and every room region is   *)
(* a rectangle, as in all the layouts of config/environments.              *)
(***************************************************************************)
EXTENDS Lists, Integers, SequencesExt

CONSTANTS
  None,      \* the empty string, or an absent pose
  Lower,     \* tokens that are words -> their lower-case spelling
  Spelling,  \* canonical names -> the tokens of the name itself
  Tolerance, \* 0.20, the boundary tolerance of routesForTarget
  Layouts    \* 4, the number of layouts a catalog must list

-----------------------------------------------------------------------------
(* Instructions.                                                           *)

\* RuleBasedInstructionParser::normalize.
Normalize(text) ==
  LET words == Chosen(text, {i \in DOMAIN text : text[i] \in DOMAIN Lower})
  IN  [i \in DOMAIN words |-> Lower[words[i]]]

Groups == {"rooms", "objects", "destinations"}

\* NameAliases::loadFromFile succeeds on a file, a function from its groups to
\* the aliases of each canonical name.
AliasesLoad(file) ==
  \A g \in Groups : g \in DOMAIN file /\ \A name \in DOMAIN file[g] : file[g][name] # {}

\* loadAliasGroup: every name is an alias of itself.
Aliases(file, group) ==
  [name \in DOMAIN file[group] |-> file[group][name] \cup {Spelling[name]}]

IsAt(phrase, words, position) ==
  /\ phrase # <<>> /\ position + Len(phrase) - 1 <= Len(words)
  /\ \A k \in DOMAIN phrase : words[position + k - 1] = phrase[k]

\* findMatches: where each name is mentioned, by the longest alias found there.
FindMatches(words, aliases) ==
  LET places(name, phrase) ==
        {[canonical |-> name, position |-> i, length |-> Len(phrase)] :
           i \in {i \in DOMAIN words : IsAt(phrase, words, i)}}
      all == UNION {UNION {places(name, Normalize(a)) : a \in aliases[name]} :
                    name \in DOMAIN aliases}
  IN  {m \in all : \A n \in all : n.canonical = m.canonical /\ n.position = m.position
                                => n.length <= m.length}

Before(m, n) ==
  m.position < n.position \/ (m.position = n.position /\ m.length > n.length)

\* The names that front() and back() of the sorted matches may give; names
\* with the same alias are in no particular order.
FirstMentioned(matches) ==
  {m.canonical : m \in {m \in matches : \A n \in matches : ~Before(n, m)}}

LastMentioned(matches) ==
  {m.canonical : m \in {m \in matches : \A n \in matches : ~Before(m, n)}}

NoTask ==
  [environment |-> None, pickup_room |-> None, target_object |-> None,
   destination |-> None, destination_room |-> None, destination_is_avatar |-> FALSE]

\* What parse makes of the names it found, and of the last room among several.
Told(task, room, object, destination, last) ==
  [task EXCEPT !.pickup_room = room, !.target_object = object, !.destination = destination,
               !.destination_is_avatar = (destination = "avatar"),
               !.destination_room = IF destination = "avatar" THEN None ELSE last]

\* RuleBasedInstructionParser::parse: the tasks it may make of a text, none
\* when it rejects the text.
Parse(text, file, task) ==
  LET words == Normalize(text)
      rooms == FindMatches(words, Aliases(file, "rooms"))
      objects == FindMatches(words, Aliases(file, "objects"))
      destinations == FindMatches(words, Aliases(file, "destinations"))
      last == IF Cardinality(rooms) > 1 THEN LastMentioned(rooms) ELSE {None}
  IN  {Told(task, room, object, destination, second) :
         room \in FirstMentioned(rooms), object \in FirstMentioned(objects),
         destination \in LastMentioned(destinations), second \in last}

-----------------------------------------------------------------------------
(* Layouts.                                                                *)

Excess(value, low, high) == IF value < low THEN low - value
                            ELSE IF value > high THEN value - high ELSE 0

\* Square of the distance from a pose to a region, 0 within it.
Distance2(region, pose) ==
  LET dx == Excess(pose.x, region.x1, region.x2)
      dy == Excess(pose.y, region.y1, region.y2)
  IN  dx * dx + dy * dy

\* isPoseInsideRoom: covered by the region, or within tolerance of its edges.
IsPoseInsideRoom(room, pose, tolerance) ==
  Distance2(room.region, pose) <= tolerance * tolerance

Overlap(r, s) == r.x1 < s.x2 /\ s.x1 < r.x2 /\ r.y1 < s.y2 /\ s.y1 < r.y2

ValidateRoomGeometry(rooms) ==
  /\ \A r \in DOMAIN rooms :
       /\ rooms[r].region.x1 < rooms[r].region.x2
       /\ rooms[r].region.y1 < rooms[r].region.y2
       /\ \A p \in Range(rooms[r].search_points) : IsPoseInsideRoom(rooms[r], p, 0)
  /\ \A r, s \in DOMAIN rooms : r # s => ~Overlap(rooms[r].region, rooms[s].region)

\* validateMapResource: the URI names an existing map of a package, with all
\* its fields and its image.
ValidateMapResource(map) == map.uri = "package" /\ map.file /\ map.fields /\ map.image

\* Seeded fault: the poses of the destinations are not looked at.
RoomsValid(root) ==
  /\ ValidateMapResource(root.map) /\ ValidateRoomGeometry(root.rooms)
  /\ \A d \in DOMAIN root.destinations : \A c \in Range(root.destinations[d]) :
       c.room \in DOMAIN root.rooms

\* parseEnvironment accepts the file of a layout.
EnvironmentValid(root) ==
  /\ ValidateMapResource(root.map)
  /\ DOMAIN root.rooms # {}
  /\ \A r \in DOMAIN root.rooms : root.rooms[r].search_points # <<>>
  /\ ValidateRoomGeometry(root.rooms)
  /\ \A route \in Range(root.routes) : {route.from, route.to} \subseteq DOMAIN root.rooms
  /\ DOMAIN root.destinations # {}
  /\ \A d \in DOMAIN root.destinations :
       /\ root.destinations[d] # <<>>
       /\ \A c \in Range(root.destinations[d]) :
            c.room \in DOMAIN root.rooms /\ IsPoseInsideRoom(root.rooms[c.room], c, 0)

\* EnvironmentCatalog::loadFromFile: all the layouts, or none at all.
LoadCatalog(files) ==
  IF Cardinality(DOMAIN files) = Layouts /\ \A name \in DOMAIN files : EnvironmentValid(files[name])
  THEN files ELSE <<>>

\* EnvironmentCatalog::find: the layouts it may return, by name or else by
\* internal name.
Find(catalog, name) ==
  IF name \in DOMAIN catalog THEN {name}
  ELSE {e \in DOMAIN catalog : catalog[e].internal_name = name}

CandidateRooms(environment, destination) ==
  {c.room : c \in Range(environment.destinations[destination])}

\* resolveTask in a layout: the rooms the object may be brought to, none when
\* the instruction does not fit the layout.  The avatar is in no room.
ResolvedRooms(environment, task) ==
  IF task.pickup_room \notin DOMAIN environment.rooms THEN {}
  ELSE IF task.destination_is_avatar THEN {None}
  ELSE IF task.destination \notin DOMAIN environment.destinations THEN {}
  ELSE LET rooms == CandidateRooms(environment, task.destination)
       IN  CASE task.destination_room # None -> rooms \cap {task.destination_room}
             [] task.destination_room = None /\ Cardinality(rooms) = 1 -> rooms
             [] OTHER -> rooms \cap {task.pickup_room}

-----------------------------------------------------------------------------
(* Navigation plans.                                                       *)

\* routesForTarget: the lists of routes it may return.  The robot may be
\* within the tolerance of several rooms, and any of them may come first.
RoutesForTarget(environment, target, robot) ==
  LET sources == IF robot = None THEN {}
                 ELSE {r \in DOMAIN environment.rooms :
                         IsPoseInsideRoom(environment.rooms[r], robot, Tolerance)}
      routes == environment.routes
      from(source) == {i \in DOMAIN routes : routes[i].from = source /\ routes[i].to = target}
  IN  IF sources = {} THEN {<<>>}
      ELSE {IF s = target THEN <<>> ELSE Chosen(routes, from(s)) : s \in sources}

\* orderByDistance, a stable sort.
OrderByDistance(candidates, robot) ==
  LET d2(c) == (c.x - robot.x) * (c.x - robot.x) + (c.y - robot.y) * (c.y - robot.y)
      places == DOMAIN candidates
      nearer == {p \in places \X places :
                   \/ d2(candidates[p[1]]) < d2(candidates[p[2]])
                   \/ d2(candidates[p[1]]) = d2(candidates[p[2]]) /\ p[1] < p[2]}
  IN  IF robot = None THEN candidates ELSE Arranged(candidates, places, nearer)

\* expandRouteCandidates: every doorway for one pose before the next pose.
ExpandRouteCandidates(candidates, routes) ==
  [k \in 1 .. Len(candidates) * Len(routes) |->
     [candidates[((k - 1) \div Len(routes)) + 1] EXCEPT
        !.route = routes[((k - 1) % Len(routes)) + 1].waypoints]]

Candidate(pose, room, index) ==
  [x |-> pose.x, y |-> pose.y, room |-> room, source_index |-> index, route |-> <<>>]

\* The plans made of some candidates in a target room.
Plans(environment, candidates, target, attempts, robot) ==
  {[candidates |-> IF routes = <<>> THEN OrderByDistance(candidates, robot)
                   ELSE ExpandRouteCandidates(candidates, routes),
    maximum_attempts |-> attempts] : routes \in RoutesForTarget(environment, target, robot)}

NoPlan == [candidates |-> <<>>, maximum_attempts |-> 0]

ForRoom(environment, room, attempts, robot) ==
  IF room \notin DOMAIN environment.rooms THEN {NoPlan}
  ELSE LET points == environment.rooms[room].search_points
       IN  Plans(environment, [i \in DOMAIN points |-> Candidate(points[i], room, i)],
                 room, attempts, robot)

\* One pose of a room, the same for every attempt.
ForSearchPoint(environment, room, index, attempts, robot) ==
  IF room \notin DOMAIN environment.rooms THEN {NoPlan}
  ELSE LET points == environment.rooms[room].search_points
       IN  IF index \notin DOMAIN points \/ ~IsPoseInsideRoom(environment.rooms[room], points[index], 0)
           THEN {NoPlan}
           ELSE Plans(environment, <<Candidate(points[index], room, index)>>, room, attempts, robot)

ForDestination(environment, destination, room, attempts, robot) ==
  IF destination \notin DOMAIN environment.destinations THEN {NoPlan}
  ELSE LET all == environment.destinations[destination]
           made == [i \in DOMAIN all |-> Candidate(all[i], all[i].room, i)]
           candidates == Chosen(made, {i \in DOMAIN all : room \in {None, all[i].room}})
       IN  IF candidates = <<>> THEN {NoPlan}
           ELSE Plans(environment, candidates, room, attempts, robot)

Valid(plan) == plan.candidates # <<>> /\ plan.maximum_attempts > 0

\* current() after some failed attempts, while the plan is not exhausted.
Current(plan, attempted) == plan.candidates[(attempted % Len(plan.candidates)) + 1]
=============================================================================
