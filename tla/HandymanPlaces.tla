---------------------------- MODULE HandymanPlaces ----------------------------
(***************************************************************************)
(* What the handyman node knows by heart: the names it finds in the words  *)
(* of an instruction, the patrol points of every room and the poses of     *)
(* every destination, per layout.  Lengths are in centimetres; headings    *)
(* are left out.                                                           *)
(***************************************************************************)
EXTENDS Integers, SequencesExt

CONSTANTS
  None,
  Within  \* words of an instruction -> the names that occur in them

-----------------------------------------------------------------------------
(* Instructions, split at spaces.                                          *)

RoomNames == <<"living", "bedroom", "lobby", "kitchen">>

ObjectNames ==
  <<"apple", "toy_penguin", "rabbit_doll", "bear_doll", "dog_doll", "canned_juice", "sugar",
    "soysauce", "sauce", "ketchup", "tumbler", "white_cup", "pink_cup", "empty_ketchup",
    "filled_ketchup", "ground_pepper", "salt", "canned_juice", "empty_plastic_bottle",
    "filled_plastic_bottle", "cubic_clock", "toy_car", "toy_duck", "nursing_bottle", "cigarette",
    "hourglass", "camera", "rubik's_cube", "spray_bottle", "apple", "matryoshka",
    "game_controller", "piggy_bank">>

DestNames ==
  <<"white_side_table", "corner_sofa", "round_low_table", "square_low_table", "wooden_shelf",
    "armchair", "dining_table", "wooden_side_table", "wooden_bed", "iron_bed", "wagon",
    "trash_box_for_recycle", "trash_box_for_burnable", "trash_box_for_bottle_can",
    "cardboard_box", "Avatar">>

\* extractInfo for one list of names: word by word, each in the order of the list.
ExtractInfo(text, names) ==
  FlattenSeq([i \in DOMAIN text |-> SelectSeq(names, LAMBDA name : name \in Within[text[i]])])

\* What the steps make of the lists: the room to search, and the destination with
\* the room it is looked up in. (The first object is the target of the detection.)
SearchRoom(text) == ExtractInfo(text, RoomNames)[1]
Destination(text) == Last(ExtractInfo(text, DestNames))
DestRoom(text) ==
  LET rooms == ExtractInfo(text, RoomNames) IN IF Len(rooms) > 1 THEN rooms[2] ELSE rooms[1]

\* The steps index the lists without looking at their length.
Readable(text) ==
  \A names \in {RoomNames, ObjectNames, DestNames} : ExtractInfo(text, names) # <<>>

-----------------------------------------------------------------------------
(* Layouts.                                                                *)

\* registerDefaultEnvironments, under the names of mapUnityEnvironmentName.
Registered == {"2019HM01", "2019HM02", "2020HM01", "2021HM01"}

\* roomPatrolWaypoints. A room it does not know in the layout gets one point.
PatrolWaypoints(layout, room) ==
  CASE layout = "2019HM01" /\ room = "living"  -> <<<<200, 100>>, <<250, 408>>>>
    [] layout = "2019HM01" /\ room = "bedroom" -> <<<<257, -431>>, <<864, -570>>>>
    [] layout = "2019HM01" /\ room = "lobby"   -> <<<<120, -616>>, <<100, -360>>>>
    [] layout = "2019HM01" /\ room = "kitchen" -> <<<<850, 280>>>>
    [] layout = "2019HM02" /\ room = "living"  -> <<<<350, 960>>, <<184, 1020>>>>
    [] layout = "2019HM02" /\ room = "lobby"   -> <<<<100, 0>>, <<250, 200>>>>
    [] layout = "2019HM02" /\ room = "kitchen" -> <<<<550, -113>>, <<842, -113>>>>
    [] layout = "2020HM01" /\ room = "living"  ->
         <<<<50, 200>>, <<42, 348>>, <<450, 348>>, <<450, -65>>>>
    [] layout = "2020HM01" /\ room = "bedroom" -> <<<<10, 690>>, <<300, 800>>>>
    [] layout = "2020HM01" /\ room = "kitchen" -> <<<<650, -120>>, <<780, 120>>, <<650, 390>>>>
    [] layout = "2021HM01" /\ room = "living"  -> <<<<100, 0>>, <<350, 0>>>>
    [] layout = "2021HM01" /\ room = "bedroom" -> <<<<400, -850>>, <<169, -800>>>>
    [] layout = "2021HM01" /\ room = "lobby"   -> <<<<-186, -838>>, <<-486, -870>>>>
    [] OTHER -> <<<<50, 200>>>>

\* The robot at p is less than the threshold away from a patrol point.
IsRobotWithinRoomPatrolArea(p, waypoints, threshold) ==
  \E w \in Range(waypoints) :
    (p[1] - w[1]) * (p[1] - w[1]) + (p[2] - w[2]) * (p[2] - w[2]) < threshold * threshold

\* decideRoomEntryAction.
DecideRoomEntryAction(roomReached, sent, p, waypoints) ==
  IF roomReached \/ sent THEN "nothing"
  ELSE IF IsRobotWithinRoomPatrolArea(p, waypoints, 350) THEN "report" ELSE "navigate"

\* roomLocation: the patrol point of a round, the first one when there is none.
RoomLocation(layout, room, variation) ==
  LET waypoints == PatrolWaypoints(layout, room)
  IN  IF variation + 1 \in DOMAIN waypoints THEN waypoints[variation + 1] ELSE waypoints[1]

\* destLocation: per layout, the furniture that has a pose whatever the room,
\* and the furniture that has one in some rooms only.
Anywhere == [l \in Registered |->
  CASE l = "2019HM01" -> {"white_side_table", "corner_sofa", "armchair", "trash_box_for_recycle",
         "trash_box_for_burnable", "trash_box_for_bottle_can", "square_low_table",
         "dining_table", "wooden_side_table", "wooden_bed", "wagon", "cardboard_box"}
    [] l = "2019HM02" -> {"armchair", "trash_box_for_recycle", "round_low_table",
         "trash_box_for_bottle_can", "square_low_table", "wagon", "cardboard_box", "wooden_shelf"}
    [] l = "2020HM01" -> {"trash_box_for_recycle", "trash_box_for_bottle_can", "dining_table",
         "wooden_side_table", "iron_bed", "cardboard_box", "wooden_shelf"}
    [] OTHER -> {"corner_sofa", "armchair", "wooden_shelf", "wooden_bed", "cardboard_box"}]

InRoomOnly == [l \in Registered |->
  CASE l = "2019HM01" -> {}
    [] l = "2019HM02" -> {<<"white_side_table", "living">>, <<"white_side_table", "lobby">>}
         \cup {"dining_table", "wooden_side_table"} \X {"kitchen", "lobby"}
    [] l = "2020HM01" -> {<<"white_side_table", "living">>, <<"white_side_table", "bedroom">>,
         <<"trash_box_for_burnable", "kitchen">>, <<"trash_box_for_burnable", "living">>}
    [] OTHER -> {"white_side_table"} \X {"living", "bedroom", "lobby"}
         \cup {"trash_box_for_burnable", "dining_table"} \X {"living", "lobby"}
         \cup {"wagon"} \X {"living", "bedroom"}]

\* The pose it returns, named by what it was looked up for; without a row, a
\* pose without orientation.
DestLocation(layout, dest, room) ==
  IF layout \in Registered
     /\ (dest \in Anywhere[layout] \/ <<dest, room>> \in InRoomOnly[layout])
  THEN <<layout, dest, room>> ELSE None
=============================================================================
