-------------------------- MODULE MCSimulatedRound --------------------------
(***************************************************************************)
(* Instructions put together from the aliases of a small vocabulary, in    *)
(* the forms of instruction_parser_test.cpp, and small layouts, some of    *)
(* them ones the catalog must refuse.  One length unit is 0.1 m.           *)
(***************************************************************************)
EXTENDS SimulatedRound

MCLower ==
  [w \in {"go", "to", "the", "grasp", "and", "bring", "it", "from", "take", "in", "on", "me",
          "kitchen", "living", "room", "apple", "ketchup", "empty", "wagon", "trolley",
          "dining", "table", "avatar", "here"} |-> w]
  @@ ("LIVING" :> "living") @@ ("ROOM" :> "room") @@ ("DINING" :> "dining")

MCSpelling ==
  [kitchen |-> <<"kitchen">>, living_room |-> <<"living", "_", "room">>,
   apple |-> <<"apple">>, ketchup |-> <<"ketchup">>, empty_ketchup |-> <<"empty", "_", "ketchup">>,
   wagon |-> <<"wagon">>, dining_table |-> <<"dining", "_", "table">>, avatar |-> <<"avatar">>]

MCAliasFile ==
  [rooms |-> [kitchen |-> {<<"kitchen">>},
              living_room |-> {<<"living">>, <<"living", "room">>, <<"living", "-", "room">>}],
   objects |-> [apple |-> {<<"apple">>}, ketchup |-> {<<"ketchup">>},
                empty_ketchup |-> {<<"empty", "ketchup">>}],
   destinations |-> [wagon |-> {<<"wagon">>, <<"trolley">>}, dining_table |-> {<<"dining", "table">>},
                     avatar |-> {<<"here">>, <<"bring", "it", "to", "me">>}]]

\* How an instruction may write a name.
Written(name) ==
  CASE name = "kitchen"     -> {<<"kitchen">>}
    [] name = "living_room" -> {<<"living">>, <<"LIVING", "-", "ROOM">>}
    [] name = "wagon"       -> {<<"wagon">>, <<"trolley">>}
    [] name = "dining_table" -> {<<"DINING", "table">>}
    [] OTHER                -> {MCSpelling[name]}

Rooms == {"kitchen", "living_room"}
Objects == {"apple", "empty_ketchup"}
Furniture == {"wagon", "dining_table"}

Meaning(room, object, destination, last) ==
  [pickup_room |-> room, target_object |-> object, destination |-> destination,
   destination_room |-> last]

\* Go to the <room>, grasp the <object> and bring it to the <destination>.
Plain ==
  UNION {{[text |-> <<"go", "to", "the">> \o r \o <<",", "grasp", "the">> \o MCSpelling[object]
                    \o <<"and", "bring", "it", "to", "the">> \o d \o <<".">>,
           meaning |-> Meaning(room, object, destination, None)] :
            r \in Written(room), d \in Written(destination)} :
         room \in Rooms, object \in Objects, destination \in Furniture}

\* From the <room> take the <object> on the <furniture> to the <destination> in
\* the <room>.
TwoRooms ==
  UNION {{[text |-> <<"from", "the">> \o r \o <<"take", "the">> \o MCSpelling[object]
                    \o <<"on", "the">> \o MCSpelling[stand] \o <<"to", "the">> \o d
                    \o <<"in", "the">> \o l,
           meaning |-> Meaning(room, object, destination, last)] :
            r \in Written(room), d \in Written(destination), l \in Written(last),
            stand \in Furniture} :
         room \in Rooms, object \in {"empty_ketchup"}, destination \in Furniture, last \in Rooms}

\* Go to the <room>, grasp the <object> and bring it here, or to me.
Handover ==
  UNION {{[text |-> <<"go", "to", "the">> \o r \o <<",", "grasp", "the", "apple", "and">> \o h,
           meaning |-> Meaning(room, "apple", "avatar", None)] :
            r \in Written(room), h \in {<<"bring", "it", "here">>, <<"bring", "it", "to", "me">>}} :
         room \in Rooms}

MCScripts ==
  {[text |-> s.text, meaning |-> s.meaning, environment |-> name] :
     s \in Plain \cup TwoRooms \cup Handover, name \in {"LayoutA", "LayoutHM"}}

Region(x1, x2) == [x1 |-> x1, x2 |-> x2, y1 |-> 0, y2 |-> 10]
At(x, y) == [x |-> x, y |-> y]
In(room, x, y) == [room |-> room, x |-> x, y |-> y]

\* Two rooms with a wall of 0.3 m between them.
Good ==
  [internal_name |-> "LayoutHM", 
   map |-> [uri |-> "package", file |-> TRUE, fields |-> TRUE, image |-> TRUE],
   rooms |-> [kitchen |-> [region |-> Region(0, 10), search_points |-> <<At(2, 8), At(8, 2)>>],
              living_room |-> [region |-> Region(13, 23), search_points |-> <<At(18, 5)>>]],
   routes |-> <<[from |-> "kitchen", to |-> "living_room", waypoints |-> <<At(9, 2), At(14, 2)>>],
                [from |-> "kitchen", to |-> "living_room", waypoints |-> <<At(9, 8), At(14, 8)>>],
                [from |-> "living_room", to |-> "kitchen", waypoints |-> <<At(14, 2), At(9, 2)>>]>>,
   destinations |-> [wagon |-> <<In("kitchen", 1, 1), In("living_room", 20, 8), In("kitchen", 9, 9)>>,
                     dining_table |-> <<In("kitchen", 5, 5), In("kitchen", 5, 7)>>]]

Named(layout, internal) == [layout EXCEPT !.internal_name = internal]

\* A catalog with a given first layout.
Catalog(first) ==
  ("LayoutA" :> first) @@ ("LayoutB" :> Named(Good, "b")) @@ ("LayoutC" :> Named(Good, "c"))
  @@ ("LayoutD" :> Named(Good, "d"))

MCCatalogFiles ==
  {Catalog(Good),
   \* a candidate, or a search point, outside its room
   Catalog([Good EXCEPT !.destinations["wagon"][2].x = 11]),
   Catalog([Good EXCEPT !.rooms["kitchen"].search_points[2].x = 12]),
   \* a map without its image; three layouts
   Catalog([Good EXCEPT !.map.image = FALSE]),
   ("LayoutA" :> Good) @@ ("LayoutB" :> Named(Good, "b")) @@ ("LayoutC" :> Named(Good, "c"))}

MCAliasFiles == {MCAliasFile, [MCAliasFile EXCEPT !.objects["apple"] = {}]}

MCRobotPoses == {None, At(2, 2), At(9, 9), At(11, 5), At(18, 5), At(30, 5)}
=============================================================================
