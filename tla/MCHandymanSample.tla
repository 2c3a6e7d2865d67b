--------------------------- MODULE MCHandymanSample ---------------------------
(* A small instance of HandymanSample for TLC: a task whose destination has a *)
(* pose, one in another layout whose destination has a pose in other rooms    *)
(* than the one of the task, and one in a layout without a map. The robot may *)
(* stand near a patrol point of the first room, or far from all.              *)
EXTENDS HandymanSample

CONSTANTS g1, g2

MCGoals == {g1, g2}
MCRobotPoses == {<<800, 200>>, <<2000, 2000>>}

MCTexts == <<
  <<"From", "the", "kitchen,", "bring", "the", "sauce", "on", "the", "wagon", "to", "the",
    "dining_table", "in", "the", "living_room.">>,
  <<"Go", "to", "the", "bedroom,", "grasp", "the", "soysauce", "and", "put", "it", "into", "the",
    "trash_box_for_burnable.">>,
  <<"Take", "the", "apple", "from", "the", "living", "to", "the", "wagon">> >>

\* No name of the lists occurs in a word it does not mean here, except that the
\* soy sauce contains the sauce.
MCWithin ==
  [w \in UNION {{MCTexts[t][i] : i \in DOMAIN MCTexts[t]} : t \in DOMAIN MCTexts} |->
     CASE w = "kitchen,"     -> {"kitchen"}
       [] w = "living_room." -> {"living"}
       [] w = "bedroom,"     -> {"bedroom"}
       [] w = "soysauce"     -> {"soysauce", "sauce"}
       [] w = "trash_box_for_burnable." -> {"trash_box_for_burnable"}
       [] OTHER              -> {w}]

Means(room, dest, destRoom) == [room |-> room, dest |-> dest, destRoom |-> destRoom]

MCJob == <<
  [layout |-> "2019HM01", text |-> MCTexts[1], means |-> Means("kitchen", "dining_table", "living")],
  [layout |-> "2020HM01", text |-> MCTexts[2], means |-> Means("bedroom", "trash_box_for_burnable", "bedroom")],
  [layout |-> "Unknown", text |-> MCTexts[3], means |-> Means("living", "wagon", "living")]>>

=============================================================================
