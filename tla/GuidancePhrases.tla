--------------------------- MODULE GuidancePhrases ---------------------------
(***************************************************************************)
(* What the human navigation controller says of a place                    *)
(* (human_navigation_sample.cpp): the things of the scene that it names in *)
(* the sentence about the object to take and in the one about the          *)
(* destination. Pure functions of the task information.                    *)
(*                                                                         *)
(* A name is a sequence of words, the pieces of a Unity name between '_'   *)
(* and blanks. A length is a number of tenths of a metre, and distances    *)
(* are compared by their squares. A phrase says how something stands to a  *)
(* named thing; its wording is left out.                                   *)
(***************************************************************************)
EXTENDS Integers, Sequences

CONSTANTS
  Words,   \* the words of the scene's names
  Lower,   \* a word -> the word in lower case
  CloneTag,           \* the words of the tag "(Clone)"
  Noise,              \* single letters, digits, letters with digits: C, 02, C01
  RoundTables, SideTables,     \* the names the code knows by another name
  RoundTable, SideTable,       \* and what it calls them
  TableWords, ContainerWords   \* words with "table"; with "trash", "bin", "cabinet" or "shelf"

ASSUME WordsAssumption ==
  /\ Lower \in [Words -> Words]
  /\ RoundTable \in Seq(Words) /\ SideTable \in Seq(Words)

Points == [x : Int, y : Int, z : Int]
Sizes  == [x : Nat, y : Nat, z : Nat]
Things == [name : Seq(Words), at : Points]
\* HumanNaviTaskInfo: furniture, other objects, the object to take and where to.
Scenes == [furniture : Seq(Things), objects : Seq(Things), target : Things,
           destination : [at : Points, size : Sizes]]

Lowered(name) == [i \in DOMAIN name |-> Lower[name[i]]]

\* The words up to the last one that is no noise.
Stripped(words) ==
  LET kept == {i \in DOMAIN words : words[i] \notin Noise}
  IN  SubSeq(words, 1, IF kept = {} THEN 0 ELSE CHOOSE i \in kept : \A j \in kept : j <= i)

\* toReadableName, without the tags of clones.
ToReadableName(name) ==
  LET words == Stripped(SelectSeq(name, LAMBDA word : word \notin CloneTag))
  IN  CASE Lowered(words) \in RoundTables -> RoundTable
        [] Lowered(words) \in SideTables -> SideTable
        [] OTHER -> words

\* The name as it is compared.
Key(thing) == Lowered(ToReadableName(thing.name))

\* isFusedSlotName: two known names in one.
IsFusedSlotName(scene, thing) ==
  LET known == {Key(scene.furniture[i]) : i \in DOMAIN scene.furniture}
                 \cup {Key(scene.objects[i]) : i \in DOMAIN scene.objects}
      full == Key(thing)
  IN  \E i \in 1 .. Len(full) - 1 :
        SubSeq(full, 1, i) \in known /\ SubSeq(full, i + 1, Len(full)) \in known

-----------------------------------------------------------------------------
(* Distances.                                                              *)

PlaneSq(p, q) == (p.x - q.x) * (p.x - q.x) + (p.y - q.y) * (p.y - q.y)
DistSq(p, q)  == PlaneSq(p, q) + (p.z - q.z) * (p.z - q.z)

\* Of the indices is, the first at which a is smallest, and b where a is.
FirstLeast(is, a, b) ==
  CHOOSE i \in is : \A j \in is :
    a[i] < a[j] \/ (a[i] = a[j] /\ (b[i] < b[j] \/ (b[i] = b[j] /\ i <= j)))

Abs(n) == IF n < 0 THEN -n ELSE n

Within(p, f, size) == 2 * Abs(p.x - f.x) <= size.x /\ 2 * Abs(p.y - f.y) <= size.y
AtHeight(p, f, size) == Abs(p.z - f.z) <= size.z

-----------------------------------------------------------------------------
(* Phrases.                                                                *)

NoPhrase == [how |-> "", thing |-> <<>>]
Phrase(how, thing) == [how |-> how, thing |-> ToReadableName(thing.name)]

Has(name, words) == \E i \in DOMAIN name : name[i] \in words

\* getFurnitureRelation: how something of this size at p stands to a piece of
\* furniture. The size is that of the thing, not of the furniture.
FurnitureRelation(piece, p, size) ==
  LET name == ToReadableName(piece.name)
  IN  CASE Has(name, TableWords) ->
             IF AtHeight(p, piece.at, size)
             THEN IF Within(p, piece.at, size) THEN "on" ELSE "near"
             ELSE IF p.z < piece.at.z THEN "under" ELSE "near"
        [] ~Has(name, TableWords) /\ Has(name, ContainerWords) ->
             IF AtHeight(p, piece.at, size)
             THEN IF Within(p, piece.at, size) THEN "inside" ELSE "on"
             ELSE "near"
        [] OTHER -> "near"

\* The furniture that may be named for something at p that stands on it: below
\* it, and not a fused name.
Below(scene, p) ==
  {i \in DOMAIN scene.furniture :
     ~IsFusedSlotName(scene, scene.furniture[i]) /\ scene.furniture[i].at.z < p.z}

Plane(scene, p)  == [i \in DOMAIN scene.furniture |-> PlaneSq(p, scene.furniture[i].at)]
Height(scene, p) == [i \in DOMAIN scene.furniture |-> p.z - scene.furniture[i].at.z]
Space(scene, p)  == [i \in DOMAIN scene.furniture |-> DistSq(p, scene.furniture[i].at)]

\* The nearest supporting piece in the plane, of two the higher one.
NearestBelow(scene, p, is) == scene.furniture[FirstLeast(is, Plane(scene, p), Height(scene, p))]

\* getRelationPhraseForPosition: without a support the last name that was
\* written down as nearest, which a nearer piece with a fused name only hides.
RelationPhrase(scene, p, size) ==
  LET support == {i \in Below(scene, p) :
                    FurnitureRelation(scene.furniture[i], p, size) \in {"on", "inside"}}
      nearer == {i \in DOMAIN scene.furniture :
                   /\ \A j \in 1 .. i - 1 : Space(scene, p)[i] < Space(scene, p)[j]
                   /\ ~IsFusedSlotName(scene, scene.furniture[i])}
      best == NearestBelow(scene, p, support)
      last == scene.furniture[CHOOSE i \in nearer : \A j \in nearer : j <= i]
  IN  CASE support # {} -> Phrase(FurnitureRelation(best, p, size), best)
        [] support = {} /\ nearer # {} /\ Key(last) # <<>> -> Phrase("near", last)
        [] OTHER -> NoPhrase

\* extractThePhraseLower: what a phrase bans from the next one.
Mentioned(phrase) == IF phrase = NoPhrase THEN {} ELSE {Lowered(phrase.thing)}

\* The furniture that may still be named.
Unbanned(scene, is, banned) == {i \in is : Key(scene.furniture[i]) \notin banned}

\* Half the size of the object is taken to be 0.15 m; the first search is up to 1.5 m.
PICK_SIZE   == [x |-> 3, y |-> 3, z |-> 3]
ON_RANGE_SQ == 15 * 15

\* buildPickOnSlotPhrase.
PickOnSlotPhrase(scene, p, banned) ==
  LET relation == RelationPhrase(scene, p, PICK_SIZE)
      below == Unbanned(scene, Below(scene, p), banned)
      close == {i \in below : Space(scene, p)[i] <= ON_RANGE_SQ}
  IN  CASE relation.how \in {"on", "inside"} /\ Mentioned(relation) \cap banned = {} -> relation
        [] ~(relation.how \in {"on", "inside"} /\ Mentioned(relation) \cap banned = {})
             /\ below # {} ->
             Phrase("on", NearestBelow(scene, p, IF close # {} THEN close ELSE below))
        [] OTHER -> NoPhrase

\* buildOnSlotPhrase: what is inside something is said to be on what is nearest.
OnSlotPhrase(scene, p, size, banned) ==
  LET relation == RelationPhrase(scene, p, size)
      named == Unbanned(scene, {i \in DOMAIN scene.furniture :
                                  ~IsFusedSlotName(scene, scene.furniture[i])}, banned)
      nearest == scene.furniture[FirstLeast(named, Space(scene, p), Space(scene, p))]
  IN  CASE relation.how = "on" /\ Mentioned(relation) \cap banned = {} -> relation
        [] ~(relation.how = "on" /\ Mentioned(relation) \cap banned = {}) /\ named # {} ->
             Phrase("on", nearest)
        [] OTHER -> NoPhrase

NEAR_RANGE_SQ == 30 * 30

\* nearestNearbyObjectName: the nearest object within three metres, of two the
\* later one, whose name no other object has.
NearbyObjects(scene, p, banned) ==
  {i \in DOMAIN scene.objects :
     /\ Key(scene.objects[i]) \notin banned
     /\ \A j \in DOMAIN scene.objects : Key(scene.objects[j]) = Key(scene.objects[i]) => j = i
     /\ DistSq(p, scene.objects[i].at) <= NEAR_RANGE_SQ}

NearestNearbyObject(scene, p, banned) ==
  LET near == NearbyObjects(scene, p, banned)
      dist == [i \in DOMAIN scene.objects |-> DistSq(p, scene.objects[i].at)]
      later == [i \in DOMAIN scene.objects |-> Len(scene.objects) - i]
  IN  IF near = {} THEN NoPhrase
      ELSE Phrase("near", scene.objects[FirstLeast(near, dist, later)])

-----------------------------------------------------------------------------
(* The two sentences.                                                      *)

PlaceSlot(scene) ==
  OnSlotPhrase(scene, scene.destination.at, scene.destination.size, {Key(scene.target)})

\* on_banned: the object itself and the furniture of the destination.
PickBans(scene) == {Key(scene.target)} \cup Mentioned(PlaceSlot(scene))

\* buildStrictPickTemplate.
PickTemplate(scene) ==
  LET p == scene.target.at
      on == PickOnSlotPhrase(scene, p, PickBans(scene))
  IN  [on |-> on, near |-> NearestNearbyObject(scene, p, PickBans(scene) \cup Mentioned(on))]

\* buildStrictPlaceTemplate.
PlaceTemplate(scene) == PlaceSlot(scene)

-----------------------------------------------------------------------------
(* The direction.                                                          *)

\* getDirectionHint, for the target this many sectors of 30 degrees to the left
\* of straight ahead, rounded: -6 .. 6. The remainder is that of C++.
ClockHour(sectors) ==
  LET hour == (12 - sectors) % 12
  IN  IF hour <= 0 THEN hour + 12 ELSE hour
=============================================================================
