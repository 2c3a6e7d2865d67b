-------------------------- MODULE MCHumanNavigation --------------------------
(***************************************************************************)
(* The instance of HumanNavigation that TLC explores, with the functions   *)
(* that choose what is named in its messages. Those are evaluated at the   *)
(* start, on every scene of a small world and against the loops of the     *)
(* code.                                                                   *)
(***************************************************************************)
EXTENDS HumanNavigation, GuidancePhrases
LOCAL INSTANCE SequencesExt

MCWords == {"table", "Table", "bin", "sofa", "cup", "can", "C01", "(Clone)"}
MCLower == [w \in MCWords |-> IF w = "Table" THEN "table" ELSE w]
MCCloneTag == {"(Clone)"}
MCNoise == {"C01"}
MCRoundTables == {<<"can", "table">>}
MCSideTables == {<<"cup", "table">>}
MCRoundTable == <<"table", "can">>
MCSideTable == <<"table", "cup">>
MCTableWords == {"table"}
MCContainerWords == {"bin"}

-----------------------------------------------------------------------------
(* The loops of the code.                                                  *)

OneTo(n) == [i \in 1 .. n |-> i]

\* The loops over the furniture: a candidate takes the place of the best one
\* when it is nearer, or as near and less by the second measure.
FurnitureLoop(n, is, a, b) ==
  FoldLeft(LAMBDA best, i : IF i \in is /\ (best = 0 \/ a[i] < a[best]
                                              \/ (a[i] = a[best] /\ b[i] < b[best]))
                            THEN i ELSE best, 0, OneTo(n))

\* The loop over the objects: the candidate that is as near takes the place too.
ObjectLoop(n, is, a) ==
  FoldLeft(LAMBDA best, i : IF i \in is /\ (best = 0 \/ a[i] <= a[best]) THEN i ELSE best,
           0, OneTo(n))

\* The minima of GuidancePhrases are what the loops end with.
ASSUME LoopsFindTheLeast ==
  \A n \in 1 .. 3 : \A a \in [1 .. n -> 0 .. 2] : \A is \in SUBSET (1 .. n) \ {{}} :
    /\ \A b \in [1 .. n -> 0 .. 2] : FirstLeast(is, a, b) = FurnitureLoop(n, is, a, b)
    /\ FirstLeast(is, a, [i \in 1 .. n |-> n - i]) = ObjectLoop(n, is, a)

-----------------------------------------------------------------------------
(* A small world.                                                          *)

Pt(x, z) == [x |-> x, y |-> 0, z |-> z]
Thing(name, x, z) == [name |-> name, at |-> Pt(x, z)]

Furniture == {Thing(n, x, z) : n \in {<<"table">>, <<"Table", "C01">>, <<"bin">>, <<"bin", "sofa">>, <<"sofa">>},
                               x \in {0, 1}, z \in {0, 2}}
Objects   == {Thing(n, x, 1) : n \in {<<"can">>, <<"cup", "C01">>, <<"cup", "(Clone)">>}, x \in {1, 40}}

SmallScenes ==
  {[furniture |-> f, objects |-> o, target |-> t,
    destination |-> [at |-> Pt(1, 1), size |-> [x |-> 2, y |-> 0, z |-> 1]]] :
     f \in {<<>>, <<Thing(<<"table">>, 1, 0), Thing(<<"bin">>, 0, 0), Thing(<<"sofa">>, 0, 2)>>}
             \cup {<<p, q>> : p, q \in Furniture},
     o \in {<<>>} \cup {<<p, q>> : p, q \in Objects},
     t \in {Thing(<<"cup">>, 0, 1), Thing(<<"bin">>, 1, 3)}}

\* What is proved of the sentences, on the small world.
ASSUME SentencesHold ==
  \A scene \in SmallScenes :
    LET pick  == PickTemplate(scene)
        place == PlaceTemplate(scene)
        name  == Lowered(pick.on.thing)
    IN  /\ pick.on # NoPhrase => name # Key(scene.target)
        /\ pick.on # NoPhrase /\ place # NoPhrase => name # Lowered(place.thing)
        /\ pick.on # NoPhrase =>
             \E i \in DOMAIN scene.furniture :
               Key(scene.furniture[i]) = name /\ scene.furniture[i].at.z < scene.target.at.z
        /\ pick.near # NoPhrase =>
             /\ Lowered(pick.near.thing) \notin PickBans(scene) \cup Mentioned(pick.on)
             /\ \E i \in DOMAIN scene.objects :
                  /\ Key(scene.objects[i]) = Lowered(pick.near.thing)
                  /\ \A j \in DOMAIN scene.objects : Key(scene.objects[j]) = Key(scene.objects[i]) => j = i

\* Every way of saying it occurs there, and so does having nothing to say.
ASSUME SentencesOccur ==
  /\ {"on", "inside", ""} = {PickTemplate(scene).on.how : scene \in SmallScenes}
  /\ {"near", ""} = {PickTemplate(scene).near.how : scene \in SmallScenes}
  /\ {"on", ""} = {PlaceTemplate(scene).how : scene \in SmallScenes}

\* Twelve o'clock is straight ahead, three to the right, nine to the left, six
\* behind, from either side.
ASSUME ClockHours ==
  /\ {ClockHour(s) : s \in -6 .. 6} = 1 .. 12
  /\ ClockHour(0) = 12 /\ ClockHour(-3) = 3 /\ ClockHour(3) = 9
  /\ ClockHour(6) = 6 /\ ClockHour(-6) = 6
=============================================================================
