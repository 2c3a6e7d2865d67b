--------------------------- MODULE MCCoordinator ---------------------------
(* Instances of Coordinator for TLC.                                      *)
EXTENDS Coordinator, TLC

Symmetry == Permutations(Goals) \cup Permutations(Requests)

\* One candidate, reached without a route waypoint.
Routes == [k \in {0} |-> 0]
=============================================================================
