----------------------- MODULE MCNavigationExecutor -----------------------
(* Instances of NavigationExecutor for TLC.                               *)
EXTENDS NavigationExecutor, TLC

Symmetry == Permutations(Goals)

\* Two candidates: the first is reached through one route waypoint, the
\* second directly.
Routes == [k \in 0 .. 1 |-> IF k = 0 THEN 1 ELSE 0]

\* One plan at a time is begun and only before any goal was sent: the
\* instance then has a goal for every submission the plan can make.
OnePlan ==
  \/ Begin /\ ~active /\ \A g \in Goals : request[g] = "unsent"
  \/ OwnerSeal
  \/ Callback
  \/ Server

OnePlanSpec == Init /\ [][OnePlan]_vars /\ Fairness
=============================================================================
