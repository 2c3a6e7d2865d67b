------------------------- MODULE MCInteractiveCleanup -------------------------
(* A small instance of InteractiveCleanup for TLC: two tasks, two repeated    *)
(* pointings in each, two goals at the action server.                         *)
EXTENDS InteractiveCleanup

CONSTANTS g1, g2
MCSlots == {g1, g2}

=============================================================================
