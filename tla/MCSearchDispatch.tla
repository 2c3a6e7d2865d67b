-------------------------- MODULE MCSearchDispatch --------------------------
(* Constants of the TLC run of SearchDispatch.                             *)
EXTENDS SearchDispatch

NoRoute == [k \in 0 .. (Candidates - 1) |-> 0]
=============================================================================
