------------------------------- MODULE Lists --------------------------------
(***************************************************************************)
(* Sorting and filtering of lists, as the code does with std::stable_sort  *)
(* and with loops that keep some of the elements.                          *)
(***************************************************************************)
EXTENDS Naturals, FiniteSets

\* The elements of a sequence at some places, in an order of these places: a set
\* of pairs, strict and total.  Each comes after as many as precede it.
Arranged(seq, places, precedes) ==
  LET ahead(i) == Cardinality({j \in places : <<j, i>> \in precedes})
      place(k) == CHOOSE i \in places : ahead(i) = k - 1
  IN  [k \in 1 .. Cardinality(places) |-> seq[place(k)]]

\* The elements at some places, left in their order.
Chosen(seq, places) == Arranged(seq, places, {p \in places \X places : p[1] < p[2]})
=============================================================================
