------------------------------- MODULE Places -------------------------------
(***************************************************************************)
(* Parts of a sequence, by the places of their elements: what a loop keeps *)
(* that goes through a slice and leaves some elements out.                 *)
(***************************************************************************)
EXTENDS Integers, FiniteSets, Sequences

\* Places in their order.
InOrder(places) ==
  CHOOSE f \in [1 .. Cardinality(places) -> places] :
    \A i, j \in DOMAIN f : i < j => f[i] < f[j]

Pick(seq, places) == [i \in 1 .. Cardinality(places) |-> seq[InOrder(places)[i]]]
=============================================================================
