-------------------------------- MODULE Sorting --------------------------------
(* The members of a finite set of numbers one after the other.              *)
EXTENDS Integers, FiniteSets

Ascending(S) ==
  [i \in 1 .. Cardinality(S) |-> CHOOSE m \in S : Cardinality({u \in S : u < m}) = i - 1]
=============================================================================
