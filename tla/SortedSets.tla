----------------------------- MODULE SortedSets -----------------------------
(***************************************************************************)
(* Sets of moments as sequences: what a loop over rows, bars or pages that *)
(* are in the order of their timestamps goes through.                      *)
(***************************************************************************)
EXTENDS Integers, FiniteSets

\* The elements of a finite set of numbers, the smallest first.
Ascending(S) ==
  CHOOSE seq \in [1 .. Cardinality(S) -> S] :
    \A i, j \in DOMAIN seq : i < j => seq[i] < seq[j]
=============================================================================
