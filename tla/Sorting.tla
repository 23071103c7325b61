------------------------------ MODULE Sorting ------------------------------
(***************************************************************************)
(* The order in which sort.Slice and slices.Sort leave what has no two     *)
(* elements with the same key.                                             *)
(***************************************************************************)
EXTENDS Integers, FiniteSets

\* The elements of S by their keys, a function that gives each an integer: the
\* k-th is the one with k - 1 smaller ones.
Below(S, key, x) == {y \in S : key[y] < key[x]}
SortBy(S, key) ==
  [k \in 1 .. Cardinality(S) |->
     CHOOSE x \in S : Cardinality(Below(S, key, x)) = k - 1]

=============================================================================
