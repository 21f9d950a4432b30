---------------------------- MODULE Subsequences ----------------------------
(***************************************************************************)
(* The numbers of a set in order, and the elements of a sequence at some   *)
(* of its indices: what the sorts and the filters of the program return.   *)
(* Both are functions of an index, so that they can be reasoned about.     *)
(***************************************************************************)
EXTENDS Integers, FiniteSets

\* The k-th element has k - 1 elements below it.
Ascending(S) ==
  [k \in 1..Cardinality(S) |-> CHOOSE x \in S : Cardinality({y \in S : y < x}) = k - 1]

Selected(s, I) == [k \in 1..Cardinality(I) |-> s[Ascending(I)[k]]]
=============================================================================
