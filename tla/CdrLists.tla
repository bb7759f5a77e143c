------------------------------ MODULE CdrLists ------------------------------
(***************************************************************************)
(* Lists of CDR ids, as the batch download and the CSV export build them:  *)
(* a set of ids in the order of a given list.                              *)
(***************************************************************************)
EXTENDS Integers, Sequences, FiniteSets, SequencesExt

\* Where x first comes in s.
Place(s, x) == CHOOSE k \in DOMAIN s : s[k] = x /\ \A j \in 1..(k - 1) : s[j] # x

\* The members of S, in the order in which they first come in s.
Listed(S, s) ==
  [k \in 1..Cardinality(S) |->
     CHOOSE x \in S : Cardinality({y \in S : Place(s, y) <= Place(s, x)}) = k]
=============================================================================
