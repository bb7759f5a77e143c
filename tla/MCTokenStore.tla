---------------------------- MODULE MCTokenStore ----------------------------
(***************************************************************************)
(* TokenStore for TLC.  Users, ids and requests are interchangeable model  *)
(* values.                                                                 *)
(***************************************************************************)
EXTENDS TokenStore, TLC

Symmetry == Permutations(User) \cup Permutations(Id) \cup Permutations(Req)
=============================================================================
