---------------------------- MODULE MCUserAdmin -----------------------------
(***************************************************************************)
(* UserAdmin for TLC: a few form bodies, chosen so that saves rename,      *)
(* promote, demote, block and expire, and some are rejected.               *)
(***************************************************************************)
EXTENDS UserAdmin, TLC

CONSTANTS n1, n2

Body(n, a, b, e, pw) == [name |-> n, is_admin |-> a, blocked |-> b, expired |-> e, pw |-> pw]

\* Promote and rename, demote, block, expire; one without a name and one
\* with a short password are refused.
AdminForms == {Body(n1, TRUE, FALSE, FALSE, "absent"), Body(n2, FALSE, FALSE, FALSE, "good"),
               Body(n1, FALSE, TRUE, TRUE, "absent"), Body(NoName, FALSE, FALSE, FALSE, "good"),
               Body(n2, TRUE, FALSE, FALSE, "short")}

Symmetry == Permutations(Req)
=============================================================================
