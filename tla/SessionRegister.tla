--------------------------- MODULE SessionRegister ---------------------------
(***************************************************************************)
(* What the operator expects of the session: one register, held for the    *)
(* browser, with the signed-in user, the chosen time zone and the ticked   *)
(* CDRs.  Each change touches its own part only.  BrowserSession           *)
(* implements this module when requests do not overlap.                    *)
(***************************************************************************)
EXTENDS Naturals

CONSTANTS User, Zone, Cdr, Cap, None

VARIABLE session   \* None when nobody is signed in

Selections == UNION {{s \in [1..n -> Cdr] : \A i, j \in 1..n : s[i] = s[j] => i = j} : n \in 0..Cap}

Init == session = None

SignIn(u) == session' = [user |-> u, tz |-> None, sel |-> <<>>]

SetTz(z) == /\ session # None
            /\ session' = [session EXCEPT !.tz = z]

Select(ids) == /\ session # None
               /\ session' = [session EXCEPT !.sel = ids]

End == session' = None

Next == \/ \E u \in User : SignIn(u)
        \/ \E z \in Zone \cup {None} : SetTz(z)
        \/ \E ids \in Selections : Select(ids)
        \/ End

Spec == Init /\ [][Next]_session
=============================================================================
