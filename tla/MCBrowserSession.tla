-------------------------- MODULE MCBrowserSession --------------------------
(***************************************************************************)
(* BrowserSession for TLC.                                                 *)
(***************************************************************************)
EXTENDS BrowserSession, TLC

CONSTANTS c1, c2

\* Ids a script repeats, which the page's Set never does.
Twice == {<<c1, c2, c1>>}

Symmetry == Permutations(Tab) \cup Permutations(Req)
=============================================================================
