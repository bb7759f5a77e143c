------------------------------- MODULE Option -------------------------------
(***************************************************************************)
(* Rust's Option::None, and SQL's NULL.                                    *)
(***************************************************************************)

CONSTANT None
=============================================================================
