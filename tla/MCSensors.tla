----------------------------- MODULE MCSensors ------------------------------
(***************************************************************************)
(* Sensors for TLC: two administrators and an operator, a sensor that      *)
(* writes CDRs and one that does not.                                      *)
(***************************************************************************)
EXTENDS Sensors

Form(i, n, p, d) == [id |-> i, name |-> n, port |-> p, disable |-> d]

TheForms == {Form(1, "x", 1, TRUE), Form(Bad, None, 70000, FALSE), Form(0, None, None, FALSE)}
=============================================================================
