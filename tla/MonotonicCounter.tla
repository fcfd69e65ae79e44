--------------------------- MODULE MonotonicCounter ---------------------------
(***************************************************************************)
(* What a counter kept in the SEEPROM promises: it never goes back and it  *)
(* advances by one, whenever the power goes.                               *)
(***************************************************************************)
EXTENDS Naturals
CONSTANT Limit
VARIABLE value

Init == value \in 0 .. Limit
Advance == value < Limit /\ value' = value + 1
Spec == Init /\ [][Advance]_value
=============================================================================
