--------------------------------- MODULE MCOhci ---------------------------------
(***************************************************************************)
(* A small instance of the OHCI module for model checking.                 *)
(***************************************************************************)
EXTENDS Ohci
CONSTANTS r1, r2
=============================================================================
