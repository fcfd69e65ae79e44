--------------------------------- MODULE MCIpc ---------------------------------
(***************************************************************************)
(* A small instance of the request handler for model checking.             *)
(***************************************************************************)
EXTENDS IpcProperties, TLC
CONSTANTS r1, r2, r3, r4, r5
Requests == {r1, r2, r3, r4, r5}
(* At the end of MEM1, in the middle of MEM2, at its end, and over it; the *)
(* last wraps round the end of the addresses.                              *)
Addresses == (r1 :> 4) @@ (r2 :> 10) @@ (r3 :> 14) @@ (r4 :> 15) @@ (r5 :> 19)
=============================================================================
