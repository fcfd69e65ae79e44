-------------------------------- MODULE MCTimers --------------------------------
(***************************************************************************)
(* A small instance of the timers for model checking: delays of 1, 3 and 2     *)
(* ticks, a period of 3, and a delay that is too short for a tick.         *)
(***************************************************************************)
EXTENDS Timers
CONSTANTS t1, t2, t3
ThreeTimers == {t1, t2, t3}
Settings == {<<t1, 2, 0>>, <<t1, 6, 0>>, <<t2, 0, 6>>, <<t2, 2, 6>>, <<t3, 4, 0>>, <<t3, 1, 0>>}
Endings == {<<t1, FALSE>>, <<t2, TRUE>>, <<t3, FALSE>>}
=============================================================================
