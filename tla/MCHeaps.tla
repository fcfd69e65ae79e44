-------------------------------- MODULE MCHeaps --------------------------------
(***************************************************************************)
(* Small instances of the heaps for model checking.                        *)
(***************************************************************************)
EXTENDS Heaps, TLC
CONSTANTS p1, p2
TwoProcesses == {p1, p2}
Interchangeable == Permutations(TwoProcesses)
Regions == {[base |-> 2, size |-> 20], [base |-> 22, size |-> 4], [base |-> 26, size |-> 2]}
Requests == {[size |-> 1, alignment |-> 2], [size |-> 2, alignment |-> 4]}
=============================================================================
