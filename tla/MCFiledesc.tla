------------------------------ MODULE MCFiledesc ------------------------------
(***************************************************************************)
(* A small instance: a program with two threads, one of which makes        *)
(* asynchronous calls, and the request handler.  The path they open begins *)
(* with the names of both devices, as with "/" of the file system and with *)
(* a name below it.                                                        *)
(***************************************************************************)
EXTENDS Filedesc, TLC
CONSTANTS t1, t2, t3, d1, d2, a1, a2, h1, h2
Threads == {t1, t2, t3}
Processes == t1 :> 1 @@ t2 :> 1 @@ t3 :> 15
Limits == t1 :> 1 @@ t2 :> 1 @@ t3 :> 1
Devices == {d1, d2}
Paths == {"long"}
Prefixes == {<<"long", d1>>, <<"long", d2>>}
Apps == {a1, a2}
Handles == {h1, h2}
Messages == t1 :> {a1, a2} @@ t2 :> {NULL} @@ t3 :> {a2}
Interchangeable == Permutations(Handles) \cup Permutations(Devices)
=============================================================================
