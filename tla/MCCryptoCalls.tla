------------------------------ MODULE MCCryptoCalls ------------------------------
(***************************************************************************)
(* Small instances of the crypto engines for model checking: blocks of     *)
(* three units, the last of which may be the length.                       *)
(***************************************************************************)
EXTENDS CryptoCalls, TLC
CONSTANTS p1, p2, h1, h2
SyncOfOne == <<p1, "sync">>
AsyncOfOne == <<p1, "async">>
SyncOfTwo == <<p2, "sync">>
Messages == {SyncOfOne, AsyncOfOne, SyncOfTwo}
UsesOfEach ==
  LET programs(one, async, two) == SyncOfOne :> one @@ AsyncOfOne :> async @@ SyncOfTwo :> two
  IN { programs({"mac", "plain"}, {"mac"}, {"hash"}),
       programs({"hash"}, {"verify"}, {}),
       programs({"decrypt"}, {"encrypt"}, {"copy"}) }
CallsOfEach == SyncOfOne :> 2 @@ AsyncOfOne :> 1 @@ SyncOfTwo :> 2
Handles == {h1, h2}
Owners == h1 :> p1 @@ h2 :> p2
KeysOfOne == {h1}
Lengths == {0, 2, 4}
CustomLengths == {3}
=============================================================================
