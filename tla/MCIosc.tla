-------------------------------- MODULE MCIosc --------------------------------
(***************************************************************************)
(* Small instances of the keyring and its counters for model checking.     *)
(***************************************************************************)
EXTENDS Iosc

Kinds == { <<"private", "AES_128">>, <<"public", "ECC_233">>, <<"both", "ECC_233">>,
           <<"other", "UNKNOWN1">>, <<"public", "AES_128">> }
ProcessIds == {1, 2}
(* NG_PRIVATE_KEY, NG_ID and NAND_GEN or BOOT2_VERSION, with their owners  *)
Presets(counterOwner) ==
  [ h \in 0 .. 2 |->
      CASE h = 0 -> [kind |-> <<"private", "ECC_233">>, owner |-> {0, 1}]
        [] h = 1 -> [kind |-> <<"other", "UNKNOWN1">>, owner |-> 0 .. 2]
        [] h = 2 -> [kind |-> <<"other", "UNKNOWN2">>, owner |-> counterOwner] ]
NandPresets == Presets({0, 2})
Boot2Presets == Presets({0, 1})
NandValues == {13, 15}
Boot2Values == {1, 2}
=============================================================================
