--------------------------------- MODULE Iosc ---------------------------------
(***************************************************************************)
(* The calls on keys: kernel/source/crypto/iosc.c.  The token that each    *)
(* call takes and gives back lets one call run at a time; what may happen  *)
(* within one is that a write to the SEEPROM is not acknowledged, or that  *)
(* the power goes.  The SEEPROM keeps its words then; the keyring is made  *)
(* anew.  The token itself is part of the module Kernel.                   *)
(***************************************************************************)
EXTENDS Keyring, Seeprom

CONSTANTS
  NgId,   \* KEYRING_CONST_NG_ID
  Values  \* what programs pass to SetData

VARIABLE call  \* the SetData whose loop is writing a copy

vars == <<keys, parts, seeprom, call>>

(* The preset key of subtype UNKNOWN2: KEYRING_CONST_NAND_GEN and so on    *)
Counter == CHOOSE h \in DOMAIN Preset : Preset[h].kind[2] = "UNKNOWN2"
ASSUME CounterAssumption == {h \in DOMAIN Preset : Preset[h].kind[2] = "UNKNOWN2"} = {Counter}
ASSUME ValuesAssumption == Values \subseteq Nat

Idle == [ value |-> -1, copy |-> 0, words |-> << >>, next |-> 0 ]
Beyond == IF Field = "gen" THEN {<<0, 0>>} ELSE Word \X Word

(* IOSC_BOOT2_Get*, IOSC_NAND_GetGen: as a u32 an error is above all.      *)
Below(v) == Readable /\ Reading < v

Init ==
  /\ SeepromInit
  /\ keys = Initial(Reading).keys /\ parts = Initial(Reading).parts
  /\ call = Idle

(* IOSC_CheckCurrentProcessOwnsKey                                         *)
Owns(p, h) == h = RootKey \/ p \in GetKeyOwnerProcess(h)

-----------------------------------------------------------------------------
(* IOSC_CreateObject.  A kind without a size and a full table are refused. *)
(* IOSC_SetNewKeyKind leaves what the slot had of its last key as it was.  *)
SetNewKeyKind(h, kind) ==
  [GetHandleFitSize(h, PartsNeeded(KeySize(kind))) EXCEPT !.kind = kind]

CreateObject(p, kind) ==
  LET n == PartsNeeded(KeySize(kind))
      h == FreeHandle
  IN /\ call = Idle
     /\ KeySize(kind) # INVALID /\ FreeHandles # {}
     /\ \/ /\ Fits(n)
           /\ keys' = [keys EXCEPT ![h] = [SetNewKeyKind(h, kind) EXCEPT !.owner = {p}]]
           /\ parts' = Linked(n)
        \/ /\ ~ Fits(n)
           /\ keys' = [keys EXCEPT ![h] = GetHandleFitSize(h, n)]
           /\ parts' = Undone(n)
     /\ UNCHANGED <<seeprom, call>>

(* IOSC_DeleteObject.  IOSC_DeleteCustomKey only deletes created keys.     *)
DeleteObject(p, h) ==
  /\ call = Idle
  /\ Owns(p, h) /\ h >= CustomStart
  /\ keys' = [keys EXCEPT ![h].used = FALSE]
  /\ parts' = Deleted(h)
  /\ UNCHANGED <<seeprom, call>>

-----------------------------------------------------------------------------
(* IOSC_SetData_Inner: a counter is raised step by step up to the value,   *)
(* then the value becomes the metadata.  A value below it is refused.      *)
ValidVersion(h, v) == v >= GetKeyMetadata(h)
Accepted(p, h, v) ==
  /\ Owns(p, h) /\ h # NgId
  /\ GetKeyTypes(h)[1] = "other"
  /\ GetKeyTypes(h)[2] = "UNKNOWN2" => ValidVersion(h, v) /\ h = Counter

UpdateFrom(beyond, v) ==
  [ value |-> v, copy |-> Oldest, words |-> Updated(Read(beyond)), next |-> 1 ]

SetData(p, h, v) ==
  /\ call = Idle
  /\ Accepted(p, h, v)
  /\ \/ /\ h # Counter \/ ~ Below(v)
        /\ keys' = SetKeyMetadata(h, v)
        /\ call' = call
     \/ /\ h = Counter /\ Below(v) /\ MayUpdate
        /\ \E beyond \in Beyond : call' = UpdateFrom(beyond, v)
        /\ keys' = keys
  /\ UNCHANGED <<parts, seeprom>>

(* SEEPROM_SendWord: bit after bit, but the chip writes whole words.       *)
SendWord(copy, offset, word) == seeprom' = [seeprom EXCEPT ![copy][offset] = word]

(* The next word of SEEPROM_BOOT2_UpdateCounter and                        *)
(* SEEPROM_NAND_UpdateCounter.                                             *)
UpdateCounter == SendWord(call.copy, call.next, call.words[call.next])

NextWord ==
  /\ call.next \in 1 .. Size - 1
  /\ UpdateCounter
  /\ call' = [call EXCEPT !.next = @ + 1]
  /\ UNCHANGED <<keys, parts>>

(* The last word; the loop of IOSC_SetData_Inner goes on or ends.          *)
LastWord ==
  LET below == Readable' /\ Reading' < call.value
  IN /\ call.next = Size
     /\ UpdateCounter
     /\ \/ /\ ~ below
           /\ keys' = SetKeyMetadata(Counter, call.value)
           /\ call' = Idle
        \/ /\ below /\ MayUpdate'
           /\ \E beyond \in Beyond :
                call' = [UpdateFrom(beyond, 0)' EXCEPT !.value = call.value]
           /\ keys' = keys
        \/ /\ below /\ ~ MayUpdate'
           /\ call' = Idle
           /\ keys' = keys
     /\ UNCHANGED parts

(* SEEPROM_WaitNotBusy runs out of attempts, with the word written or not. *)
\* mutant: the failure of an update is not noticed
FailureIgnored == SetKeyMetadata(Counter, call.value)
AfterFailure == keys
WaitNotBusyFails ==
  /\ call # Idle
  /\ UpdateCounter \/ seeprom' = seeprom
  /\ call' = Idle
  /\ keys' = AfterFailure
  /\ UNCHANGED parts

PowerCut ==
  /\ keys' = Initial(Reading).keys /\ parts' = Initial(Reading).parts
  /\ call' = Idle
  /\ UNCHANGED seeprom

(* What the calls that only read tell p: IOSC_GetData, of the preset keys  *)
(* whoever owns them, and IOSC_GetKeySize.                                 *)
GetData(p, h) ==
  IF h >= CustomStart /\ h # RootKey /\ ~ Owns(p, h) THEN INVALID ELSE GetKeyMetadataIfOthers(h)
GetKeySize(p, h) == IF Owns(p, h) THEN FindKeySize(h) ELSE INVALID
GetSignatureSize(p, h) == IF Owns(p, h) THEN SignatureSize(GetKeyTypes(h)) ELSE INVALID

Next ==
  \/ \E p \in Process :
       \/ \E kind \in Kind : CreateObject(p, kind)
       \/ \E h \in Handle : DeleteObject(p, h)
       \/ \E h \in Handle, v \in Values : SetData(p, h, v)
  \/ NextWord \/ LastWord
  \/ WaitNotBusyFails
  \/ PowerCut

Spec == Init /\ [][Next]_vars

-----------------------------------------------------------------------------
(* Every variable has its type, and an update writes a copy of the table.  *)
TypeOK ==
  /\ keys \in [Handle -> [ used : BOOLEAN, kind : Kind \cup {<<"none", "none">>}
                             \cup {Preset[h].kind : h \in DOMAIN Preset},
                           owner : SUBSET (Process \cup UNION {Preset[h].owner : h \in DOMAIN Preset}),
                           metadata : Nat, index : Part \cup {-1, FailAlloc} ]]
  /\ parts \in [Part -> [used : BOOLEAN, next : Part, key : {Blank} \cup DOMAIN Preset]]
  /\ seeprom \in [Copy -> [1 .. Size -> Word]]
  /\ call = Idle \/ call \in [ value : Values, copy : Copy, words : [1 .. Size -> Word],
                               next : 1 .. Size ]

(* The entries in use are the data of the keys in use, each of one key and *)
(* as many as its size takes: creation that fails half way, deletion and   *)
(* reuse of scattered entries neither lose an entry nor share one, and a   *)
(* created key shows nothing of the preset ones.  A program is told the    *)
(* size that its key has, a signature size only of a key whose data are    *)
(* there to sign or verify with, and the kind that is asked for is never   *)
(* that of a slot that is not in use.                                      *)
HasData == {h \in Handle : keys[h].used /\ KeySize(keys[h].kind) > 0}
Data(h) == IF h \in HasData THEN Chain[keys[h].index] ELSE {}
PartsAccounted ==
  /\ TypeOK
  /\ {e \in Part : parts[e].used} = UNION {Data(h) : h \in HasData}
  /\ \A h \in HasData :
       /\ GetKey(h) = {IF h < CustomStart THEN h ELSE Blank}
       /\ \A g \in HasData \ {h} : Data(g) \cap Data(h) = {}
  /\ \A p \in Process, h \in Handle :
       /\ GetKeySize(p, h) # INVALID => Cardinality(Data(h)) = PartsNeeded(GetKeySize(p, h))
       /\ GetSignatureSize(p, h) # INVALID => Data(h) # {}
       /\ GetData(p, h) # INVALID \/ Owns(p, h) => GetKeyTypes(h) # Undefined

(* The value that programs read of a counter is one that the SEEPROM has   *)
(* reached, and the SEEPROM can be read, even in the midst of an update:   *)
(* SetData reports no value that the next start would take back.           *)
CounterIsBacked == Readable /\ \A p \in Process : GetData(p, Counter) \in 0 .. Reading

(* "Increment the hardware counter one step at a time" (iosc.c:692): a     *)
(* counter of the SEEPROM only ever advances by one, also where an update  *)
(* stops between two of its words; and the value that programs read of it  *)
(* never decreases, neither by a call nor by an update that fails nor by a *)
(* loss of power.                                                          *)
Largest == IF Field = "gen" THEN W * W - 2 ELSE Byte - 1
Abstract == INSTANCE MonotonicCounter WITH Limit <- Largest, value <- Reading
ImplementsCounter ==
  /\ Abstract!Spec
  /\ [][GetKeyMetadata(Counter)' >= GetKeyMetadata(Counter)]_vars
=============================================================================
