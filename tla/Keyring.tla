-------------------------------- MODULE Keyring --------------------------------
(***************************************************************************)
(* The keyring: kernel/source/crypto/keyring.c.  A key has a slot of       *)
(* KeyringMetadata[]; its data lie in a chain of entries of 0x20 bytes,    *)
(* linked upwards, where 0 ends the chain.                                 *)
(***************************************************************************)
EXTENDS Integers, FiniteSets

CONSTANTS
  Process,     \* the process ids of callers
  Kind,        \* pairs of a type and a subtype
  Preset,      \* the kind and the owners of the keys that Keyring_Init makes, by handle
  TotalKeys,   \* KEYRING_METADATA_TOTAL_ENTRIES
  TotalParts,  \* KEYRING_TOTAL_ENTRIES
  Ahead        \* the link read in the memory ahead of KeyringEntries[]

VARIABLES
  keys,   \* KeyringMetadata[]
  parts   \* KeyringEntries[]

Handle == 0 .. TotalKeys - 1
Part == 0 .. TotalParts - 1
CustomStart == Cardinality(DOMAIN Preset)  \* KEYRING_CUSTOM_START_INDEX
RootKey == TotalKeys  \* RSA4096_ROOTKEY, a handle with no slot

(* Keyring_GetKeySizeFromType: the sizes in bytes, and INVALID for EINVAL  *)
INVALID == -1
KeySize(kind) ==
  CASE kind[1] = "public" -> CASE kind[2] = "RSA_4096" -> 512 [] kind[2] = "RSA_2048" -> 256
                               [] kind[2] = "ECC_233" -> 60 [] OTHER -> INVALID
    [] kind[1] = "private" -> CASE kind[2] = "HMAC" -> 20 [] kind[2] = "AES_128" -> 16
                                [] kind[2] = "ECC_233" -> 30 [] OTHER -> INVALID
    [] kind[1] = "both" -> IF kind[2] = "ECC_233" THEN 90 ELSE INVALID
    [] kind[1] = "other" -> IF kind[2] \in {"UNKNOWN1", "UNKNOWN2"} THEN 0 ELSE INVALID
    [] OTHER -> INVALID
(* Keyring_GetSignatureSize: of what a key verifies or signs               *)
SignatureSize(kind) ==
  CASE kind[1] = "public" -> KeySize(kind)
    [] kind = <<"private", "HMAC">> -> 20
    [] kind \in {"private", "both"} \X {"ECC_233"} -> 60
    [] OTHER -> INVALID
PartSize == 32
PartsNeeded(size) == (size + PartSize - 1) \div PartSize

ASSUME TablesAssumption ==
  /\ TotalKeys \in Nat /\ TotalParts \in Nat \ {0} /\ Ahead \in Part /\ CustomStart \in Nat
  /\ DOMAIN Preset = 0 .. CustomStart - 1 /\ CustomStart < TotalKeys
  /\ \A h \in DOMAIN Preset : KeySize(Preset[h].kind) \in 0 .. PartSize
  /\ Cardinality({h \in DOMAIN Preset : KeySize(Preset[h].kind) > 0}) <= TotalParts

(* What an entry holds is the data of a preset key, or zeroes: nothing but *)
(* Keyring_Init calls Keyring_SetKey.                                      *)
Blank == -1
NoPart == [used |-> FALSE, next |-> 0, key |-> Blank]
NoKey == [used |-> FALSE, kind |-> <<"none", "none">>, owner |-> {}, metadata |-> 0, index |-> 0]

(* Keyring_Init, and the owners that IOSC_Init gives.  Keys without data   *)
(* have index 0, which is the entry of the first key.  "counter" is what   *)
(* the metadata of a key of subtype UNKNOWN2 begins with.                  *)
Initial(counter) ==
  LET data == {h \in DOMAIN Preset : KeySize(Preset[h].kind) > 0}
  IN [ keys |-> [h \in Handle |->
         IF h \notin DOMAIN Preset THEN NoKey
         ELSE [ used |-> TRUE, kind |-> Preset[h].kind, owner |-> Preset[h].owner,
                metadata |-> IF Preset[h].kind[2] = "UNKNOWN2" THEN counter ELSE 0,
                index |-> IF h \in data THEN Cardinality({g \in data : g < h}) ELSE 0 ]],
       parts |-> [e \in Part |->
         IF e >= Cardinality(data) THEN NoPart
         ELSE [ used |-> TRUE, next |-> 0,
                key |-> CHOOSE h \in data : Cardinality({g \in data : g < h}) = e ]] ]

-----------------------------------------------------------------------------
(* The entries from e on; they are linked upwards.                         *)
Chain[e \in Part] ==
  {e} \cup (IF parts[e].next > e THEN Chain[parts[e].next] ELSE {})

Free == {e \in Part : ~ parts[e].used}
Fits(n) == n <= Cardinality(Free)

(* The entries that the search takes: the lowest free ones, as many as     *)
(* are needed or as there are.                                             *)
Taken(n) == {e \in Free : Cardinality({f \in Free : f < e}) < n}
Linked(n) ==
  [e \in Part |->
    IF e \notin Taken(n) THEN parts[e]
    ELSE LET later == {f \in Taken(n) : f > e}
         IN [ used |-> TRUE, key |-> Blank,
              next |-> IF later = {} THEN 0 ELSE CHOOSE f \in later : \A g \in later : f <= g ]]

\* mutant: an entry is cleared before its link is read
UndoneFirst(n) ==
  LET head == IF Free = {} THEN {} ELSE {e \in Taken(n) : \A f \in Taken(n) : e <= f}
  IN [e \in Part |-> IF e \in head THEN NoPart ELSE Linked(n)[e]]

(* If they do not fit, what was taken is cleared along its links.  If none *)
(* was free the walk begins ahead of the table.                            *)
Undone(n) ==
  LET cleared == IF Free # {} THEN Taken(n) ELSE IF Ahead = 0 THEN {} ELSE Chain[Ahead]
  IN [e \in Part |-> IF e \in cleared THEN NoPart ELSE parts[e]]

(* Keyring_GetHandleFitSize, Keyring_GetKeyIndexFitSize                    *)
FreeHandles == {h \in Handle : ~ keys[h].used}
FreeHandle == CHOOSE h \in FreeHandles : \A g \in FreeHandles : h <= g
GetKeyIndexFitSize(n) ==
  CHOOSE e \in Taken(n) : \A f \in Taken(n) : e <= f

(* The slot h of a new key with n entries; when they do not fit it keeps   *)
(* the error as its index.                                                 *)
FailAlloc == -2013
GetHandleFitSize(h, n) ==
  IF ~ Fits(n) THEN [keys[h] EXCEPT !.index = FailAlloc]
  ELSE [keys[h] EXCEPT !.used = TRUE, !.index = IF n = 0 THEN -1 ELSE GetKeyIndexFitSize(n)]

(* IOSC_DeleteKeyringEntry: the chain up to an entry that is not in use    *)
Deleted(h) ==
  LET e == keys[h].index
  IN IF e = -1 THEN parts
     ELSE [f \in Part |-> IF f \in Chain[e] /\ \A g \in Chain[e] : g <= f => parts[g].used
                          THEN NoPart ELSE parts[f]]

-----------------------------------------------------------------------------
(* What is read of a key.  A slot that is not in use is refused, but not   *)
(* by Keyring_GetKeyTypes: the kind is then what was on the stack.         *)
Undefined == <<"none", "none">>
GetKeyKind(h) == IF keys[h].used THEN keys[h].kind ELSE Undefined
GetKeyTypes(h) == IF h = RootKey THEN <<"public", "RSA_4096">> ELSE GetKeyKind(h)
FindKeySize(h) == IF h = RootKey THEN 512 ELSE KeySize(GetKeyTypes(h))
GetKeyMetadata(h) == IF keys[h].used THEN keys[h].metadata ELSE INVALID
SetKeyMetadata(h, v) == [keys EXCEPT ![h].metadata = v]
GetKeyMetadataIfOthers(h) ==
  IF GetKeyTypes(h)[1] # "other" THEN INVALID ELSE GetKeyMetadata(h)
GetKeyOwnerProcess(h) == IF keys[h].used THEN keys[h].owner ELSE {}

(* Keyring_GetKey: the data along the chain, none if it has a free entry   *)
GetKey(h) ==
  LET e == keys[h].index
  IN IF ~ keys[h].used \/ e \notin Part \/ \E f \in Chain[e] : ~ parts[f].used THEN {}
     ELSE {parts[f].key : f \in Chain[e]}
=============================================================================
