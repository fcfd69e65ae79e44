-------------------------------- MODULE Seeprom --------------------------------
(***************************************************************************)
(* The counters of the SEEPROM: kernel/source/crypto/seeprom.c, boot2.c    *)
(* and nand.c.  A counter is kept in several copies, each closed by a      *)
(* checksum.  The newest valid copy counts; an update is written to the    *)
(* oldest one, word by word, and may stop after any word.                  *)
(*                                                                         *)
(* The generation of the NAND is three copies of <<high, low, checksum>>.  *)
(* The three counters of boot2 share two copies of                         *)
(* <<version and unk1, unk2 and padding, tag high, tag low, checksum>>,    *)
(* with two counters of a byte in a word.                                  *)
(***************************************************************************)
EXTENDS Integers, Sequences

CONSTANTS
  Field,   \* the counter that is used: "gen", "version", "unk1" or "unk2"
  Byte,    \* the number of values of a byte
  First    \* the number of the oldest copy at the start

W == Byte * Byte  \* the values of a word
Copy == IF Field = "gen" THEN 1 .. 3 ELSE 1 .. 2
Tag == IF Field = "gen" THEN 1 ELSE 3  \* where the number of a copy begins
Size == Tag + 2

ASSUME FieldAssumption == Field \in {"gen", "version", "unk1", "unk2"}
ASSUME ByteAssumption == Byte \in Nat \ {0, 1}
ASSUME FirstAssumption == First \in 0 .. W * W - 5

VARIABLE seeprom  \* the words of each copy

Word == 0 .. W - 1
Number(c) == c[Tag] * W + c[Tag + 1]

(* BOOT2_ComputeCounterChecksum, NAND_ComputeCounterChecksum               *)
ComputeCounterChecksum(c) ==
  (c[1] + c[2] + (IF Field = "gen" THEN 0 ELSE c[3] + c[4])) % W
Sealed(c) == c \o <<ComputeCounterChecksum(c)>>

(* The state left by updates that were all completed; boot2 has version 1. *)
SeepromInit ==
  seeprom = [i \in Copy |-> LET n == First + i - 1
                            IN Sealed((IF Field = "gen" THEN << >> ELSE <<Byte, 0>>)
                                      \o <<n \div W, n % W>>)]

-----------------------------------------------------------------------------
(* SEEPROM_BOOT2_GetCounter, SEEPROM_NAND_GetCounter                       *)
Valid == {i \in Copy : ComputeCounterChecksum(seeprom[i]) = seeprom[i][Size]}
Newest == CHOOSE i \in Valid :
  \A j \in Valid : \/ Number(seeprom[j]) < Number(seeprom[i])
                   \/ Number(seeprom[j]) = Number(seeprom[i]) /\ j <= i

(* The copy to write: the last that is not valid, or the first with the    *)
(* smallest number below the largest of a u32.                             *)
Writable == IF Valid # Copy THEN Copy \ Valid
            ELSE {i \in Copy : Number(seeprom[i]) < W * W - 1}
\* mutant: the two comparisons are mixed up
NewestAgain == Newest
Oldest == CHOOSE i \in Writable :
  IF Valid # Copy THEN \A j \in Writable : j <= i
  ELSE \A j \in Copy : \/ Number(seeprom[i]) < Number(seeprom[j])
                       \/ Number(seeprom[i]) = Number(seeprom[j]) /\ i <= j
Readable == Valid # {} /\ Writable # {}

(* What they return.  For boot2 the copy begins at UpdateTag, not at the   *)
(* start of the counter: it goes on into the second counter, or into the   *)
(* words "beyond" on the stack.                                            *)
Read(beyond) ==
  IF Field = "gen" THEN seeprom[Newest]
  ELSE SubSeq(seeprom[Newest] \o (IF Newest = 1 THEN seeprom[2] ELSE beyond), 3, 7)

(* BOOT2_GetVersion, BOOT2_GetUnk1, BOOT2_GetUnk2, NAND_GetGen             *)
Value(c) == CASE Field = "gen" -> Number(c)
              [] Field = "version" -> c[1] \div Byte
              [] Field = "unk1" -> c[1] % Byte
              [] Field = "unk2" -> c[2] \div Byte
Unread == [w \in 1 .. 2 |-> 0]  \* no counter is among the words beyond
Reading == Value(Read(Unread))

(* Guards of IOSC_BOOT2_Update* and IOSC_NAND_UpdateGen                    *)
MayUpdate == IF Field = "gen" THEN Reading # W * W - 2 ELSE Reading + 1 < Byte

(* The words of BOOT2_Update* and NAND_UpdateGen; bytes and words wrap.    *)
Raised(c) == LET n == (Number(c) + 1) % (W * W)
             IN [c EXCEPT ![Tag] = n \div W, ![Tag + 1] = n % W]
Bumped(c) ==
  CASE Field = "gen" -> c
    [] Field = "version" -> [c EXCEPT ![1] = (@ + Byte) % W]
    [] Field = "unk1" -> [c EXCEPT ![1] = (@ - (@ % Byte)) + ((@ + 1) % Byte)]
    [] Field = "unk2" -> [c EXCEPT ![2] = (@ + Byte) % W]
Updated(c) == Sealed(SubSeq(Raised(Bumped(c)), 1, Size - 1))
=============================================================================
