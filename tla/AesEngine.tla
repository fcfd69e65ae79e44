-------------------------------- MODULE AesEngine --------------------------------
(***************************************************************************)
(* The AES engine and its thread: kernel/source/crypto/aes.c.  The engine  *)
(* reads and writes memory, programs see it through the data cache.  Data  *)
(* are known by what was done to them; those of a request are as long as   *)
(* one cache line.  The engine itself is external.                         *)
(***************************************************************************)
EXTENDS EngineRequests

Buffer == {"a", "b"}

ASSUME BufferAssumption == NULL \notin Buffer

VARIABLES
  line,     \* the buffers of a thread: memory, cache, and which is newer
  iv,       \* the initialisation vector of a thread
  aes,      \* the request the thread works on, or NULL, and ivBuffer
  aesCmd,   \* AES_CMD, and what the other registers hold for it
  aesEvent, \* there is a message on the event queue
  aesQueue  \* the queue of /dev/aes

aesVars == <<line, iv, aes, aesCmd, aesEvent, aesQueue>>

Data(l) == IF l.cache = NULL THEN l.mem ELSE l.cache
Blank == [mem |-> <<"old">>, cache |-> <<"new">>, dirty |-> TRUE]

AesInit ==
  /\ line = [m \in Message |-> [b \in Buffer |-> Blank]]
  /\ iv = [m \in Message |-> <<"first">>]
  /\ aes = [from |-> NULL, saved |-> NULL]
  /\ aesCmd = [execute |-> FALSE, irq |-> FALSE, failed |-> FALSE, key |-> NULL, iv |-> NULL]
  /\ aesEvent = FALSE
  /\ aesQueue = << >>

(* What AES in CBC mode makes of data, and the vector that goes on from it *)
Cipher(command, key, vector, data) ==
  IF command = "copy" THEN data ELSE <<command, key, vector, data>>
NextVector(command, vector, input, output) ==
  CASE command = "copy" -> vector
    [] command = "encrypt" -> <<"last", output>>
    [] command = "decrypt" -> <<"last", input>>

Written(l) == [l EXCEPT !.mem = Data(l), !.dirty = FALSE]
Dropped(l) == [l EXCEPT !.cache = NULL, !.dirty = FALSE]
ReadIn(l) == [l EXCEPT !.cache = Data(l)]

(* DCFlushRange on the input writes its line back, DCInvalidateRange on    *)
(* the output drops its line.  Both may be the same.                       *)
\* mutant: the other way round
DropsThenWrites(lines, r) ==
  LET dropped == [lines EXCEPT ![r.dst] = Dropped(@)] IN [dropped EXCEPT ![r.src] = Written(@)]
WritesThenDrops(lines, r) ==
  LET written == [lines EXCEPT ![r.src] = Written(@)] IN [written EXCEPT ![r.dst] = Dropped(@)]

-----------------------------------------------------------------------------
\* mutant: GenerateIrq is never set
AesStartsQuietly(key, vector) ==
  aesCmd' = [execute |-> TRUE, irq |-> FALSE, failed |-> FALSE, key |-> key, iv |-> vector]
AesStarts(key, vector) ==
  aesCmd' = [execute |-> TRUE, irq |-> TRUE, failed |-> FALSE, key |-> key, iv |-> vector]

(* AesEngineHandler, until it waits for the engine.  ivBuffer gets the end *)
(* of the input before the engine may write over it.                       *)
AesTakes ==
  LET m == Head(aesQueue)
      r == request[m]
  IN /\ aes.from = NULL /\ aesQueue # << >>
     /\ aesQueue' = Tail(aesQueue)
     /\ aes' = [ from |-> m,
                 saved |-> IF r.command = "decrypt" THEN <<"last", Data(line[m][r.src])>>
                           ELSE aes.saved ]
     /\ line' = [line EXCEPT ![m] = WritesThenDrops(@, r)]
     /\ AesStarts(r.secret, iv[m])
     /\ UNCHANGED <<request, result, heap, piece, lost, errors, iv, aesEvent>>

(* The event has come.  The end of the output, or what was saved of the    *)
(* input, is the next vector; the key and the vectors are freed, but not   *)
(* those of a copy, which come from a program.                             *)
AesDone ==
  LET m == aes.from
      r == request[m]
      saved == IF r.command = "encrypt" THEN <<"last", Data(line[m][r.dst])>> ELSE aes.saved
  IN /\ aes.from # NULL /\ aesEvent
     /\ aesEvent' = FALSE
     /\ IF aesCmd.failed
        THEN /\ ReplyFailed(m)
             /\ aes' = [aes EXCEPT !.from = NULL]
             /\ UNCHANGED <<line, iv>>
        ELSE /\ ResourceReply(m, "ok")
             /\ IF r.command = "copy"
                THEN UNCHANGED <<heap, iv>>
                ELSE FreeOnHeap(m) /\ iv' = [iv EXCEPT ![m] = saved]
             /\ aes' = [from |-> NULL, saved |-> saved]
             /\ line' = IF r.command = "encrypt" THEN [line EXCEPT ![m][r.dst] = ReadIn(@)]
                        ELSE line
             /\ UNCHANGED lost
     /\ UNCHANGED <<request, piece, errors, aesCmd, aesQueue>>

AesEngineHandler == AesTakes \/ AesDone
AesBlocked == IF aes.from = NULL THEN aesQueue = << >> ELSE ~ aesEvent

-----------------------------------------------------------------------------
(* The engine writes its output to memory, or fails with half of it, and   *)
(* raises an interrupt if it is to.                                        *)
AesRuns ==
  /\ aesCmd.execute
  /\ LET m == aes.from
         r == request[m]
         output == Cipher(r.command, aesCmd.key, aesCmd.iv, line[m][r.src].mem)
     IN \E failed \in BOOLEAN :
          /\ failed => errors < MaxErrors
          /\ errors' = IF failed THEN errors + 1 ELSE errors
          /\ line' = [line EXCEPT ![m][r.dst].mem = IF failed THEN <<"half">> ELSE output]
          /\ aesCmd' = [aesCmd EXCEPT !.execute = FALSE, !.failed = failed]
  /\ aesEvent' = (aesEvent \/ aesCmd.irq)
  /\ UNCHANGED <<request, result, heap, piece, lost, iv, aes, aesQueue>>

(* The data cache makes room for something else.                           *)
Evicts(m, b) ==
  /\ line[m][b].cache # NULL
  /\ line' = [line EXCEPT ![m][b] = Dropped(Written(@))]
  /\ UNCHANGED <<request, result, heap, piece, lost, errors, iv, aes, aesCmd, aesEvent, aesQueue>>
=============================================================================
