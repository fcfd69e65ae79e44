-------------------------------- MODULE ShaEngine --------------------------------
(***************************************************************************)
(* The SHA engine and its thread: kernel/source/crypto/sha.c.  Data are    *)
(* sequences of units; a hash is known by the blocks that went into it.    *)
(* The engine itself is external: it adds blocks to the hash in its        *)
(* registers.                                                              *)
(***************************************************************************)
EXTENDS EngineRequests, SequencesExt

CONSTANTS
  Block,      \* SHA_BLOCK_SIZE
  LengthSize, \* units of the length at the end of the last block
  MaxBlocks   \* the most blocks of one command

ASSUME ShaAssumption ==
  Block \in Nat /\ LengthSize \in 1 .. Block - 1 /\ MaxBlocks \in Nat \ {0}

VARIABLES
  ctx,      \* the ShaContext of each thread, NULL the one for verifying
  told,     \* ghost: what the thread has had hashed since it began anew
  answer,   \* the final hash of a request
  sha,      \* the thread: what it still has to hash, and where it waits
  hash,     \* SHA_H0 .. SHA_H4
  shaCmd,   \* SHA_CMD, and the blocks it works on
  shaEvent, \* there is a message on the event queue
  shaQueue  \* the queue of /dev/sha

shaVars == <<ctx, told, answer, sha, hash, shaCmd, shaEvent, shaQueue>>

NoContext == [state |-> << >>, length |-> 0]
NothingTold == [sound |-> FALSE, key |-> NULL, data |-> << >>]
Waiting == [at |-> "wait", from |-> NULL, todo |-> << >>,
            final |-> << >>, good |-> TRUE]

ShaInit ==
  /\ ctx = [m \in Message \cup {NULL} |-> NoContext]
  /\ told = [m \in Message |-> NothingTold]
  /\ answer = [m \in Message |-> << >>]
  /\ sha = Waiting
  /\ hash = << >>
  /\ shaCmd = [execute |-> FALSE, irq |-> FALSE, failed |-> FALSE, blocks |-> << >>]
  /\ shaEvent = FALSE
  /\ shaQueue = << >>

-----------------------------------------------------------------------------
Floored(n) == n - (n % Block)
BlocksOf(data) == [i \in 1 .. Len(data) \div Block |-> SubSeq(data, (i - 1) * Block + 1, i * Block)]
Rest(data) == SubSeq(data, Floored(Len(data)) + 1, Len(data))

(* LastBlockBuffer: the rest, its end, and the length at the end of the    *)
(* first block or the second.                                              *)
\* mutant: a rest that leaves too little room for the length
LastBlocksTight(rest, length) ==
  LET size == IF Len(rest) + 1 <= Block - (LengthSize - 1) THEN Block ELSE 2 * Block
      unit(i) == IF i > size - LengthSize THEN <<"length", length>>
                 ELSE IF i <= Len(rest) THEN rest[i]
                 ELSE IF i = Len(rest) + 1 THEN <<"end">> ELSE <<"zero">>
  IN BlocksOf([i \in 1 .. size |-> unit(i)])
LastBlocks(rest, length) ==
  LET size == IF Len(rest) + 1 < Block - (LengthSize - 1) THEN Block ELSE 2 * Block
      unit(i) == IF i > size - LengthSize THEN <<"length", length>>
                 ELSE IF i <= Len(rest) THEN rest[i]
                 ELSE IF i = Len(rest) + 1 THEN <<"end">> ELSE <<"zero">>
  IN BlocksOf([i \in 1 .. size |-> unit(i)])

(* SHA-1 pads a message with its end and as few zeros as let the length    *)
(* end a block.                                                            *)
Padded(data) ==
  LET zeros == CHOOSE n \in 0 .. Block - 1 : (Len(data) + 1 + n + LengthSize) % Block = 0
  IN data \o <<<<"end">>>> \o [i \in 1 .. zeros |-> <<"zero">>]
          \o [i \in 1 .. LengthSize |-> <<"length", Len(data)>>]
Digest(data) == BlocksOf(Padded(data))
Key(pad, secret) == [i \in 1 .. Block |-> <<pad, secret>>]
Hmac(inner, outer, data) ==
  Digest(Key("outer", outer) \o <<<<"digest", Digest(Key("inner", inner) \o data)>>>>)

(* What a thread expects to be hashed once a request of its has succeeded. *)
(* It is owed nothing when it mixes hashes with MACs, or goes on after a   *)
(* failure or a final call; nor when the code is known not to keep to it:  *)
(* an Init with less than a block is accepted and its data are dropped, a  *)
(* hurried request may be signed with another key.                         *)
Told(t, r) ==
  IF r.kind = "verify" THEN t ELSE
  LET new == r.custom \o r.input
      fits == r.command = "init" \/ (t.sound /\ (t.key = NULL) = (r.kind = "sha"))
      short == r.command = "init" /\ r.kind = "sha" /\ Len(new) \in 1 .. Block - 1
  IN [ sound |-> fits /\ ~ short /\ ~ r.hurried,
       key |-> IF r.command = "init" THEN r.secret ELSE t.key,
       data |-> IF r.command = "init" THEN new ELSE t.data \o new ]
Expected(t, r) == IF r.kind = "sha" THEN Digest(t.data) ELSE Hmac(t.key, r.secret, t.data)

-----------------------------------------------------------------------------
(* GenerateSha in pieces that end where it waits for the engine.  A call   *)
(* is its data, its command and, in a verification, the hash that should   *)
(* come out; <<"final">> stands for the buffer with the final inner hash.  *)

Starts(blocks, from, irq) ==
  /\ hash' = from
  /\ shaCmd' = [execute |-> TRUE, irq |-> irq, failed |-> FALSE, blocks |-> blocks]

Caller == sha.from
Context == IF request[Caller].kind = "verify" THEN NULL ELSE Caller
Call == Head(sha.todo)
DataOf(call) == IF call.data = <<<<"final">>>> THEN <<<<"digest", sha.final>>>> ELSE call.data

(* ShaEngineHandler frees the vectors when all went well.                  *)
Ends(sound) ==
  /\ ResourceReply(Caller, "ok")
  /\ FreeOnHeap(Caller)
  /\ LET t == Told(told[Caller], request[Caller])
     IN told' = [told EXCEPT ![Caller] = [t EXCEPT !.sound = t.sound /\ sound]]
  /\ sha' = Waiting
  /\ UNCHANGED lost
GoesOn == UNCHANGED <<result, heap, lost, told>>
HMAC_Panic == sha' = [sha EXCEPT !.at = "panic"] /\ GoesOn
Fails ==
  IF request[Caller].kind = "verify" THEN HMAC_Panic
  ELSE /\ ReplyFailed(Caller)
       /\ told' = [told EXCEPT ![Caller] = NothingTold]
       /\ sha' = Waiting

Proceeds == IF Len(sha.todo) = 1 THEN Ends(TRUE)
            ELSE sha' = [sha EXCEPT !.at = "next", !.todo = Tail(@)] /\ GoesOn

Reset(context) == IF Call.command = "init" THEN NoContext ELSE context
Refused == LET n == Len(DataOf(Call))
           IN n >= Block /\ \/ n \div Block > MaxBlocks
                            \/ Call.command # "finalize" /\ n % Block # 0

Generate ==
  LET data == DataOf(Call)
      context == Reset(ctx[Context])
  IN /\ sha.at = "next"
     /\ \/ /\ Refused
           /\ ctx' = [ctx EXCEPT ![Context] = context]
           /\ Fails
           /\ shaCmd' = [shaCmd EXCEPT !.execute = FALSE]
           /\ UNCHANGED hash
        \/ /\ ~ Refused /\ Len(data) >= Block
           /\ ctx' = [ctx EXCEPT ![Context] = context]
           /\ Starts(BlocksOf(data), context.state, TRUE)
           /\ sha' = [sha EXCEPT !.at = "event"]
           /\ GoesOn
        \/ /\ ~ Refused /\ Len(data) < Block /\ Call.command = "finalize"
           /\ ctx' = [ctx EXCEPT ![Context].length = @ + Len(data)]
           /\ Starts(LastBlocks(data, context.length + Len(data)), context.state, FALSE)
           /\ sha' = [sha EXCEPT !.at = "spin"]
           /\ GoesOn
        \/ /\ ~ Refused /\ Len(data) < Block /\ Call.command # "finalize"
           /\ ctx' = [ctx EXCEPT ![Context] = context]
           /\ IF Call.command = "init" THEN Proceeds ELSE Fails
           /\ shaCmd' = [shaCmd EXCEPT !.execute = FALSE]
           /\ UNCHANGED hash
     /\ UNCHANGED <<request, piece, errors, answer, shaEvent, shaQueue>>

(* The blocks are done: on with the rest of a final call, or back with the *)
(* hash into the context.                                                  *)
Generated ==
  LET data == DataOf(Call)
      length == ctx[Context].length + Len(data)
  IN /\ sha.at = "event" /\ shaEvent
     /\ shaEvent' = FALSE
     /\ IF shaCmd.failed THEN Fails /\ UNCHANGED <<ctx, hash, shaCmd>>
        ELSE IF Call.command = "finalize"
        THEN /\ ctx' = [ctx EXCEPT ![Context].length = length]
             /\ Starts(LastBlocks(Rest(data), length), hash, FALSE)
             /\ sha' = [sha EXCEPT !.at = "spin"]
             /\ GoesOn
        ELSE /\ ctx' = [ctx EXCEPT ![Context] = [state |-> hash, length |-> length]]
             /\ Proceeds
             /\ UNCHANGED <<hash, shaCmd>>
     /\ UNCHANGED <<request, piece, errors, answer, shaQueue>>

(* The last blocks are done; HasError is not looked at, so that nothing is *)
(* owed if they failed.                                                    *)
Finalized ==
  /\ sha.at = "spin" /\ ~ shaCmd.execute
  /\ IF Call.claim \notin {<< >>, hash}
     THEN HMAC_Panic /\ UNCHANGED answer
     ELSE IF Len(sha.todo) = 1
     THEN /\ Ends(sha.good /\ ~ shaCmd.failed)
          /\ answer' = [answer EXCEPT ![Caller] = hash]
     ELSE /\ sha' = [sha EXCEPT !.at = "next", !.todo = Tail(@), !.final = hash,
                                !.good = ~ shaCmd.failed]
          /\ UNCHANGED answer
          /\ GoesOn
  /\ UNCHANGED <<request, piece, errors, ctx, hash, shaCmd, shaEvent, shaQueue>>

-----------------------------------------------------------------------------
(* ShaEngineHandler: the calls a request asks for.  The key is looked up   *)
(* now, with the handle that the vector points to by now.                  *)

CallOf(data, command) == [data |-> data, command |-> command, claim |-> << >>]
Unless(data) == IF data = << >> THEN << >> ELSE <<CallOf(data, "contribute")>>

(* VerifyHashesArray: what fills blocks is hashed first, then the rest.    *)
Whole(data) == SubSeq(data, 1, Floored(Len(data)))
VerifyHashesArray(claims) ==
  FlattenSeq([i \in 1 .. Len(claims) |->
    LET data == claims[i].data
    IN <<CallOf(Whole(data), "init"),
         [CallOf(Rest(data), "finalize") EXCEPT !.claim = claims[i].hash]>>])

Calls(r, secret) ==
  CASE r.kind = "sha" -> <<CallOf(r.input, r.command)>>
    [] r.kind = "verify" -> VerifyHashesArray(r.claims)
    [] r.kind = "mac" /\ r.command = "init" ->
         <<CallOf(Key("inner", secret), "init")>> \o Unless(r.custom)
    [] r.kind = "mac" /\ r.command = "contribute" -> Unless(r.custom) \o Unless(r.input)
    [] r.kind = "mac" /\ r.command = "finalize" ->
         Unless(r.custom) \o <<CallOf(r.input, "finalize"), CallOf(Key("outer", secret), "init"),
                               CallOf(<<<<"final">>>>, "finalize")>>

(* Init, Contribute and Finalize with the vectors of a MAC: the number of  *)
(* vectors is wrong, and they are freed all the same.                      *)
WrongCount(r) == r.kind = "plain"

ShaTakes(m, secret) ==
  LET r == request[m]
  IN /\ sha.at = "wait"
     /\ shaQueue' = Tail(shaQueue)
     /\ IF WrongCount(r)
        THEN /\ ResourceReply(m, "failed")
             /\ FreeOnHeap(m)
             /\ UNCHANGED <<lost, told, sha>>
        ELSE IF r.kind = "mac" /\ r.command # "contribute" /\ secret = NULL
        THEN /\ ReplyFailed(m)
             /\ told' = [told EXCEPT ![m] = NothingTold]
             /\ UNCHANGED sha
        ELSE IF Calls(r, secret) = << >>
        THEN /\ ResourceReply(m, "ok")
             /\ FreeOnHeap(m)
             /\ UNCHANGED <<lost, told, sha>>
        ELSE /\ sha' = [at |-> "next", from |-> m, todo |-> Calls(r, secret),
                        final |-> << >>, good |-> TRUE]
             /\ GoesOn
     /\ UNCHANGED <<request, piece, errors, ctx, answer, hash, shaCmd, shaEvent>>

ShaEngineHandler == Generate \/ Generated \/ Finalized
ShaBlocked == \/ sha.at = "wait" /\ shaQueue = << >>
              \/ sha.at = "event" /\ ~ shaEvent

-----------------------------------------------------------------------------
(* The engine is done with a command, and raises an interrupt if it is to. *)
ShaRuns ==
  /\ shaCmd.execute
  /\ \E failed \in BOOLEAN :
       /\ failed => errors < MaxErrors
       /\ errors' = IF failed THEN errors + 1 ELSE errors
       /\ hash' = IF failed THEN hash ELSE hash \o shaCmd.blocks
       /\ shaCmd' = [shaCmd EXCEPT !.execute = FALSE, !.failed = failed, !.blocks = << >>]
  /\ shaEvent' = (shaEvent \/ shaCmd.irq)
  /\ UNCHANGED <<request, result, heap, piece, lost, ctx, told, answer, sha, shaQueue>>
=============================================================================
