------------------------------ MODULE Ipc_proofs ------------------------------
(***************************************************************************)
(* Theorems about the request handler, for every set of requests and every *)
(* size of its buffer and its queue.                                       *)
(***************************************************************************)
EXTENDS IpcProperties, FiniteSetTheorems, SequenceTheorems, TLAPS

Coming == IF pc \in {"incoming", "count"} THEN 1 ELSE 0
InHand == IF (pc \in {"read", "branch"} /\ msg # NULL) \/ pc = "dispatch" THEN 1 ELSE 0
InterruptQueued == \E i \in DOMAIN queue : queue[i] = NULL
Replies == Len(queue) - (IF InterruptQueued THEN 1 ELSE 0)

(* What is in the register or in the handler's hands is a request.         *)
RequestInHand ==
  /\ reg.x1 => reg.ppcmsg \in Request
  /\ pc \in {"incoming", "count", "dispatch"} => fromPPC \in Request

(* Flow control.  The register is free or in use, and the handler has room *)
(* for one more request exactly when the PowerPC may send or has sent one. *)
FlowControl ==
  /\ AckAfterTaking
  /\ reg.y2 => ppc.unacked
  /\ ~ ppc.unacked \/ reg.y2 \/ reg.x1 => circ.waiting + Coming < BufferSize
  /\ HeldBackOnlyWhenFull

(* The two indices of the buffer agree with its count.                     *)
IndicesAgree ==
  /\ 0 <= circ.ready
  /\ circ.putAt = (circ.sendAt + circ.ready) % BufferSize

(* Every reply that will need a place in the buffer is counted as waiting. *)
Accounted ==
  circ.ready + Cardinality(serving) + Replies + InHand <= circ.waiting

OneNull == \A i, j \in DOMAIN queue : queue[i] = NULL /\ queue[j] = NULL => i = j

(* The interrupt is a token: it is enabled, or its message is queued, or   *)
(* the message is in the handler's hands, or the handler is about to enable *)
(* it; and the flag it announces stays set until the handler reads it.     *)
OneInterrupt ==
  /\ OneNull
  /\ masked <=> InterruptQueued \/ NULL \in Received \/ pc \in {"relaunch", "incoming"}
  /\ InterruptQueued => NULL \notin Received /\ pc \notin {"relaunch", "incoming"}
  /\ InterruptQueued \/ NULL \in Received => reg.x1 \/ reg.x2
  /\ pc = "branch" /\ msg = NULL => reg.x2 \/ fromPPC = reg.ppcmsg

IInv ==
  /\ TypeOK /\ RequestInHand /\ FlowControl
  /\ IndicesAgree /\ Accounted /\ OneInterrupt

-----------------------------------------------------------------------------
(* Arithmetic of the circular buffer.                                      *)

LEMMA ModFacts ==
  ASSUME NEW a \in 0 .. 2 * BufferSize - 1
  PROVE  /\ a % BufferSize \in Slot
         /\ a < BufferSize => a % BufferSize = a
         /\ a >= BufferSize => a % BufferSize = a - BufferSize
BY RoomAssumption DEF Slot

LEMMA NextSlot ==
  ASSUME NEW i \in Slot
  PROVE  (i + 1) % BufferSize \in Slot
<1>1. i + 1 \in 0 .. 2 * BufferSize - 1
  BY RoomAssumption DEF Slot
<1> QED BY <1>1, ModFacts

(* One more reply, at the place after the last ...                         *)
LEMMA PutKeepsIndices ==
  ASSUME NEW s \in Slot, NEW n \in 0 .. BufferSize - 1
  PROVE  (((s + n) % BufferSize) + 1) % BufferSize = (s + (n + 1)) % BufferSize
<1>1. s + n \in 0 .. 2 * BufferSize - 1 /\ s + (n + 1) \in 0 .. 2 * BufferSize - 1
  BY RoomAssumption DEF Slot
<1>2. ((s + n) % BufferSize) + 1 \in 0 .. 2 * BufferSize - 1
  BY <1>1, ModFacts, RoomAssumption DEF Slot
<1> QED BY <1>1, <1>2, ModFacts, RoomAssumption, SMTT(40) DEF Slot

(* ... or one less, the first.                                             *)
LEMMA SendKeepsIndices ==
  ASSUME NEW s \in Slot, NEW n \in 1 .. BufferSize
  PROVE  (s + n) % BufferSize = (((s + 1) % BufferSize) + (n - 1)) % BufferSize
<1>1. s + n \in 0 .. 2 * BufferSize - 1 /\ s + 1 \in 0 .. 2 * BufferSize - 1
  BY RoomAssumption DEF Slot
<1>2. CASE s + 1 < BufferSize
  <2>1. (s + 1) % BufferSize = s + 1
    BY <1>1, <1>2, ModFacts
  <2>2. s + n = s + 1 + (n - 1)
    BY RoomAssumption DEF Slot
  <2> QED BY <2>1, <2>2
<1>3. CASE s + 1 = BufferSize
  <2>1. (s + 1) % BufferSize = 0
    BY <1>1, <1>3, ModFacts, RoomAssumption
  <2>2. (s + n) % BufferSize = n - 1 /\ n - 1 \in 0 .. 2 * BufferSize - 1
    BY <1>1, <1>3, ModFacts, RoomAssumption DEF Slot
  <2>3. (n - 1) % BufferSize = n - 1
    BY <2>2, ModFacts, RoomAssumption
  <2>4. 0 + (n - 1) = n - 1
    BY RoomAssumption
  <2> QED BY <2>1, <2>2, <2>3, <2>4
<1> QED BY <1>2, <1>3, RoomAssumption DEF Slot

-----------------------------------------------------------------------------
(* What sending a reply does, and what putting one into the buffer.        *)

LEMMA SendEffect ==
  ASSUME NEW c \in CircularBuffer, reg \in Registers, SendIpcRequest(c)
  PROVE  /\ circ' \in CircularBuffer /\ reg' \in Registers
         /\ reg'.x1 = reg.x1 /\ reg'.x2 = reg.x2 /\ reg'.ppcmsg = reg.ppcmsg
         /\ \/ circ' = c /\ reg' = reg
            \/ /\ c.ready # 0
               /\ circ'.ready = c.ready - 1 /\ circ'.waiting = c.waiting - 1
               /\ circ'.sendAt = (c.sendAt + 1) % BufferSize /\ circ'.putAt = c.putAt
               /\ reg'.y2 <=> reg.y2 \/ c.waiting = BufferSize
<1>1. c.sendAt \in Slot /\ (c.sendAt + 1) % BufferSize \in Slot
  BY NextSlot DEF CircularBuffer
<1>2. c.backing[c.sendAt] \in Request \cup {NULL}
  BY <1>1 DEF CircularBuffer
<1>3. CASE c.relaunch /\ c.ready # 0
  <2>1. circ' = [c EXCEPT !.sendAt = (c.sendAt + 1) % BufferSize, !.ready = c.ready - 1,
                          !.waiting = c.waiting - 1, !.relaunch = FALSE]
    BY <1>3 DEF SendIpcRequest
  <2>2. reg' = [reg EXCEPT !.armmsg = c.backing[c.sendAt], !.y1 = TRUE,
                           !.y2 = reg.y2 \/ c.waiting - 1 = BufferSize - 1]
    BY <1>3 DEF SendIpcRequest
  <2>3. circ' \in CircularBuffer
    <3>1. c.waiting - 1 \in Int /\ c.ready - 1 \in Int /\ FALSE \in BOOLEAN
      BY DEF CircularBuffer
    <3> HIDE <1>3
    <3> QED BY <1>1, <2>1, <3>1 DEF CircularBuffer
  <2>4. reg' \in Registers
    BY <1>2, <2>2 DEF Registers
  <2>5. /\ circ'.ready = c.ready - 1 /\ circ'.waiting = c.waiting - 1
        /\ circ'.sendAt = (c.sendAt + 1) % BufferSize /\ circ'.putAt = c.putAt
    BY <2>1 DEF CircularBuffer
  <2>6. reg'.x1 = reg.x1 /\ reg'.x2 = reg.x2 /\ reg'.ppcmsg = reg.ppcmsg
    BY <2>2 DEF Registers
  <2>7. c.waiting - 1 = BufferSize - 1 <=> c.waiting = BufferSize
    BY RoomAssumption DEF CircularBuffer
  <2>8. reg'.y2 = (reg.y2 \/ c.waiting - 1 = BufferSize - 1)
    BY <2>2 DEF Registers
  <2> QED BY <1>3, <2>3, <2>4, <2>5, <2>6, <2>7, <2>8
<1>4. CASE ~ (c.relaunch /\ c.ready # 0)
  BY <1>4 DEF SendIpcRequest
<1> QED BY <1>3, <1>4

LEMMA FlushEffect ==
  ASSUME NEW c \in CircularBuffer, NEW r \in Request
  PROVE  /\ Flushed(c, r) \in CircularBuffer
         /\ Flushed(c, r).ready = c.ready + 1 /\ Flushed(c, r).waiting = c.waiting
         /\ Flushed(c, r).sendAt = c.sendAt
         /\ Flushed(c, r).putAt = (c.putAt + 1) % BufferSize
<1>1. c.putAt \in Slot /\ (c.putAt + 1) % BufferSize \in Slot
  BY NextSlot DEF CircularBuffer
<1> DEFINE d == [c EXCEPT !.backing[c.putAt] = r]
<1>2. d \in CircularBuffer
  BY <1>1 DEF CircularBuffer
<1>3. /\ d.ready = c.ready /\ d.waiting = c.waiting
      /\ d.sendAt = c.sendAt /\ d.putAt = c.putAt
  BY DEF CircularBuffer
<1>4. Flushed(c, r) = [d EXCEPT !.putAt = (c.putAt + 1) % BufferSize, !.ready = c.ready + 1]
  BY DEF Flushed, CircularBuffer
<1> HIDE DEF d
<1>5. c.ready \in Int /\ c.ready + 1 \in Int
  BY DEF CircularBuffer
<1>6. Flushed(c, r) \in CircularBuffer
  BY <1>1, <1>2, <1>4, <1>5 DEF CircularBuffer
<1>7. /\ Flushed(c, r).ready = c.ready + 1 /\ Flushed(c, r).waiting = c.waiting
      /\ Flushed(c, r).sendAt = c.sendAt
      /\ Flushed(c, r).putAt = (c.putAt + 1) % BufferSize
  BY <1>2, <1>3, <1>4 DEF CircularBuffer
<1> QED BY <1>6, <1>7

LEMMA FlushAndSendEffect ==
  ASSUME TypeOK, NEW r \in Request, FlushAndSendRequest(r)
  PROVE  /\ circ' \in CircularBuffer /\ reg' \in Registers
         /\ reg'.x1 = reg.x1 /\ reg'.x2 = reg.x2 /\ reg'.ppcmsg = reg.ppcmsg
         /\ circ'.putAt = (circ.putAt + 1) % BufferSize
         /\ \/ /\ circ'.ready = circ.ready + 1 /\ circ'.waiting = circ.waiting
               /\ circ'.sendAt = circ.sendAt /\ reg' = reg
            \/ /\ circ.ready + 1 # 0
               /\ circ'.ready = circ.ready /\ circ'.waiting = circ.waiting - 1
               /\ circ'.sendAt = (circ.sendAt + 1) % BufferSize
               /\ reg'.y2 <=> reg.y2 \/ circ.waiting = BufferSize
<1>1. circ \in CircularBuffer /\ reg \in Registers
  BY DEF TypeOK
<1> DEFINE f == Flushed(circ, r)
<1>2. /\ f \in CircularBuffer
      /\ f.ready = circ.ready + 1 /\ f.waiting = circ.waiting
      /\ f.sendAt = circ.sendAt /\ f.putAt = (circ.putAt + 1) % BufferSize
  BY <1>1, FlushEffect
<1>3. SendIpcRequest(f)
  BY DEF FlushAndSendRequest
<1> HIDE DEF f
<1>4. circ.ready \in Int /\ circ.ready + 1 - 1 = circ.ready
  BY <1>1 DEF CircularBuffer
<1> QED BY <1>1, <1>2, <1>3, <1>4, SendEffect

-----------------------------------------------------------------------------
(* The initial state.                                                      *)

LEMMA InitEstablishes == Init => IInv
<1> SUFFICES ASSUME Init PROVE IInv
  OBVIOUS
<1>1. 0 \in Slot
  BY RoomAssumption DEF Slot
<1>2. circ \in CircularBuffer
  BY <1>1 DEF Init, CircularBuffer
<1>3. reg \in Registers /\ ppc \in PowerPC
  BY DEF Init, Registers, PowerPC
<1>4. TypeOK
  <2>1. queue \in Seq(Request \cup {NULL}) /\ masked \in BOOLEAN
    BY EmptySeq DEF Init
  <2>2. pc = "receive" /\ msg = NULL /\ fromPPC = NULL /\ serving \subseteq Request
    BY DEF Init
  <2> QED BY <1>2, <1>3, <2>1, <2>2 DEF TypeOK
<1>5. queue = << >> /\ Len(queue) = 0 /\ DOMAIN queue = {} /\ ~ InterruptQueued
  BY DEF Init, InterruptQueued
<1>6. RequestInHand /\ OneInterrupt
  BY <1>5, RequestAssumption DEF Init, RequestInHand, OneInterrupt, OneNull, Received, InterruptQueued
<1>7. FlowControl
  BY RoomAssumption DEF Init, FlowControl, AckAfterTaking, HeldBackOnlyWhenFull, Coming
<1>8. IndicesAgree
  BY ModFacts, RoomAssumption DEF Init, IndicesAgree
<1>9. Accounted
  BY <1>5, FS_EmptySet DEF Init, Accounted, Replies, InHand
<1> QED BY <1>4, <1>6, <1>7, <1>8, <1>9 DEF IInv

-----------------------------------------------------------------------------
(* Every step keeps the variables' types, and a request in hand.           *)

LEMMA TypeStep == IInv /\ Next => TypeOK' /\ RequestInHand'
<1> SUFFICES ASSUME IInv, Next PROVE TypeOK' /\ RequestInHand'
  OBVIOUS
<1> USE RequestAssumption DEF IInv, TypeOK, RequestInHand
<1>1. ASSUME NEW r \in Request, PpcSend(r) PROVE TypeOK' /\ RequestInHand'
  <2>1. ppc' \in PowerPC
    BY <1>1 DEF PpcSend, PowerPC
  <2>2. reg' \in Registers /\ reg'.ppcmsg = r
    BY <1>1 DEF PpcSend, Registers
  <2> QED BY <1>1, <2>1, <2>2 DEF PpcSend, handlerVars
<1>2. ASSUME NEW r \in Request, ResourceReply(r) PROVE TypeOK' /\ RequestInHand'
  BY <1>2 DEF ResourceReply, Post, handlerVars
<1>3. ASSUME PpcAck PROVE TypeOK' /\ RequestInHand'
  <2>1. ppc' \in PowerPC
    BY <1>3 DEF PpcAck, PowerPC
  <2>2. reg' \in Registers /\ reg'.x1 = reg.x1 /\ reg'.ppcmsg = reg.ppcmsg
    BY <1>3 DEF PpcAck, Registers
  <2> QED BY <1>3, <2>1, <2>2 DEF PpcAck, handlerVars
<1>4. ASSUME PpcReceive PROVE TypeOK' /\ RequestInHand'
  <2>1. ppc' \in PowerPC
    BY <1>4 DEF PpcReceive, PowerPC
  <2>2. reg' \in Registers /\ reg'.x1 = reg.x1 /\ reg'.ppcmsg = reg.ppcmsg
    BY <1>4 DEF PpcReceive, Registers
  <2> QED BY <1>4, <2>1, <2>2 DEF PpcReceive, handlerVars
<1>5. ASSUME Interrupt PROVE TypeOK' /\ RequestInHand'
  BY <1>5 DEF Interrupt, Post, handlerVars
<1>6. ASSUME ReceiveMessage PROVE TypeOK' /\ RequestInHand'
  BY <1>6 DEF ReceiveMessage
<1>7. ASSUME ReadMessageRegister PROVE TypeOK' /\ RequestInHand'
  BY <1>7 DEF ReadMessageRegister, Registers
<1>8. ASSUME ForwardReply PROVE TypeOK' /\ RequestInHand'
  <2>1. msg \in Request /\ FlushAndSendRequest(msg)
    BY <1>8 DEF ForwardReply
  <2>2. /\ circ' \in CircularBuffer /\ reg' \in Registers
        /\ reg'.x1 = reg.x1 /\ reg'.ppcmsg = reg.ppcmsg
    BY <2>1, FlushAndSendEffect
  <2> QED BY <1>8, <2>2 DEF ForwardReply
<1>9. ASSUME ReadFlags PROVE TypeOK' /\ RequestInHand'
  <2>1. circ' \in CircularBuffer
    BY <1>9 DEF ReadFlags, CircularBuffer, Registers
  <2>2. reg' \in Registers /\ reg'.ppcmsg = reg.ppcmsg /\ (reg'.x1 => reg.x1)
    BY <1>9 DEF ReadFlags, Registers
  <2>3. pc' \in {"relaunch", "incoming", "receive"} /\ (pc' = "incoming" => reg.x1 /\ ~ reg.x2)
    BY <1>9 DEF ReadFlags
  <2>4. pc' = "incoming" => fromPPC \in Request
    BY <1>9, <2>3 DEF ReadFlags, OneInterrupt
  <2> QED BY <1>9, <2>1, <2>2, <2>3, <2>4 DEF ReadFlags
<1>10. ASSUME ClearAndEnableIPCInterrupt PROVE TypeOK' /\ RequestInHand'
  BY <1>10 DEF ClearAndEnableIPCInterrupt
<1>11. ASSUME SendNext PROVE TypeOK' /\ RequestInHand'
  <2>1. SendIpcRequest(circ)
    BY <1>11 DEF SendNext
  <2>2. /\ circ' \in CircularBuffer /\ reg' \in Registers
        /\ reg'.x1 = reg.x1 /\ reg'.ppcmsg = reg.ppcmsg
    BY <2>1, SendEffect
  <2> QED BY <1>11, <2>2 DEF SendNext
<1>12. ASSUME CountAndValidate PROVE TypeOK' /\ RequestInHand'
  <2>1. circ' \in CircularBuffer
    BY <1>12 DEF CountAndValidate, CircularBuffer
  <2> QED BY <1>12, <2>1 DEF CountAndValidate
<1>13. ASSUME Dispatch PROVE TypeOK' /\ RequestInHand'
  <2>1. fromPPC \in Request
    BY <1>13 DEF Dispatch
  <2>2. ASSUME FlushAndSendRequest(fromPPC)
        PROVE  /\ circ' \in CircularBuffer /\ reg' \in Registers
               /\ reg'.x1 = reg.x1 /\ reg'.ppcmsg = reg.ppcmsg
    BY <2>1, <2>2, FlushAndSendEffect
  <2>3. queue' \in Seq(Request \cup {NULL})
    BY <1>13, <2>1 DEF Dispatch, Post
  <2>4. serving' \subseteq Request
    BY <1>13, <2>1 DEF Dispatch
  <2>5. /\ circ' \in CircularBuffer /\ reg' \in Registers
        /\ reg'.x1 = reg.x1 /\ reg'.ppcmsg = reg.ppcmsg
    BY <1>13, <2>2 DEF Dispatch
  <2> QED BY <1>13, <2>3, <2>4, <2>5 DEF Dispatch
<1> QED BY <1>1, <1>2, <1>3, <1>4, <1>5, <1>6, <1>7, <1>8, <1>9, <1>10, <1>11, <1>12, <1>13
        DEF Next, PpcDriver, IpcHandler

-----------------------------------------------------------------------------
(* Every step keeps the flow control.                                      *)

LEMMA FlowStep == IInv /\ Next => FlowControl'
<1> SUFFICES ASSUME IInv, Next PROVE FlowControl'
  OBVIOUS
<1> USE RoomAssumption DEF IInv
<1> USE DEF FlowControl, AckAfterTaking, HeldBackOnlyWhenFull, Coming
<1>0. /\ circ \in CircularBuffer /\ reg \in Registers /\ ppc \in PowerPC
      /\ circ.waiting \in Int /\ circ.ready \in Int
  BY DEF TypeOK, CircularBuffer
<1>1. ASSUME NEW r \in Request, PpcSend(r) PROVE FlowControl'
  <2>1. ppc'.unacked /\ reg'.x1 /\ reg'.y2 = reg.y2
    BY <1>0, <1>1 DEF PpcSend, Registers, PowerPC
  <2> QED BY <1>1, <2>1 DEF PpcSend, handlerVars
<1>2. ASSUME NEW r \in Request, ResourceReply(r) PROVE FlowControl'
  BY <1>2 DEF ResourceReply, handlerVars
<1>3. ASSUME PpcAck PROVE FlowControl'
  <2>1. ~ ppc'.unacked /\ ~ reg'.y2 /\ reg'.x1 = reg.x1
    BY <1>0, <1>3 DEF PpcAck, Registers, PowerPC
  <2> QED BY <1>3, <2>1 DEF PpcAck, handlerVars
<1>4. ASSUME PpcReceive PROVE FlowControl'
  <2>1. ppc'.unacked = ppc.unacked /\ reg'.y2 = reg.y2 /\ reg'.x1 = reg.x1
    BY <1>0, <1>4 DEF PpcReceive, Registers, PowerPC
  <2> QED BY <1>4, <2>1 DEF PpcReceive, handlerVars
<1>5. ASSUME Interrupt PROVE FlowControl'
  BY <1>5 DEF Interrupt, handlerVars
<1>6. ASSUME ReceiveMessage PROVE FlowControl'
  BY <1>6 DEF ReceiveMessage
<1>7. ASSUME ReadMessageRegister PROVE FlowControl'
  BY <1>7 DEF ReadMessageRegister
<1>8. ASSUME NEW r \in Request, FlushAndSendRequest(r), ppc' = ppc, pc' = "receive",
             pc \notin {"incoming", "count"}
      PROVE  FlowControl'
  <2>1. /\ circ' \in CircularBuffer /\ reg'.x1 = reg.x1
        /\ \/ circ'.waiting = circ.waiting /\ reg'.y2 = reg.y2
           \/ /\ circ'.waiting = circ.waiting - 1
              /\ reg'.y2 <=> reg.y2 \/ circ.waiting = BufferSize
    BY <1>8, FlushAndSendEffect
  <2> QED BY <1>0, <1>8, <2>1
<1>9. ASSUME ReadFlags PROVE FlowControl'
  <2>1. circ'.waiting = circ.waiting /\ ppc' = ppc /\ Coming = 0
    BY <1>0, <1>9 DEF ReadFlags, CircularBuffer
  <2>2. CASE reg.x2
    <3>1. reg'.x1 = reg.x1 /\ reg'.y2 = reg.y2 /\ pc' = "relaunch"
      BY <1>0, <1>9, <2>2 DEF ReadFlags, Registers
    <3> QED BY <2>1, <3>1
  <2>3. CASE ~ reg.x2
    <3>1. reg.x1
      BY <1>9, <2>3 DEF ReadFlags, OneInterrupt, Received
    <3>2. ~ reg'.x1 /\ pc' = "incoming"
      BY <1>0, <1>9, <2>3, <3>1 DEF ReadFlags, Registers
    <3>3. reg'.y2 <=> circ.waiting < BufferSize - 1
      BY <1>0, <1>9, <2>3, <3>1 DEF ReadFlags, Registers
    <3> QED BY <1>0, <2>1, <3>1, <3>2, <3>3
  <2> QED BY <2>2, <2>3
<1>10. ASSUME ClearAndEnableIPCInterrupt PROVE FlowControl'
  BY <1>10 DEF ClearAndEnableIPCInterrupt
<1>11. ASSUME SendNext PROVE FlowControl'
  <2>1. /\ circ' \in CircularBuffer /\ reg'.x1 = reg.x1
        /\ \/ circ'.waiting = circ.waiting /\ reg'.y2 = reg.y2
           \/ /\ circ'.waiting = circ.waiting - 1
              /\ reg'.y2 <=> reg.y2 \/ circ.waiting = BufferSize
    BY <1>0, <1>11, SendEffect DEF SendNext
  <2> QED BY <1>0, <1>11, <2>1 DEF SendNext
<1>12. ASSUME CountAndValidate PROVE FlowControl'
  <2>1. circ'.waiting = circ.waiting + 1
    BY <1>0, <1>12 DEF CountAndValidate, CircularBuffer
  <2> QED BY <1>0, <1>12, <2>1 DEF CountAndValidate
<1>13. ASSUME Dispatch PROVE FlowControl'
  <2>1. CASE UNCHANGED <<reg, circ>>
    BY <1>13, <2>1 DEF Dispatch
  <2>2. CASE FlushAndSendRequest(fromPPC)
    BY <1>8, <1>13, <2>2 DEF Dispatch, RequestInHand
  <2> QED BY <1>13, <2>1, <2>2 DEF Dispatch
<1>14. ASSUME ForwardReply PROVE FlowControl'
  BY <1>8, <1>14 DEF ForwardReply, TypeOK
<1> QED BY <1>1, <1>2, <1>3, <1>4, <1>5, <1>6, <1>7, <1>9, <1>10, <1>11, <1>12, <1>13, <1>14
        DEF Next, PpcDriver, IpcHandler

-----------------------------------------------------------------------------
(* The handler's queue: what posting and receiving do to the interrupts in *)
(* it, and why there is room.                                              *)

LEMMA PostEffect ==
  ASSUME TypeOK, NEW m \in Request \cup {NULL}, Post(m), Len(queue) < QueueSize
  PROVE  /\ Len(queue') = Len(queue) + 1
         /\ InterruptQueued' <=> InterruptQueued \/ m = NULL
         /\ OneNull /\ (m = NULL => ~ InterruptQueued) => OneNull'
<1>1. queue \in Seq(Request \cup {NULL}) /\ queue' = Append(queue, m)
  BY DEF TypeOK, Post
<1>2. /\ queue' \in Seq(Request \cup {NULL})
      /\ Len(queue) \in Nat /\ Len(queue') = Len(queue) + 1
      /\ DOMAIN queue = 1 .. Len(queue) /\ DOMAIN queue' = 1 .. Len(queue) + 1
      /\ \A i \in 1 .. Len(queue) : queue'[i] = queue[i]
      /\ queue'[Len(queue) + 1] = m
  BY <1>1, AppendProperties, LenProperties
<1>3. InterruptQueued' <=> InterruptQueued \/ m = NULL
  BY <1>2 DEF InterruptQueued
<1>4. ASSUME OneNull, m = NULL => ~ InterruptQueued PROVE OneNull'
  BY <1>2, <1>4 DEF OneNull, InterruptQueued
<1> QED BY <1>2, <1>3, <1>4

LEMMA ReceiveEffect ==
  ASSUME TypeOK, OneNull, ReceiveMessage
  PROVE  /\ Len(queue') = Len(queue) - 1 /\ msg' \in Request \cup {NULL}
         /\ InterruptQueued <=> InterruptQueued' \/ msg' = NULL
         /\ msg' = NULL => ~ InterruptQueued'
         /\ OneNull'
<1>1. /\ queue \in Seq(Request \cup {NULL}) /\ queue # << >>
      /\ queue' = Tail(queue) /\ msg' = Head(queue)
  BY DEF TypeOK, ReceiveMessage
<1>2. /\ queue' \in Seq(Request \cup {NULL}) /\ msg' \in Request \cup {NULL}
      /\ Len(queue) \in Nat \ {0} /\ Len(queue') = Len(queue) - 1
      /\ DOMAIN queue = 1 .. Len(queue) /\ DOMAIN queue' = 1 .. Len(queue) - 1
      /\ \A i \in 1 .. Len(queue) - 1 : queue'[i] = queue[i + 1]
      /\ msg' = queue[1]
  BY <1>1, HeadTailProperties, LenProperties, EmptySeq
<1>3. ASSUME InterruptQueued', msg' = NULL PROVE FALSE
  <2>1. PICK i \in 1 .. Len(queue) - 1 : queue'[i] = NULL
    BY <1>2, <1>3 DEF InterruptQueued
  <2>2. queue[i + 1] = NULL /\ queue[1] = NULL /\ i + 1 \in DOMAIN queue /\ 1 \in DOMAIN queue
    BY <1>2, <1>3, <2>1
  <2> QED BY <1>2, <2>1, <2>2 DEF OneNull
<1>4. ASSUME InterruptQueued PROVE InterruptQueued' \/ msg' = NULL
  <2>1. PICK i \in 1 .. Len(queue) : queue[i] = NULL
    BY <1>2, <1>4 DEF InterruptQueued
  <2>2. CASE i = 1
    BY <1>2, <2>1, <2>2
  <2>3. CASE i # 1
    <3>1. i - 1 \in 1 .. Len(queue) - 1 /\ queue'[i - 1] = NULL
      BY <1>2, <2>1, <2>3
    <3> QED BY <1>2, <3>1 DEF InterruptQueued
  <2> QED BY <2>2, <2>3
<1>5. InterruptQueued' \/ msg' = NULL => InterruptQueued
  <2>1. CASE msg' = NULL
    <3>1. 1 \in DOMAIN queue /\ queue[1] = NULL
      BY <1>2, <2>1
    <3> QED  BY <3>1 DEF InterruptQueued
  <2>2. CASE InterruptQueued'
    <3>1. PICK i \in 1 .. Len(queue) - 1 : queue'[i] = NULL
      BY <1>2, <2>2 DEF InterruptQueued
    <3>2. i + 1 \in DOMAIN queue /\ queue[i + 1] = NULL
      BY <1>2, <3>1
    <3> QED  BY <3>2 DEF InterruptQueued
  <2> QED  BY <2>1, <2>2
<1>6. OneNull'
  <2> SUFFICES ASSUME NEW i \in 1 .. Len(queue) - 1, NEW j \in 1 .. Len(queue) - 1,
                      queue'[i] = NULL, queue'[j] = NULL
               PROVE  i = j
    BY <1>2 DEF OneNull
  <2>1. i + 1 \in DOMAIN queue /\ j + 1 \in DOMAIN queue
    BY <1>2
  <2>2. i + 1 = j + 1
    BY <1>2, <2>1 DEF OneNull
  <2> QED BY <2>2
<1> QED BY <1>2, <1>3, <1>4, <1>5, <1>6

LEMMA CountFacts ==
  ASSUME IInv
  PROVE  /\ circ.waiting \in Int /\ circ.ready \in Int
         /\ Len(queue) \in Nat /\ Replies \in Nat
         /\ IsFiniteSet(serving) /\ Cardinality(serving) \in Nat
         /\ serving # {} => Cardinality(serving) >= 1
         /\ circ.waiting + Coming <= BufferSize
<1>1. circ.waiting \in Int /\ circ.ready \in Int
  BY DEF IInv, TypeOK, CircularBuffer
<1>2. Len(queue) \in Nat /\ DOMAIN queue = 1 .. Len(queue)
  BY LenProperties DEF IInv, TypeOK
<1>3. Replies \in Nat
  BY <1>2 DEF Replies, InterruptQueued
<1>4. IsFiniteSet(serving) /\ Cardinality(serving) \in Nat
  BY FS_Subset, FS_CardinalityType, RequestAssumption DEF IInv, TypeOK
<1>5. serving # {} => Cardinality(serving) >= 1
  BY <1>4, FS_EmptySet
<1>6. circ.waiting + Coming <= BufferSize
  BY <1>1, RoomAssumption DEF IInv, FlowControl, HeldBackOnlyWhenFull, Coming
<1> QED BY <1>1, <1>2, <1>3, <1>4, <1>5, <1>6

LEMMA ThereIsRoom ==
  ASSUME IInv, serving # {} \/ pc = "dispatch" \/ ~ masked
  PROVE  Len(queue) < QueueSize
<1>1. circ.waiting <= BufferSize
  BY CountFacts, RoomAssumption DEF Coming
<1>2. Replies + Cardinality(serving) + InHand <= circ.waiting
  BY CountFacts DEF IInv, Accounted, IndicesAgree, InHand
<1>3. ~ masked => Replies = Len(queue)
  BY CountFacts DEF IInv, OneInterrupt, Replies
<1>4. Len(queue) <= Replies + 1
  BY CountFacts DEF Replies
<1>5. ~ masked => Len(queue) <= BufferSize
  BY <1>1, <1>2, <1>3, CountFacts, RoomAssumption DEF InHand
<1>6. serving # {} => Len(queue) <= BufferSize
  BY <1>1, <1>2, <1>4, CountFacts, RoomAssumption DEF InHand
<1>7. pc = "dispatch" => Len(queue) <= BufferSize
  BY <1>1, <1>2, <1>4, CountFacts, RoomAssumption DEF InHand
<1> QED BY <1>5, <1>6, <1>7, CountFacts, RoomAssumption

-----------------------------------------------------------------------------
(* Every step keeps the reply buffer's account.                            *)

Buffer == IndicesAgree /\ Accounted

LEMMA BufferUnchanged ==
  ASSUME IInv, IndicesAgree, Accounted,
         circ'.ready = circ.ready, circ'.waiting = circ.waiting,
         circ'.sendAt = circ.sendAt, circ'.putAt = circ.putAt,
         serving' = serving, Replies' + InHand' = Replies + InHand,
         Replies' \in Nat, InHand' \in Nat
  PROVE  Buffer'
<1>1. InHand \in Nat
  BY DEF InHand
<1>2. IndicesAgree'
  BY DEF IndicesAgree
<1>3. Accounted'
  <2> HIDE DEF InHand, Replies, IInv
  <2>1. Cardinality(serving') = Cardinality(serving)
    OBVIOUS
  <2>2. Cardinality(serving) \in Nat /\ Replies \in Nat /\ circ.waiting \in Int /\ circ.ready \in Int
    BY CountFacts
  <2>3. circ.ready + Cardinality(serving) + (Replies + InHand) <= circ.waiting
    BY <1>1, <2>2 DEF Accounted
  <2>4. circ'.ready + Cardinality(serving') + (Replies' + InHand') <= circ'.waiting
    BY <2>1, <2>3
  <2> QED BY <2>1, <2>2, <2>4 DEF Accounted
<1> QED BY <1>2, <1>3 DEF Buffer

LEMMA BufferFlush ==
  ASSUME IInv, NEW r \in Request, FlushAndSendRequest(r), InHand = 1, InHand' = 0,
         serving' = serving, queue' = queue
  PROVE  Buffer'
<1>0. TypeOK /\ circ \in CircularBuffer /\ circ' \in CircularBuffer
  BY FlushAndSendEffect DEF IInv, TypeOK
<1>1. Replies' = Replies
  BY DEF Replies, InterruptQueued
<1>2. circ.ready \in 0 .. BufferSize - 1 /\ circ.sendAt \in Slot
  BY <1>0, CountFacts, RoomAssumption
  DEF IInv, Accounted, IndicesAgree, CircularBuffer, Coming
<1>3. circ'.putAt = (circ.sendAt + (circ.ready + 1)) % BufferSize
  BY <1>0, <1>2, PutKeepsIndices, FlushAndSendEffect DEF IInv, IndicesAgree
<1>4. CASE /\ circ'.ready = circ.ready + 1 /\ circ'.waiting = circ.waiting
           /\ circ'.sendAt = circ.sendAt
  <2>1. IndicesAgree'
    BY <1>2, <1>3, <1>4 DEF IndicesAgree
  <2>2. Accounted'
    BY <1>1, <1>4, CountFacts DEF IInv, Accounted
  <2> QED BY <2>1, <2>2 DEF Buffer
<1>5. CASE /\ circ'.ready = circ.ready /\ circ'.waiting = circ.waiting - 1
           /\ circ'.sendAt = (circ.sendAt + 1) % BufferSize
  <2>1. circ.ready + 1 \in 1 .. BufferSize /\ circ.ready + 1 - 1 = circ.ready
    BY <1>2, RoomAssumption
  <2>2. circ'.putAt = (circ'.sendAt + circ'.ready) % BufferSize
    BY <1>2, <1>3, <1>5, <2>1, SendKeepsIndices
  <2>3. IndicesAgree'
    BY <1>2, <1>5, <2>2 DEF IndicesAgree
  <2>4. Accounted'
    BY <1>1, <1>5, CountFacts DEF IInv, Accounted
  <2> QED BY <2>3, <2>4 DEF Buffer
<1> QED BY <1>0, <1>4, <1>5, FlushAndSendEffect

LEMMA BufferStep == IInv /\ Next => Buffer'
<1> SUFFICES ASSUME IInv, Next PROVE Buffer'
  OBVIOUS
<1>0. /\ IndicesAgree /\ Accounted /\ TypeOK /\ OneInterrupt
      /\ circ \in CircularBuffer
  BY DEF IInv, TypeOK
<1>1. ASSUME UNCHANGED <<circ, queue, serving, pc, msg>> PROVE Buffer'
  <2>1. Replies' = Replies /\ InHand' = InHand /\ InHand \in Nat
    BY <1>1 DEF Replies, InHand, InterruptQueued
  <2> QED BY <1>0, <1>1, <2>1, BufferUnchanged, CountFacts
<1>2. ASSUME NEW r \in Request, ResourceReply(r) PROVE Buffer'
  <2>1. Post(r) /\ r # NULL /\ r \in serving /\ serving' = serving \ {r}
    BY <1>2, RequestAssumption DEF ResourceReply
  <2>2. Len(queue') = Len(queue) + 1 /\ (InterruptQueued' <=> InterruptQueued)
    BY <1>0, <2>1, ThereIsRoom, PostEffect DEF IInv
  <2>3. Replies' = Replies + 1
    BY <2>2, CountFacts DEF Replies
  <2>4. Cardinality(serving') = Cardinality(serving) - 1
    BY <2>1, FS_RemoveElement, CountFacts
  <2>5. InHand' = InHand /\ InHand \in Nat /\ circ' = circ
    BY <1>2 DEF ResourceReply, handlerVars, InHand
  <2> QED BY <1>0, <2>3, <2>4, <2>5, CountFacts DEF Buffer, IndicesAgree, Accounted
<1>3. ASSUME Interrupt PROVE Buffer'
  <2>1. Post(NULL) /\ ~ masked /\ ~ InterruptQueued /\ UNCHANGED <<circ, serving, pc, msg>>
    BY <1>0, <1>3 DEF Interrupt, handlerVars, OneInterrupt
  <2>2. Len(queue') = Len(queue) + 1 /\ InterruptQueued'
    BY <1>0, <2>1, ThereIsRoom, PostEffect
  <2>3. Replies' = Replies /\ InHand' = InHand /\ InHand \in Nat
    BY <2>1, <2>2, CountFacts DEF Replies, InHand
  <2> QED BY <1>0, <2>1, <2>3, BufferUnchanged, CountFacts
<1>4. ASSUME ReceiveMessage PROVE Buffer'
  <2>1. /\ Len(queue') = Len(queue) - 1
        /\ InterruptQueued <=> InterruptQueued' \/ msg' = NULL
        /\ msg' = NULL => ~ InterruptQueued'
    BY <1>0, <1>4, ReceiveEffect DEF OneInterrupt
  <2>2. pc = "receive" /\ pc' = "read" /\ UNCHANGED <<circ, serving>>
    BY <1>4 DEF ReceiveMessage
  <2>3. InHand = 0 /\ InHand' = IF msg' = NULL THEN 0 ELSE 1
    BY <2>2 DEF InHand
  <2>4. /\ Len(queue) \in Nat /\ Len(queue') \in Nat
        /\ InterruptQueued' => Len(queue') > 0
    <3>1. queue' \in Seq(Request \cup {NULL})
      BY <1>0, <1>4, HeadTailProperties DEF ReceiveMessage, TypeOK
    <3>2. Len(queue') \in Nat /\ DOMAIN queue' = 1 .. Len(queue')
      BY <3>1, LenProperties
    <3> QED BY <3>2, CountFacts DEF InterruptQueued
  <2>5. Replies' \in Nat /\ Replies' + InHand' = Replies + InHand /\ InHand' \in Nat
    <3>1. CASE msg' = NULL
      <4>1. Replies = Len(queue) - 1 /\ Replies' = Len(queue')
        BY <2>1, <3>1 DEF Replies
      <4> QED BY <2>1, <2>3, <2>4, <3>1, <4>1
    <3>2. CASE msg' # NULL /\ InterruptQueued
      <4>1. Replies = Len(queue) - 1 /\ Replies' = Len(queue') - 1
        BY <2>1, <3>2 DEF Replies
      <4> QED BY <2>1, <2>3, <2>4, <3>2, <4>1
    <3>3. CASE msg' # NULL /\ ~ InterruptQueued
      <4>1. Replies = Len(queue) - 0 /\ Replies' = Len(queue') - 0
        BY <2>1, <3>3 DEF Replies
      <4> QED BY <2>1, <2>3, <2>4, <3>3, <4>1
    <3> QED BY <3>1, <3>2, <3>3
  <2> QED BY <1>0, <2>2, <2>5, BufferUnchanged
<1>5. ASSUME ReadMessageRegister PROVE Buffer'
  <2>1. Replies' = Replies /\ InHand' = InHand /\ InHand \in Nat
    BY <1>5 DEF ReadMessageRegister, Replies, InHand, InterruptQueued
  <2> QED BY <1>0, <1>5, <2>1, BufferUnchanged, CountFacts DEF ReadMessageRegister
<1>6. ASSUME ForwardReply PROVE Buffer'
  <2>1. InHand = 1 /\ InHand' = 0 /\ msg \in Request
    BY <1>0, <1>6 DEF ForwardReply, InHand, TypeOK
  <2> QED BY <1>6, <2>1, BufferFlush DEF ForwardReply
<1>7. ASSUME ReadFlags PROVE Buffer'
  <2>1. Replies' = Replies /\ InHand' = InHand /\ InHand \in Nat
    BY <1>7 DEF ReadFlags, Replies, InHand, InterruptQueued
  <2>2. /\ circ'.ready = circ.ready /\ circ'.waiting = circ.waiting
        /\ circ'.sendAt = circ.sendAt /\ circ'.putAt = circ.putAt
    BY <1>0, <1>7 DEF ReadFlags, CircularBuffer
  <2> QED BY <1>0, <1>7, <2>1, <2>2, BufferUnchanged, CountFacts DEF ReadFlags
<1>8. ASSUME ClearAndEnableIPCInterrupt PROVE Buffer'
  <2>1. Replies' = Replies /\ InHand' = InHand /\ InHand \in Nat
    BY <1>8 DEF ClearAndEnableIPCInterrupt, Replies, InHand, InterruptQueued
  <2> QED BY <1>0, <1>8, <2>1, BufferUnchanged, CountFacts DEF ClearAndEnableIPCInterrupt
<1>9. ASSUME SendNext PROVE Buffer'
  <2>1. SendIpcRequest(circ) /\ UNCHANGED <<queue, serving>>
    BY <1>9 DEF SendNext
  <2>2. Replies' = Replies /\ InHand' = 0 /\ InHand = 0
    BY <1>9 DEF SendNext, Replies, InHand, InterruptQueued
  <2>3. CASE circ' = circ
    BY <1>0, <2>1, <2>2, <2>3, BufferUnchanged, CountFacts
  <2>4. CASE /\ circ.ready # 0
             /\ circ'.ready = circ.ready - 1 /\ circ'.waiting = circ.waiting - 1
             /\ circ'.sendAt = (circ.sendAt + 1) % BufferSize /\ circ'.putAt = circ.putAt
    <3>1. circ.ready \in 1 .. BufferSize /\ circ.sendAt \in Slot
      BY <1>0, <2>4, CountFacts, RoomAssumption
      DEF Accounted, IndicesAgree, CircularBuffer, Coming, InHand
    <3>2. circ'.putAt = (circ'.sendAt + circ'.ready) % BufferSize
      BY <1>0, <2>4, <3>1, SendKeepsIndices DEF IndicesAgree
    <3>3. IndicesAgree'
      BY <2>4, <3>1, <3>2 DEF IndicesAgree
    <3>4. Accounted'
      BY <1>0, <2>1, <2>2, <2>4, CountFacts DEF Accounted
    <3> QED BY <3>3, <3>4 DEF Buffer
  <2> QED BY <1>0, <2>1, <2>3, <2>4, SendEffect DEF TypeOK
<1>10. ASSUME CountAndValidate PROVE Buffer'
  <2>1. /\ circ'.waiting = circ.waiting + 1 /\ circ'.ready = circ.ready
        /\ circ'.sendAt = circ.sendAt /\ circ'.putAt = circ.putAt
    BY <1>0, <1>10 DEF CountAndValidate, CircularBuffer
  <2>2. Replies' = Replies /\ InHand' <= 1 /\ InHand' \in Nat /\ InHand = 0 /\ serving' = serving
    BY <1>10 DEF CountAndValidate, Replies, InHand, InterruptQueued
  <2> QED BY <1>0, <2>1, <2>2, CountFacts DEF Buffer, IndicesAgree, Accounted
<1>11. ASSUME Dispatch PROVE Buffer'
  <2>1. InHand = 1 /\ InHand' = 0 /\ fromPPC \in Request /\ fromPPC # NULL
    BY <1>11, RequestAssumption DEF Dispatch, InHand, IInv, RequestInHand
  <2>2. CASE FlushAndSendRequest(fromPPC) /\ UNCHANGED <<queue, serving>>
    BY <2>1, <2>2, BufferFlush
  <2>3. CASE serving' = serving \cup {fromPPC} /\ UNCHANGED <<queue, circ>>
    <3>1. /\ Cardinality(serving') <= Cardinality(serving) + 1
          /\ Cardinality(serving') \in Nat
      <4>1. /\ Cardinality(serving \cup {fromPPC}) <= Cardinality(serving) + 1
            /\ Cardinality(serving \cup {fromPPC}) \in Nat
        <5>1. \/ Cardinality(serving \cup {fromPPC}) = Cardinality(serving)
              \/ Cardinality(serving \cup {fromPPC}) = Cardinality(serving) + 1
          <6> HIDE DEF IInv
          <6> QED BY FS_AddElement, CountFacts
        <5> QED BY <5>1, CountFacts
      <4> QED BY <2>3, <4>1
    <3>2. Replies' = Replies
      BY <2>3 DEF Replies, InterruptQueued
    <3> QED BY <1>0, <2>1, <2>3, <3>1, <3>2, CountFacts DEF Buffer, IndicesAgree, Accounted
  <2>4. CASE /\ Len(queue) < QueueSize /\ Post(fromPPC) /\ UNCHANGED <<circ, serving>>
    <3>1. Len(queue') = Len(queue) + 1 /\ (InterruptQueued' <=> InterruptQueued)
      BY <1>0, <2>1, <2>4, PostEffect
    <3>2. Replies' = Replies + 1
      BY <3>1, CountFacts DEF Replies
    <3> QED BY <1>0, <2>1, <2>4, <3>2, CountFacts DEF Buffer, IndicesAgree, Accounted
  <2> QED BY <1>11, <2>2, <2>3, <2>4 DEF Dispatch
<1>12. ASSUME NEW r \in Request, PpcSend(r) PROVE Buffer'
  BY <1>1, <1>12 DEF PpcSend, handlerVars
<1>13. ASSUME PpcDriver PROVE Buffer'
  BY <1>1, <1>13 DEF PpcDriver, PpcAck, PpcReceive, handlerVars
<1> QED BY <1>2, <1>3, <1>4, <1>5, <1>6, <1>7, <1>8, <1>9, <1>10, <1>11, <1>12, <1>13
        DEF Next, IpcHandler

-----------------------------------------------------------------------------
(* Every step keeps the interrupt a token.                                 *)

LEMMA InterruptKept ==
  ASSUME OneInterrupt, masked' = masked, queue' = queue, pc' = pc, msg' = msg,
         fromPPC' = fromPPC, reg'.ppcmsg = reg.ppcmsg,
         reg.x1 => reg'.x1, reg.x2 => reg'.x2
  PROVE  OneInterrupt'
BY DEF OneInterrupt, OneNull, InterruptQueued, Received

LEMMA InterruptStep == IInv /\ Next => OneInterrupt'
<1> SUFFICES ASSUME IInv, Next PROVE OneInterrupt'
  OBVIOUS
<1>0. TypeOK /\ OneInterrupt /\ reg \in Registers
  BY DEF IInv, TypeOK
<1> USE DEF Received
<1>1. ASSUME NEW r \in Request, PpcSend(r) PROVE OneInterrupt'
  <2>1. ~ reg.x1 /\ reg'.x1 /\ reg'.x2 = reg.x2
    BY <1>0, <1>1 DEF PpcSend, Registers, IInv, FlowControl, AckAfterTaking
  <2> QED BY <1>0, <1>1, <2>1 DEF PpcSend, handlerVars, OneInterrupt, OneNull, InterruptQueued
<1>2. ASSUME NEW r \in Request, ResourceReply(r) PROVE OneInterrupt'
  <2>1. /\ Post(r) /\ r # NULL /\ r \in serving
        /\ UNCHANGED <<reg, masked, pc, msg, fromPPC>>
    BY <1>2, RequestAssumption DEF ResourceReply, handlerVars
  <2>2. OneNull' /\ (InterruptQueued' <=> InterruptQueued)
    BY <1>0, <2>1, ThereIsRoom, PostEffect DEF OneInterrupt
  <2> QED BY <1>0, <2>1, <2>2 DEF OneInterrupt
<1>3. ASSUME PpcDriver PROVE OneInterrupt'
  <2>1. /\ UNCHANGED <<masked, queue, pc, msg, fromPPC>>
        /\ reg'.ppcmsg = reg.ppcmsg /\ reg'.x1 = reg.x1 /\ (reg.x2 => reg'.x2)
    BY <1>0, <1>3 DEF PpcDriver, PpcAck, PpcReceive, handlerVars, Registers
  <2> QED BY <1>0, <2>1, InterruptKept
<1>4. ASSUME Interrupt PROVE OneInterrupt'
  <2>1. /\ Post(NULL) /\ ~ masked /\ masked' /\ (reg.x1 \/ reg.x2)
        /\ UNCHANGED <<reg, pc, msg, fromPPC>>
    BY <1>4 DEF Interrupt, handlerVars
  <2>2. ~ InterruptQueued /\ NULL \notin Received /\ pc \notin {"relaunch", "incoming"}
    BY <1>0, <2>1 DEF OneInterrupt
  <2>3. OneNull' /\ InterruptQueued'
    BY <1>0, <2>1, <2>2, ThereIsRoom, PostEffect DEF OneInterrupt
  <2> QED BY <1>0, <2>1, <2>2, <2>3 DEF OneInterrupt
<1>5. ASSUME ReceiveMessage PROVE OneInterrupt'
  <2>1. /\ InterruptQueued <=> InterruptQueued' \/ msg' = NULL
        /\ msg' = NULL => ~ InterruptQueued'
        /\ OneNull'
    BY <1>0, <1>5, ReceiveEffect DEF OneInterrupt
  <2>2. /\ pc = "receive" /\ pc' = "read" /\ UNCHANGED <<reg, masked, fromPPC>>
    BY <1>5 DEF ReceiveMessage
  <2> QED BY <1>0, <2>1, <2>2 DEF OneInterrupt
<1>6. ASSUME ReadMessageRegister PROVE OneInterrupt'
  <2>1. /\ pc = "read" /\ pc' = "branch" /\ fromPPC' = reg.ppcmsg
        /\ UNCHANGED <<reg, masked, queue, msg>>
    BY <1>6 DEF ReadMessageRegister
  <2>2. OneNull' /\ (InterruptQueued' <=> InterruptQueued) /\ Received' = Received
    BY <1>0, <2>1 DEF OneInterrupt, OneNull, InterruptQueued
  <2> QED BY <1>0, <2>1, <2>2 DEF OneInterrupt
<1>7. ASSUME UNCHANGED <<masked, queue, msg>>, reg'.x1 = reg.x1, reg'.x2 = reg.x2,
             NULL \notin Received, pc \notin {"relaunch", "incoming"},
             NULL \notin Received', pc' \notin {"relaunch", "incoming"}
      PROVE OneInterrupt'
  <2>1. OneNull' /\ (InterruptQueued' <=> InterruptQueued)
    BY <1>0, <1>7 DEF OneInterrupt, OneNull, InterruptQueued
  <2>2. ~ (pc' = "branch" /\ msg' = NULL)
    BY <1>7
  <2> QED BY <1>0, <1>7, <2>1, <2>2 DEF OneInterrupt
<1>8. ASSUME ForwardReply PROVE OneInterrupt'
  <2>1. msg \in Request /\ FlushAndSendRequest(msg) /\ msg # NULL
    BY <1>0, <1>8 DEF ForwardReply, TypeOK
  <2>2. reg'.x1 = reg.x1 /\ reg'.x2 = reg.x2
    BY <1>0, <2>1, FlushAndSendEffect
  <2> QED BY <1>7, <1>8, <2>1, <2>2 DEF ForwardReply
<1>9. ASSUME ReadFlags PROVE OneInterrupt'
  <2>1. /\ pc = "branch" /\ msg = NULL /\ (reg.x1 \/ reg.x2)
        /\ UNCHANGED <<masked, queue, msg, fromPPC>>
    BY <1>0, <1>9 DEF ReadFlags, OneInterrupt
  <2>2. pc' \in {"relaunch", "incoming"}
    BY <1>9, <2>1 DEF ReadFlags
  <2>3. masked /\ ~ InterruptQueued
    BY <1>0, <2>1 DEF OneInterrupt
  <2>4. OneNull' /\ ~ InterruptQueued'
    BY <1>0, <2>1, <2>3 DEF OneInterrupt, OneNull, InterruptQueued
  <2> QED BY <2>1, <2>2, <2>3, <2>4 DEF OneInterrupt
<1>10. ASSUME ClearAndEnableIPCInterrupt PROVE OneInterrupt'
  <2>1. /\ pc \in {"relaunch", "incoming"} /\ ~ masked' /\ pc' \in {"send", "count"}
        /\ UNCHANGED <<reg, queue, msg, fromPPC>>
    BY <1>10 DEF ClearAndEnableIPCInterrupt
  <2>2. OneNull' /\ ~ InterruptQueued'
    BY <1>0, <2>1 DEF OneInterrupt, OneNull, InterruptQueued
  <2> QED BY <2>1, <2>2 DEF OneInterrupt
<1>11. ASSUME SendNext PROVE OneInterrupt'
  <2>1. reg'.x1 = reg.x1 /\ reg'.x2 = reg.x2
    BY <1>0, <1>11, SendEffect DEF SendNext, TypeOK
  <2> QED BY <1>7, <1>11, <2>1 DEF SendNext
<1>12. ASSUME CountAndValidate PROVE OneInterrupt'
  BY <1>7, <1>12 DEF CountAndValidate
<1>13. ASSUME Dispatch PROVE OneInterrupt'
  <2>1. /\ pc = "dispatch" /\ pc' = "receive" /\ UNCHANGED <<masked, msg, fromPPC>>
        /\ fromPPC \in Request /\ fromPPC # NULL
    BY <1>13, RequestAssumption DEF Dispatch, IInv, RequestInHand
  <2>2. CASE FlushAndSendRequest(fromPPC) /\ UNCHANGED queue
    <3>1. reg'.x1 = reg.x1 /\ reg'.x2 = reg.x2
      BY <1>0, <2>1, <2>2, FlushAndSendEffect
    <3> QED BY <1>7, <2>1, <2>2, <3>1
  <2>3. CASE UNCHANGED <<reg, queue>>
    BY <1>7, <2>1, <2>3
  <2>4. CASE Len(queue) < QueueSize /\ Post(fromPPC) /\ UNCHANGED reg
    <3>1. OneNull' /\ (InterruptQueued' <=> InterruptQueued)
      BY <1>0, <2>1, <2>4, PostEffect DEF OneInterrupt
    <3> QED BY <1>0, <2>1, <2>4, <3>1 DEF OneInterrupt
  <2> QED BY <1>13, <2>2, <2>3, <2>4 DEF Dispatch
<1> QED BY <1>1, <1>2, <1>3, <1>4, <1>5, <1>6, <1>8, <1>9, <1>10, <1>11, <1>12, <1>13
        DEF Next, IpcHandler

-----------------------------------------------------------------------------
(* The invariant.                                                          *)

LEMMA Stutter == IInv /\ UNCHANGED vars => IInv'
<1> SUFFICES ASSUME IInv, UNCHANGED vars PROVE IInv'
  OBVIOUS
<1> USE DEF vars, handlerVars, IInv
<1>1. TypeOK' /\ RequestInHand'
  BY DEF TypeOK, RequestInHand
<1>2. FlowControl'
  BY DEF FlowControl, AckAfterTaking, HeldBackOnlyWhenFull, Coming
<1>3. IndicesAgree' /\ Accounted'
  BY DEF IndicesAgree, Accounted, Replies, InterruptQueued, InHand
<1>4. OneInterrupt'
  BY DEF OneInterrupt, OneNull, InterruptQueued, Received
<1> QED BY <1>1, <1>2, <1>3, <1>4

THEOREM InvariantHolds == Spec => []IInv
<1>1. IInv /\ [Next]_vars => IInv'
  BY Stutter, TypeStep, FlowStep, BufferStep, InterruptStep DEF IInv, Buffer
<1> QED BY <1>1, InitEstablishes, PTL DEF Spec

(* Every variable keeps its type, the places of the buffer included.       *)
THEOREM TypeCorrect == Spec => []TypeOK
<1>1. IInv => TypeOK
  BY DEF IInv
<1> QED BY <1>1, InvariantHolds, PTL

(* The buffer of replies and the queue of the handler are never overrun,   *)
(* although ipc.c does not check: no reply and no interrupt is lost.       *)
THEOREM NeverOverrun == Spec => []NothingOverrun
<1>1. IInv => BufferNeverOverrun
  <2> SUFFICES ASSUME IInv PROVE BufferNeverOverrun
    OBVIOUS
  <2>1. circ.waiting <= BufferSize
    BY CountFacts, RoomAssumption DEF Coming
  <2>2. circ.ready <= circ.waiting
    BY CountFacts DEF IInv, Accounted, InHand
  <2> QED BY <2>1, <2>2 DEF IInv, IndicesAgree, BufferNeverOverrun
<1>2. IInv => RoomToPost
  BY ThereIsRoom DEF RoomToPost
<1>3. IInv => NothingOverrun
  BY <1>1, <1>2 DEF NothingOverrun
<1> QED BY <1>3, InvariantHolds, PTL

(* A disabled interrupt is always about to be enabled.                     *)
THEOREM HandlerHears == Spec => []NeverDeaf
<1>1. IInv => NeverDeaf
  BY DEF IInv, OneInterrupt, InterruptQueued, NeverDeaf
<1> QED BY <1>1, InvariantHolds, PTL

(* The handler never takes a stale request from the message register.      *)
THEOREM FreshRequests == Spec => []RequestIsFresh
<1>1. IInv => RequestIsFresh
  BY DEF IInv, OneInterrupt, Received, RequestIsFresh
<1> QED BY <1>1, InvariantHolds, PTL

(* Flow control never lets a request be overwritten, and withholds the     *)
(* acknowledgement for no other reason than a full buffer.                 *)
THEOREM FlowControlled == Spec => []AcksInTime
<1>1. IInv => AcksInTime
  BY DEF IInv, FlowControl, AcksInTime
<1> QED BY <1>1, InvariantHolds, PTL

-----------------------------------------------------------------------------
(* Where a request is: in the message register, in the handler's hands,    *)
(* with a resource manager, in the handler's queue, in its buffer of       *)
(* replies or in the reply register.                                       *)
Places(s, n) == {i \in Slot : (i - s) % BufferSize < n}
Holds(c, r) == \E i \in Places(c.sendAt, c.ready) : c.backing[i] = r
EachOnce(c) ==
  \A i, j \in Places(c.sendAt, c.ready) : c.backing[i] = c.backing[j] => i = j

At(r, place) ==
  \/ place = "register" /\ reg.x1 /\ reg.ppcmsg = r
  \/ place = "taken" /\ r \in Taken
  \/ place = "serving" /\ r \in serving
  \/ place = "queue" /\ \E i \in DOMAIN queue : queue[i] = r
  \/ place = "received" /\ r \in Received
  \/ place = "buffer" /\ Holds(circ, r)
  \/ place = "reply" /\ reg.y1 /\ reg.armmsg = r
Place == {"register", "taken", "serving", "queue", "received", "buffer", "reply"}

(* A request is in one place while the PowerPC waits for it, unless its    *)
(* address was invalid.                                                    *)
OnTheWay(r) ==
  /\ \A p, q \in Place : At(r, p) /\ At(r, q) => p = q
  /\ \A p \in Place : At(r, p) => r \in ppc.sent
  /\ r \in ppc.sent /\ r \notin Invalid => \E p \in Place : At(r, p)

(* The PowerPC's wish for a reply is a token: not yet uttered, in its      *)
(* flag, known to the handler, or fulfilled by the reply it has not taken. *)
OneWish ==
  /\ ~ ppc.up => ~ reg.x2 /\ ~ circ.relaunch /\ ~ reg.y1
  /\ reg.x2 => ~ circ.relaunch /\ ~ reg.y1
  /\ circ.relaunch => ~ reg.y1

Copied ==
  /\ \A i, j \in DOMAIN queue : queue[i] = queue[j] => i = j
  /\ EachOnce(circ)
  /\ OneWish
  /\ \A r \in Request : OnTheWay(r)

-----------------------------------------------------------------------------
(* The places of the buffer that hold a reply, as one is put and sent.     *)
LEMMA Distance ==
  ASSUME NEW i \in Slot, NEW s \in Slot
  PROVE  (i - s) % BufferSize = IF i >= s THEN i - s ELSE i - s + BufferSize
<1>1. CASE i >= s
  <2>1. i - s \in 0 .. 2 * BufferSize - 1 /\ i - s < BufferSize
    BY <1>1, RoomAssumption DEF Slot
  <2> QED  BY <1>1, <2>1, ModFacts
<1>2. CASE i < s
  <2> DEFINE k == s - i
  <2>1. k \in 1 .. BufferSize - 1 /\ i - s = -k /\ i - s + BufferSize = BufferSize - k
    BY <1>2, RoomAssumption DEF Slot
  <2> HIDE DEF k
  <2>2. (-k) % BufferSize = BufferSize - k
    BY <2>1, RoomAssumption
  <2> QED  BY <1>2, <2>1, <2>2, RoomAssumption DEF Slot
<1> QED  BY <1>1, <1>2, RoomAssumption DEF Slot

LEMMA PutPlaces ==
  ASSUME NEW s \in Slot, NEW n \in 0 .. BufferSize - 1
  PROVE  LET p == (s + n) % BufferSize
         IN  p \in Slot /\ p \notin Places(s, n) /\ Places(s, n + 1) = Places(s, n) \cup {p}
<1> DEFINE p == (s + n) % BufferSize
<1>1. s \in Int /\ n \in Int /\ 0 <= n /\ n < BufferSize /\ 0 <= s /\ s < BufferSize /\ BufferSize \in Nat
  BY RoomAssumption DEF Slot
<1>2. p \in Slot /\ p = IF s + n < BufferSize THEN s + n ELSE s + n - BufferSize
  <2>1. s + n \in 0 .. 2 * BufferSize - 1
    BY <1>1
  <2> QED  BY <1>1, <2>1, ModFacts
<1>3. ASSUME NEW i \in Slot PROVE (i - s) % BufferSize = n <=> i = p
  <2> HIDE DEF p
  <2> QED  BY <1>1, <1>2, Distance DEF Slot
<1>4. ASSUME NEW i \in Slot PROVE (i - s) % BufferSize \in Int
  BY <1>1, Distance DEF Slot
<1> HIDE DEF p
<1>5. \A i \in Slot : i \in Places(s, n + 1) <=> i \in Places(s, n) \/ i = p
  BY <1>1, <1>3, <1>4 DEF Places
<1>6. p \notin Places(s, n)
  BY <1>1, <1>2, <1>3 DEF Places
<1> QED  BY <1>2, <1>5, <1>6 DEF Places, p

LEMMA SendPlaces ==
  ASSUME NEW s \in Slot, NEW n \in 1 .. BufferSize
  PROVE  LET t == (s + 1) % BufferSize
         IN  s \in Places(s, n) /\ s \notin Places(t, n - 1) /\ Places(s, n) = Places(t, n - 1) \cup {s}
<1> DEFINE t == (s + 1) % BufferSize
<1>1. s \in Int /\ n \in Int /\ 1 <= n /\ n <= BufferSize /\ 0 <= s /\ s < BufferSize /\ BufferSize \in Nat
  BY RoomAssumption DEF Slot
<1>2. t \in Slot /\ t = IF s + 1 < BufferSize THEN s + 1 ELSE 0
  <2>1. s + 1 \in 0 .. 2 * BufferSize - 1
    BY <1>1
  <2> QED  BY <1>1, <2>1, ModFacts
<1> HIDE DEF t
<1>3. ASSUME NEW i \in Slot
      PROVE  /\ (i - s) % BufferSize < n <=> i = s \/ (i - t) % BufferSize < n - 1
             /\ i = s => ~ ((i - t) % BufferSize < n - 1)
  <2>1. /\ (i - s) % BufferSize = IF i >= s THEN i - s ELSE i - s + BufferSize
        /\ (i - t) % BufferSize = IF i >= t THEN i - t ELSE i - t + BufferSize
    BY <1>2, Distance
  <2>2. i \in Int /\ 0 <= i /\ i < BufferSize
    BY <1>1 DEF Slot
  <2> QED  BY <1>1, <1>2, <2>1, <2>2
<1> QED  BY <1>3 DEF Places, t

(* What putting a reply into the buffer, and sending the first one, does   *)
(* to what the buffer holds.                                               *)
LEMMA FlushHolds ==
  ASSUME NEW c \in CircularBuffer, NEW r \in Request, c.ready \in 0 .. BufferSize - 1,
         c.putAt = (c.sendAt + c.ready) % BufferSize, EachOnce(c), ~ Holds(c, r)
  PROVE  /\ EachOnce(Flushed(c, r))
         /\ \A q : Holds(Flushed(c, r), q) <=> Holds(c, q) \/ q = r
<1> DEFINE d == Flushed(c, r)
<1>1. /\ d.sendAt = c.sendAt /\ d.ready = c.ready + 1
      /\ d.backing[c.putAt] = r /\ \A i \in Slot \ {c.putAt} : d.backing[i] = c.backing[i]
  <2>1. d.sendAt = c.sendAt /\ d.ready = c.ready + 1
    BY FlushEffect
  <2>2. d.backing = [c.backing EXCEPT ![c.putAt] = r]
    BY DEF Flushed, CircularBuffer
  <2>3. c.putAt \in Slot /\ c.backing \in [Slot -> Request \cup {NULL}]
    BY DEF CircularBuffer
  <2> HIDE DEF d
  <2> QED  BY <2>1, <2>2, <2>3
<1>2. /\ c.putAt \in Slot /\ c.putAt \notin Places(c.sendAt, c.ready)
      /\ Places(c.sendAt, c.ready + 1) = Places(c.sendAt, c.ready) \cup {c.putAt}
  BY PutPlaces DEF CircularBuffer
<1>3. Places(c.sendAt, c.ready) \subseteq Slot
  BY DEF Places
<1> HIDE DEF d
<1>4. EachOnce(d)
  BY <1>1, <1>2, <1>3 DEF EachOnce, Holds
<1>5. \A q : Holds(d, q) <=> Holds(c, q) \/ q = r
  BY <1>1, <1>2, <1>3 DEF Holds
<1> QED  BY <1>4, <1>5 DEF d

(* The reply x goes to its register.                                       *)
RepliesWith(c, x) ==
  /\ c.relaunch /\ ~ circ'.relaunch /\ reg'.y1 /\ reg'.armmsg = x
  /\ Holds(c, x) /\ \A q : Holds(circ', q) <=> Holds(c, q) /\ q # x

LEMMA SendHolds ==
  ASSUME NEW c \in CircularBuffer, reg \in Registers, c.ready \in 0 .. BufferSize, EachOnce(c),
         SendIpcRequest(c)
  PROVE  EachOnce(circ') /\ ((circ' = c /\ reg' = reg) \/ \E x : RepliesWith(c, x))
<1>1. CASE c.relaunch /\ c.ready # 0
  <2> DEFINE x == c.backing[c.sendAt]
  <2>0. c.sendAt \in Slot /\ c.ready \in 1 .. BufferSize
    BY <1>1, RoomAssumption DEF CircularBuffer
  <2>1. /\ circ'.sendAt = (c.sendAt + 1) % BufferSize /\ circ'.ready = c.ready - 1
        /\ circ'.backing = c.backing /\ ~ circ'.relaunch
    BY <1>1 DEF SendIpcRequest, CircularBuffer
  <2>2. reg'.armmsg = x /\ reg'.y1
    BY <1>1 DEF SendIpcRequest, Registers
  <2>3. /\ c.sendAt \in Places(c.sendAt, c.ready)
        /\ c.sendAt \notin Places(circ'.sendAt, circ'.ready)
        /\ Places(c.sendAt, c.ready) = Places(circ'.sendAt, circ'.ready) \cup {c.sendAt}
    BY <2>0, <2>1, SendPlaces
  <2>4. EachOnce(circ')
    BY <2>1, <2>3 DEF EachOnce
  <2>5. Holds(c, x) /\ \A q : Holds(circ', q) <=> Holds(c, q) /\ q # x
    <3>1. \A i \in Places(circ'.sendAt, circ'.ready) : c.backing[i] # x
      BY <2>3 DEF EachOnce
    <3> QED  BY <2>1, <2>3, <3>1 DEF Holds
  <2> HIDE DEF x
  <2>6. RepliesWith(c, x)
    BY <1>1, <2>1, <2>2, <2>5 DEF RepliesWith
  <2> QED  BY <2>4, <2>6
<1>2. CASE ~ (c.relaunch /\ c.ready # 0)
  BY <1>2 DEF SendIpcRequest
<1> QED  BY <1>1, <1>2

-----------------------------------------------------------------------------
(* What a step does to a request: nothing, it puts it in one place, or it  *)
(* is over with it.                                                        *)
Stays(r) == (r \in ppc'.sent <=> r \in ppc.sent) /\ \A p \in Place : At(r, p)' <=> At(r, p)
Arrives(r) == r \in ppc'.sent /\ \E b \in Place : \A p \in Place : At(r, p)' <=> p = b
IsGone(r) == (r \in ppc'.sent => r \in Invalid) /\ \A p \in Place : ~ At(r, p)'
Travels(r) == Stays(r) \/ Arrives(r) \/ IsGone(r)

LEMMA TravelKeeps ==
  ASSUME NEW r \in Request, OnTheWay(r), Travels(r)
  PROVE  OnTheWay(r)'
<1> HIDE DEF At
<1>1. Invalid' = Invalid
  BY DEF Invalid, ValidateAddress
<1> HIDE DEF Invalid
<1>2. CASE Stays(r)
  BY <1>1, <1>2 DEF Stays, OnTheWay
<1>3. CASE Arrives(r)
  BY <1>3 DEF Arrives, OnTheWay
<1>4. CASE IsGone(r)
  BY <1>1, <1>4 DEF IsGone, OnTheWay
<1> QED  BY <1>2, <1>3, <1>4 DEF Travels

(* r, if it is a request, goes to the buffer; the first reply there may go *)
(* on to its register.                                                     *)
Delivers(r) ==
  /\ EachOnce(circ')
  /\ \/ /\ reg'.y1 = reg.y1 /\ reg'.armmsg = reg.armmsg /\ circ'.relaunch = circ.relaunch
        /\ \A q \in Request : Holds(circ', q) <=> Holds(circ, q) \/ q = r
     \/ \E x : /\ circ.relaunch /\ ~ circ'.relaunch /\ reg'.y1 /\ reg'.armmsg = x
               /\ Holds(circ, x) \/ x = r
               /\ \A q \in Request : Holds(circ', q) <=> (Holds(circ, q) \/ q = r) /\ q # x

LEMMA DeliveredTravels ==
  ASSUME IInv, Copied, NEW r, Delivers(r), ppc' = ppc, reg'.x2 = reg.x2,
         NEW a \in Place \ {"buffer", "reply"}, r \in Request => At(r, a),
         \A q \in Request : \A p \in Place \ {"buffer", "reply"} : At(q, p)' <=> At(q, p) /\ q # r
  PROVE  EachOnce(circ)' /\ OneWish' /\ \A q \in Request : Travels(q)
<1>1. \A q : /\ At(q, "buffer") <=> Holds(circ, q)
             /\ At(q, "buffer")' <=> Holds(circ', q)
             /\ At(q, "reply") <=> reg.y1 /\ reg.armmsg = q
             /\ At(q, "reply")' <=> reg'.y1 /\ reg'.armmsg = q
  BY DEF At, Holds
<1>2. /\ "buffer" \in Place /\ "reply" \in Place /\ a \in Place
      /\ \A p \in Place : p = "buffer" \/ p = "reply" \/ p \in Place \ {"buffer", "reply"}
  BY DEF Place
<1> HIDE DEF Place, At, Holds
<1>3. ASSUME NEW q \in Request PROVE Travels(q)
  <2>0. OnTheWay(q)
    BY DEF Copied
  <2>1. CASE /\ reg'.y1 = reg.y1 /\ reg'.armmsg = reg.armmsg
             /\ \A o \in Request : Holds(circ', o) <=> Holds(circ, o) \/ o = r
    <3>1. CASE q = r
      <4>1. \A p \in Place : At(q, p) <=> p = a
        BY <1>2, <2>0, <3>1 DEF OnTheWay
      <4>2. \A p \in Place : At(q, p)' <=> p = "buffer"
        BY <1>1, <1>2, <2>1, <3>1, <4>1
      <4> QED  BY <1>2, <2>0, <3>1, <4>2 DEF Arrives, Travels, OnTheWay
    <3>2. CASE q # r
      <4>1. \A p \in Place : At(q, p)' <=> At(q, p)
        BY <1>1, <1>2, <2>1, <3>2
      <4> QED  BY <4>1 DEF Stays, Travels
    <3> QED  BY <3>1, <3>2
  <2>2. ASSUME NEW x, circ.relaunch, ~ circ'.relaunch, reg'.y1, reg'.armmsg = x,
               Holds(circ, x) \/ x = r,
               \A o \in Request : Holds(circ', o) <=> (Holds(circ, o) \/ o = r) /\ o # x
        PROVE  Travels(q)
    <3>0. ~ reg.y1
      BY <2>2 DEF Copied, OneWish
    <3>1. CASE q = x
      <4>1. \A p \in Place \ {"buffer", "reply"} : ~ At(q, p)'
        BY <1>1, <1>2, <2>0, <2>2, <3>1 DEF OnTheWay
      <4>2. \A p \in Place : At(q, p)' <=> p = "reply"
        BY <1>1, <1>2, <2>2, <3>1, <4>1
      <4>3. q \in ppc.sent
        BY <1>1, <1>2, <2>0, <2>2, <3>1 DEF OnTheWay
      <4> QED  BY <1>2, <4>2, <4>3 DEF Arrives, Travels
    <3>2. CASE q # x /\ q = r
      <4>1. \A p \in Place : At(q, p) <=> p = a
        BY <1>2, <2>0, <3>2 DEF OnTheWay
      <4>2. \A p \in Place : At(q, p)' <=> p = "buffer"
        BY <1>1, <1>2, <2>2, <3>0, <3>2, <4>1
      <4> QED  BY <1>2, <2>0, <3>2, <4>2 DEF Arrives, Travels, OnTheWay
    <3>3. CASE q # x /\ q # r
      <4>1. \A p \in Place : At(q, p)' <=> At(q, p)
        BY <1>1, <1>2, <2>2, <3>0, <3>3
      <4> QED  BY <4>1 DEF Stays, Travels
    <3> QED  BY <3>1, <3>2, <3>3
  <2> QED  BY <2>1, <2>2 DEF Delivers
<1>4. OneWish'
  BY DEF Delivers, Copied, OneWish
<1>5. EachOnce(circ)'
  BY DEF Delivers, EachOnce
<1> QED  BY <1>3, <1>4, <1>5

LEMMA FlushDelivers ==
  ASSUME IInv, Copied, NEW r \in Request, FlushAndSendRequest(r), InHand = 1, ~ Holds(circ, r)
  PROVE  /\ Delivers(r)
         /\ reg'.x1 = reg.x1 /\ reg'.x2 = reg.x2 /\ reg'.ppcmsg = reg.ppcmsg
<1>1. circ \in CircularBuffer /\ reg \in Registers /\ EachOnce(circ)
  BY DEF IInv, TypeOK, Copied
<1>2. circ.ready \in 0 .. BufferSize - 1 /\ circ.putAt = (circ.sendAt + circ.ready) % BufferSize
  BY <1>1, CountFacts, RoomAssumption
  DEF IInv, Accounted, IndicesAgree, CircularBuffer, Coming
<1> DEFINE f == Flushed(circ, r)
<1>3. /\ f \in CircularBuffer /\ f.ready \in 0 .. BufferSize
      /\ EachOnce(f) /\ \A q : Holds(f, q) <=> Holds(circ, q) \/ q = r
  BY <1>1, <1>2, FlushEffect, FlushHolds, RoomAssumption
<1>4. f.relaunch = circ.relaunch /\ SendIpcRequest(f)
  BY <1>1 DEF Flushed, CircularBuffer, FlushAndSendRequest
<1> HIDE DEF f
<1>5. EachOnce(circ') /\ ((circ' = f /\ reg' = reg) \/ \E x : RepliesWith(f, x))
  BY <1>1, <1>3, <1>4, SendHolds
<1>6. Delivers(r)
  BY <1>3, <1>4, <1>5 DEF Delivers, RepliesWith
<1> QED  BY <1>6, FlushAndSendEffect DEF IInv

(* The handler's queue: what is posted was not in it.                      *)
LEMMA PostMoves ==
  ASSUME TypeOK, NEW m \in Request \cup {NULL}, Post(m), Len(queue) < QueueSize,
         \A i, j \in DOMAIN queue : queue[i] = queue[j] => i = j,
         \A i \in DOMAIN queue : queue[i] # m
  PROVE  /\ \A i, j \in DOMAIN queue' : queue'[i] = queue'[j] => i = j
         /\ \A r : At(r, "queue")' <=> At(r, "queue") \/ r = m
<1>1. queue \in Seq(Request \cup {NULL}) /\ queue' = Append(queue, m)
  BY DEF TypeOK, Post
<1>2. /\ Len(queue) \in Nat
      /\ DOMAIN queue = 1 .. Len(queue) /\ DOMAIN queue' = 1 .. Len(queue) + 1
      /\ \A i \in 1 .. Len(queue) : queue'[i] = queue[i]
      /\ queue'[Len(queue) + 1] = m
  BY <1>1, AppendProperties, LenProperties
<1>3. \A r : At(r, "queue") <=> \E i \in DOMAIN queue : queue[i] = r
  BY DEF At
<1>4. \A r : At(r, "queue")' <=> \E i \in DOMAIN queue' : queue'[i] = r
  BY DEF At
<1>5. \A r : At(r, "queue")' <=> At(r, "queue") \/ r = m
  <2> HIDE DEF At
  <2> QED  BY <1>2, <1>3, <1>4
<1> QED  BY <1>2, <1>5

LEMMA TakeMoves ==
  ASSUME TypeOK, ReceiveMessage, \A i, j \in DOMAIN queue : queue[i] = queue[j] => i = j
  PROVE  /\ \A i, j \in DOMAIN queue' : queue'[i] = queue'[j] => i = j
         /\ \A r : At(r, "queue")' <=> At(r, "queue") /\ r # msg'
         /\ At(msg', "queue")
<1>1. /\ queue \in Seq(Request \cup {NULL}) /\ queue # << >>
      /\ queue' = Tail(queue) /\ msg' = Head(queue)
  BY DEF TypeOK, ReceiveMessage
<1>2. /\ Len(queue) \in Nat \ {0}
      /\ DOMAIN queue = 1 .. Len(queue) /\ DOMAIN queue' = 1 .. Len(queue) - 1
      /\ \A i \in 1 .. Len(queue) - 1 : queue'[i] = queue[i + 1]
      /\ msg' = queue[1]
  BY <1>1, HeadTailProperties, LenProperties, EmptySeq
<1>3. /\ \A r : At(r, "queue") <=> \E i \in DOMAIN queue : queue[i] = r
      /\ \A r : At(r, "queue")' <=> \E i \in DOMAIN queue' : queue'[i] = r
  BY DEF At
<1> HIDE DEF At
<1>4. \A i, j \in DOMAIN queue' : queue'[i] = queue'[j] => i = j
  <2> SUFFICES ASSUME NEW i \in DOMAIN queue', NEW j \in DOMAIN queue', queue'[i] = queue'[j]
               PROVE  i = j
    OBVIOUS
  <2>1. i + 1 \in DOMAIN queue /\ j + 1 \in DOMAIN queue /\ queue[i + 1] = queue[j + 1]
    BY <1>2
  <2> QED  BY <1>2, <2>1
<1>5. ASSUME NEW r PROVE At(r, "queue")' <=> At(r, "queue") /\ r # msg'
  <2>1. ASSUME NEW i \in DOMAIN queue', queue'[i] = r
        PROVE  r # msg' /\ \E j \in DOMAIN queue : queue[j] = r
    <3>1. i + 1 \in DOMAIN queue /\ queue[i + 1] = r /\ i + 1 # 1 /\ 1 \in DOMAIN queue
      BY <1>2, <2>1
    <3> QED  BY <1>2, <3>1
  <2>2. ASSUME NEW j \in DOMAIN queue, queue[j] = r, r # msg'
        PROVE  \E i \in DOMAIN queue' : queue'[i] = r
    <3>1. j - 1 \in DOMAIN queue' /\ queue'[j - 1] = queue[j]
      BY <1>2, <2>2
    <3> QED  BY <2>2, <3>1
  <2> QED  BY <1>3, <2>1, <2>2
<1>6. At(msg', "queue")
  BY <1>2, <1>3
<1> QED  BY <1>4, <1>5, <1>6

(* The steps of the other actors.                                          *)
Kept ==
  /\ \A i, j \in DOMAIN queue' : queue'[i] = queue'[j] => i = j
  /\ EachOnce(circ)' /\ OneWish'
  /\ \A r \in Request : Travels(r)

LEMMA SameCirc == ASSUME circ' = circ
                  PROVE  (EachOnce(circ)' <=> EachOnce(circ)) /\ \A r : Holds(circ', r) <=> Holds(circ, r)
BY DEF EachOnce, Holds

LEMMA PowerPCMoves ==
  ASSUME IInv, Copied, (\E r \in Request : PpcSend(r)) \/ PpcAck \/ PpcReceive
  PROVE  Kept
<1>0. /\ reg \in Registers /\ ppc \in PowerPC /\ \A r \in Request : OnTheWay(r)
      /\ UNCHANGED <<masked, queue, circ, pc, msg, fromPPC, serving>>
  BY DEF IInv, TypeOK, Copied, PpcSend, PpcAck, PpcReceive, handlerVars
<1>1. \A r \in Request : \A p \in Place \ {"register", "reply"} : At(r, p)' <=> At(r, p)
  BY <1>0, SameCirc DEF At, Place, Taken, Received, Holds
<1>2. \A r \in Request :
        /\ At(r, "register") <=> reg.x1 /\ reg.ppcmsg = r
        /\ At(r, "register")' <=> reg'.x1 /\ reg'.ppcmsg = r
        /\ At(r, "reply") <=> reg.y1 /\ reg.armmsg = r
        /\ At(r, "reply")' <=> reg'.y1 /\ reg'.armmsg = r
  BY DEF At
<1>3. /\ "register" \in Place /\ "reply" \in Place
      /\ \A p \in Place : p = "register" \/ p = "reply" \/ p \in Place \ {"register", "reply"}
  BY DEF Place
<1>4. Copied => EachOnce(circ)' /\ \A i, j \in DOMAIN queue' : queue'[i] = queue'[j] => i = j
  BY <1>0, SameCirc DEF Copied
<1> HIDE DEF At, Place
<1>5. ASSUME NEW r \in Request, PpcSend(r) PROVE Kept
  <2>1. /\ reg'.x1 /\ reg'.ppcmsg = r /\ reg'.y1 = reg.y1 /\ reg'.armmsg = reg.armmsg
        /\ reg'.x2 = reg.x2
        /\ ppc'.sent = ppc.sent \cup {r} /\ ppc'.up = ppc.up /\ r \notin ppc.sent /\ ~ ppc.unacked
    BY <1>0, <1>5 DEF PpcSend, Registers, PowerPC
  <2>2. ~ reg.x1
    BY <2>1 DEF IInv, FlowControl, AckAfterTaking
  <2>3. OneWish'
    BY <1>0, <2>1 DEF Copied, OneWish
  <2>4. ASSUME NEW q \in Request PROVE Travels(q)
    <3>1. CASE q = r
      <4>1. \A p \in Place : At(q, p)' <=> p = "register"
        BY <1>0, <1>1, <1>2, <1>3, <2>1, <3>1 DEF OnTheWay
      <4> QED  BY <1>3, <2>1, <3>1, <4>1 DEF Arrives, Travels
    <3>2. CASE q # r
      <4>1. \A p \in Place : At(q, p)' <=> At(q, p)
        BY <1>1, <1>2, <1>3, <2>1, <2>2, <3>2
      <4> QED  BY <2>1, <3>2, <4>1 DEF Stays, Travels
    <3> QED  BY <3>1, <3>2
  <2> QED  BY <1>4, <2>3, <2>4 DEF Kept
<1>6. ASSUME PpcAck PROVE Kept
  <2>1. /\ reg'.x1 = reg.x1 /\ reg'.ppcmsg = reg.ppcmsg /\ reg'.y1 = reg.y1
        /\ reg'.armmsg = reg.armmsg /\ reg'.x2 = reg.x2
        /\ ppc'.sent = ppc.sent /\ ppc'.up = ppc.up
    BY <1>0, <1>6 DEF PpcAck, Registers, PowerPC
  <2>2. OneWish'
    BY <1>0, <2>1 DEF Copied, OneWish
  <2>3. \A q \in Request : \A p \in Place : At(q, p)' <=> At(q, p)
    BY <1>1, <1>2, <1>3, <2>1
  <2> QED  BY <1>4, <2>1, <2>2, <2>3 DEF Kept, Stays, Travels
<1>7. ASSUME PpcReceive PROVE Kept
  <2>1. /\ reg'.x1 = reg.x1 /\ reg'.ppcmsg = reg.ppcmsg /\ ~ reg'.y1
        /\ reg'.armmsg = reg.armmsg /\ reg'.x2 /\ ppc'.up /\ (reg.y1 \/ ~ ppc.up)
        /\ ppc'.sent = IF reg.y1 THEN ppc.sent \ {reg.armmsg} ELSE ppc.sent
    BY <1>0, <1>7 DEF PpcReceive, Registers, PowerPC
  <2>2. OneWish'
    BY <1>0, <2>1 DEF Copied, OneWish
  <2>3. ASSUME NEW q \in Request PROVE Travels(q)
    <3>1. CASE reg.y1 /\ reg.armmsg = q
      <4>1. \A p \in Place : ~ At(q, p)'
        BY <1>0, <1>1, <1>2, <1>3, <2>1, <3>1 DEF OnTheWay
      <4> QED  BY <2>1, <3>1, <4>1 DEF IsGone, Travels
    <3>2. CASE ~ (reg.y1 /\ reg.armmsg = q)
      <4>1. \A p \in Place : At(q, p)' <=> At(q, p)
        BY <1>1, <1>2, <1>3, <2>1, <3>2
      <4> QED  BY <2>1, <3>2, <4>1 DEF Stays, Travels
    <3> QED  BY <3>1, <3>2
  <2> QED  BY <1>4, <2>2, <2>3 DEF Kept
<1> QED  BY <1>5, <1>6, <1>7

LEMMA PostsMove ==
  ASSUME IInv, Copied, Interrupt \/ \E r \in Request : ResourceReply(r)
  PROVE  Kept
<1>0. /\ \A r \in Request : OnTheWay(r)
      /\ \A i, j \in DOMAIN queue : queue[i] = queue[j] => i = j
      /\ TypeOK /\ UNCHANGED <<ppc, reg, circ, pc, msg, fromPPC>>
  BY DEF IInv, Copied, Interrupt, ResourceReply, handlerVars
<1>1. OneWish' /\ EachOnce(circ)'
  BY <1>0, SameCirc DEF Copied, OneWish
<1>2. \A r \in Request : \A p \in Place \ {"serving", "queue"} : At(r, p)' <=> At(r, p)
  BY <1>0, SameCirc DEF At, Place, Taken, Received, Holds
<1>3. \A r \in Request :
        /\ At(r, "serving") <=> r \in serving
        /\ At(r, "serving")' <=> r \in serving'
        /\ At(r, "queue") <=> \E i \in DOMAIN queue : queue[i] = r
  BY DEF At
<1>4. /\ "serving" \in Place /\ "queue" \in Place
      /\ \A p \in Place : p = "serving" \/ p = "queue" \/ p \in Place \ {"serving", "queue"}
  BY DEF Place
<1> HIDE DEF At, Place
<1>5. CASE Interrupt
  <2>1. /\ Post(NULL) /\ Len(queue) < QueueSize /\ (\A i \in DOMAIN queue : queue[i] # NULL)
        /\ serving' = serving
    BY <1>5, ThereIsRoom DEF Interrupt, IInv, OneInterrupt, InterruptQueued
  <2>2. /\ \A i, j \in DOMAIN queue' : queue'[i] = queue'[j] => i = j
        /\ \A r : At(r, "queue")' <=> At(r, "queue") \/ r = NULL
    BY <1>0, <2>1, PostMoves
  <2>3. \A r \in Request : \A p \in Place : At(r, p)' <=> At(r, p)
    BY <1>2, <1>3, <1>4, <2>1, <2>2, RequestAssumption
  <2> QED  BY <1>0, <1>1, <2>2, <2>3 DEF Kept, Stays, Travels
<1>6. ASSUME NEW r \in Request, ResourceReply(r) PROVE Kept
  <2>1. r \in serving /\ serving' = serving \ {r} /\ Post(r) /\ Len(queue) < QueueSize
    BY <1>6, ThereIsRoom DEF ResourceReply
  <2>2. \A i \in DOMAIN queue : queue[i] # r
    BY <1>0, <1>3, <1>4, <2>1 DEF OnTheWay
  <2>3. /\ \A i, j \in DOMAIN queue' : queue'[i] = queue'[j] => i = j
        /\ \A q : At(q, "queue")' <=> At(q, "queue") \/ q = r
    BY <1>0, <2>1, <2>2, PostMoves
  <2>4. ASSUME NEW q \in Request PROVE Travels(q)
    <3>1. CASE q = r
      <4>1. \A p \in Place : At(q, p) <=> p = "serving"
        BY <1>0, <1>3, <1>4, <2>1, <3>1 DEF OnTheWay
      <4>2. \A p \in Place : At(q, p)' <=> p = "queue"
        BY <1>2, <1>3, <1>4, <2>1, <2>3, <3>1, <4>1
      <4> QED  BY <1>0, <1>4, <4>1, <4>2 DEF Arrives, Travels, OnTheWay
    <3>2. CASE q # r
      <4>1. \A p \in Place : At(q, p)' <=> At(q, p)
        BY <1>2, <1>3, <1>4, <2>1, <2>3, <3>2
      <4> QED  BY <1>0, <4>1 DEF Stays, Travels
    <3> QED  BY <3>1, <3>2
  <2> QED  BY <1>1, <2>3, <2>4 DEF Kept
<1> QED  BY <1>5, <1>6

(* The steps of the handler that leave its buffer as it is.                *)
LEMMA HandlerMoves ==
  ASSUME IInv, Copied,
         \/ ReceiveMessage \/ ReadMessageRegister \/ ReadFlags
         \/ ClearAndEnableIPCInterrupt \/ CountAndValidate
  PROVE  Kept
<1>0. /\ \A r \in Request : OnTheWay(r)
      /\ \A i, j \in DOMAIN queue : queue[i] = queue[j] => i = j
      /\ TypeOK /\ reg \in Registers /\ circ \in CircularBuffer /\ OneWish
      /\ ppc' = ppc /\ serving' = serving
  BY DEF IInv, TypeOK, Copied, ReceiveMessage, ReadMessageRegister, ReadFlags,
         ClearAndEnableIPCInterrupt, CountAndValidate
<1>1. /\ circ'.sendAt = circ.sendAt /\ circ'.ready = circ.ready /\ circ'.backing = circ.backing
      /\ reg'.y1 = reg.y1 /\ reg'.armmsg = reg.armmsg
  BY <1>0 DEF ReceiveMessage, ReadMessageRegister, ReadFlags, ClearAndEnableIPCInterrupt,
              CountAndValidate, CircularBuffer, Registers
<1>2. EachOnce(circ)' /\ \A r \in Request :
        \A p \in {"serving", "buffer", "reply"} : At(r, p)' <=> At(r, p)
  BY <1>0, <1>1 DEF At, Holds, EachOnce, Copied
<1>3. \A r \in Request :
        /\ At(r, "register") <=> reg.x1 /\ reg.ppcmsg = r
        /\ At(r, "register")' <=> reg'.x1 /\ reg'.ppcmsg = r
        /\ At(r, "taken") <=> pc \in {"incoming", "count", "dispatch"} /\ fromPPC = r
        /\ At(r, "taken")' <=> pc' \in {"incoming", "count", "dispatch"} /\ fromPPC' = r
        /\ At(r, "received") <=> pc \in {"read", "branch"} /\ msg = r
        /\ At(r, "received")' <=> pc' \in {"read", "branch"} /\ msg' = r
  BY DEF At, Taken, Received
<1>4. queue' = queue => \A r : At(r, "queue")' <=> At(r, "queue")
  BY DEF At
<1>5. /\ {"register", "taken", "queue", "received", "serving", "buffer", "reply"} \subseteq Place
      /\ \A p \in Place : p \in {"register", "taken", "queue", "received", "serving", "buffer", "reply"}
  BY DEF Place
<1> HIDE DEF At, Place
<1>6. CASE ReceiveMessage
  <2>1. /\ pc = "receive" /\ pc' = "read" /\ UNCHANGED <<reg, circ, fromPPC>>
    BY <1>6 DEF ReceiveMessage
  <2>2. /\ \A i, j \in DOMAIN queue' : queue'[i] = queue'[j] => i = j
        /\ \A r : At(r, "queue")' <=> At(r, "queue") /\ r # msg'
        /\ At(msg', "queue")
    BY <1>0, <1>6, TakeMoves
  <2>3. ASSUME NEW q \in Request PROVE Travels(q)
    <3>1. CASE q = msg'
      <4>1. \A p \in Place : At(q, p) <=> p = "queue"
        BY <1>0, <1>5, <2>2, <3>1 DEF OnTheWay
      <4>2. \A p \in Place : At(q, p)' <=> p = "received"
        BY <1>2, <1>3, <1>5, <2>1, <2>2, <3>1, <4>1
      <4> QED  BY <1>0, <1>5, <4>1, <4>2 DEF Arrives, Travels, OnTheWay
    <3>2. CASE q # msg'
      <4>1. \A p \in Place : At(q, p)' <=> At(q, p)
        BY <1>2, <1>3, <1>5, <2>1, <2>2, <3>2
      <4> QED  BY <1>0, <4>1 DEF Stays, Travels
    <3> QED  BY <3>1, <3>2
  <2> QED  BY <1>0, <1>2, <2>1, <2>2, <2>3 DEF Kept, OneWish
<1>7. CASE /\ queue' = queue /\ OneWish'
           /\ \A r \in Request : \A p \in {"register", "taken", "received"} : At(r, p)' <=> At(r, p)
  <2>1. \A r \in Request : \A p \in Place : At(r, p)' <=> At(r, p)
    BY <1>2, <1>4, <1>5, <1>7
  <2> QED  BY <1>0, <1>2, <1>7, <2>1 DEF Kept, Stays, Travels
<1>8. CASE ReadMessageRegister
  <2>1. /\ pc = "read" /\ pc' = "branch" /\ UNCHANGED <<ppc, reg, queue, circ, msg>>
    BY <1>8 DEF ReadMessageRegister
  <2> QED  BY <1>0, <1>3, <1>7, <2>1 DEF OneWish
<1>9. CASE ClearAndEnableIPCInterrupt
  <2>1. /\ UNCHANGED <<ppc, reg, queue, circ, msg, fromPPC>>
        /\ (pc = "relaunch" /\ pc' = "send") \/ (pc = "incoming" /\ pc' = "count")
    BY <1>9 DEF ClearAndEnableIPCInterrupt
  <2> QED  BY <1>0, <1>3, <1>7, <2>1 DEF OneWish
<1>10. CASE CountAndValidate
  <2>1. /\ pc = "count" /\ UNCHANGED <<ppc, reg, queue, msg, fromPPC>> /\ circ'.relaunch = circ.relaunch
        /\ pc' = IF fromPPC \in Invalid THEN "receive" ELSE "dispatch"
    BY <1>0, <1>10 DEF CountAndValidate, CircularBuffer
  <2>2. OneWish'
    BY <1>0, <2>1 DEF OneWish
  <2>3. CASE fromPPC \notin Invalid
    BY <1>3, <1>7, <2>1, <2>2, <2>3
  <2>4. ASSUME fromPPC \in Invalid, NEW q \in Request PROVE Travels(q)
    <3>1. CASE q = fromPPC
      <4>1. \A p \in Place : At(q, p) <=> p = "taken"
        BY <1>0, <1>3, <1>5, <2>1, <3>1 DEF OnTheWay
      <4>2. \A p \in Place : ~ At(q, p)'
        BY <1>2, <1>3, <1>4, <1>5, <2>1, <2>4, <4>1
      <4> QED  BY <2>4, <3>1, <4>2 DEF IsGone, Travels
    <3>2. CASE q # fromPPC
      <4>1. \A p \in Place : At(q, p)' <=> At(q, p)
        BY <1>2, <1>3, <1>4, <1>5, <2>1, <2>4, <3>2
      <4> QED  BY <1>0, <4>1 DEF Stays, Travels
    <3> QED  BY <3>1, <3>2
  <2> QED  BY <1>0, <1>2, <2>1, <2>2, <2>3, <2>4 DEF Kept
<1>11. CASE ReadFlags
  <2>1. /\ pc = "branch" /\ msg = NULL /\ UNCHANGED <<queue, msg, fromPPC>>
        /\ reg'.ppcmsg = reg.ppcmsg /\ (circ'.relaunch <=> circ.relaunch \/ reg.x2)
        /\ reg.x2 => pc' = "relaunch" /\ reg'.x1 = reg.x1 /\ ~ reg'.x2
        /\ ~ reg.x2 => /\ ~ reg'.x1 /\ reg'.x2 = reg.x2
                       /\ pc' = IF reg.x1 THEN "incoming" ELSE "receive"
    BY <1>0, <1>11 DEF ReadFlags, CircularBuffer, Registers
  <2>2. OneWish'
    BY <1>0, <1>1, <2>1 DEF OneWish
  <2>3. CASE reg.x2 \/ ~ reg.x1
    <3>1. \A r \in Request : r # NULL
      BY RequestAssumption
    <3> QED  BY <1>3, <1>7, <2>1, <2>2, <2>3, <3>1
  <2>4. ASSUME ~ reg.x2, reg.x1, NEW q \in Request PROVE Travels(q)
    <3>0. fromPPC = reg.ppcmsg /\ q # NULL
      BY <2>1, <2>4, RequestAssumption DEF IInv, OneInterrupt
    <3>1. CASE q = fromPPC
      <4>1. \A p \in Place : At(q, p) <=> p = "register"
        BY <1>0, <1>3, <1>5, <2>4, <3>0, <3>1 DEF OnTheWay
      <4>2. \A p \in Place : At(q, p)' <=> p = "taken"
        BY <1>2, <1>3, <1>4, <1>5, <2>1, <2>4, <3>0, <3>1, <4>1
      <4> QED  BY <1>0, <1>5, <4>1, <4>2 DEF Arrives, Travels, OnTheWay
    <3>2. CASE q # fromPPC
      <4>1. \A p \in Place : At(q, p)' <=> At(q, p)
        BY <1>2, <1>3, <1>4, <1>5, <2>1, <2>4, <3>0, <3>2
      <4> QED  BY <1>0, <4>1 DEF Stays, Travels
    <3> QED  BY <3>1, <3>2
  <2> QED  BY <1>0, <1>2, <2>1, <2>2, <2>3, <2>4 DEF Kept
<1> QED  BY <1>6, <1>8, <1>9, <1>10, <1>11

(* The steps of the handler that deal with its buffer.                     *)
LEMMA BufferMoves ==
  ASSUME IInv, Copied, ForwardReply \/ SendNext \/ Dispatch
  PROVE  Kept
<1>0. /\ \A r \in Request : OnTheWay(r)
      /\ \A i, j \in DOMAIN queue : queue[i] = queue[j] => i = j
      /\ TypeOK /\ RequestInHand /\ reg \in Registers /\ circ \in CircularBuffer
      /\ ppc' = ppc /\ msg' = msg /\ fromPPC' = fromPPC /\ pc' = "receive"
      /\ EachOnce(circ) /\ OneWish
  BY DEF IInv, TypeOK, Copied, ForwardReply, SendNext, Dispatch
<1>1. \A r \in Request :
        /\ At(r, "register") <=> reg.x1 /\ reg.ppcmsg = r
        /\ At(r, "register")' <=> reg'.x1 /\ reg'.ppcmsg = r
        /\ At(r, "taken") <=> pc \in {"incoming", "count", "dispatch"} /\ fromPPC = r
        /\ ~ At(r, "taken")' /\ ~ At(r, "received")'
        /\ At(r, "received") <=> pc \in {"read", "branch"} /\ msg = r
        /\ At(r, "serving") <=> r \in serving
        /\ At(r, "serving")' <=> r \in serving'
        /\ At(r, "buffer") <=> Holds(circ, r)
  BY <1>0 DEF At, Taken, Received
<1>2. queue' = queue => \A r : At(r, "queue")' <=> At(r, "queue")
  BY DEF At
<1>3. UNCHANGED <<circ, reg>> => \A r : (At(r, "buffer")' <=> At(r, "buffer"))
                                       /\ (At(r, "reply")' <=> At(r, "reply"))
  BY SameCirc DEF At, Holds
<1>4. /\ {"register", "taken", "queue", "received", "serving", "buffer", "reply"} \subseteq Place
      /\ \A p \in Place : p \in {"register", "taken", "queue", "received", "serving", "buffer", "reply"}
  BY DEF Place
<1>5. UNCHANGED <<circ, reg>> => EachOnce(circ)' /\ OneWish'
  BY <1>0, SameCirc DEF OneWish
<1> HIDE DEF At, Place
<1>6. CASE ForwardReply
  <2>1. /\ pc = "branch" /\ msg \in Request /\ FlushAndSendRequest(msg)
        /\ UNCHANGED <<queue, serving>>
    BY <1>0, <1>6 DEF ForwardReply, TypeOK
  <2>2. At(msg, "received") /\ InHand = 1
    BY <1>1, <2>1, RequestAssumption DEF InHand
  <2>3. ~ Holds(circ, msg)
    BY <1>0, <1>1, <1>4, <2>1, <2>2 DEF OnTheWay
  <2>4. /\ Delivers(msg)
        /\ reg'.x1 = reg.x1 /\ reg'.x2 = reg.x2 /\ reg'.ppcmsg = reg.ppcmsg
    BY <2>1, <2>2, <2>3, FlushDelivers
  <2>5. \A q \in Request : \A p \in Place \ {"buffer", "reply"} : At(q, p)' <=> At(q, p) /\ q # msg
    <3>1. \A p \in Place : At(msg, p) <=> p = "received"
      BY <1>0, <1>4, <2>1, <2>2 DEF OnTheWay
    <3> QED  BY <1>1, <1>2, <1>4, <2>1, <2>4, <3>1
  <2>6. "received" \in Place \ {"buffer", "reply"}
    BY <1>4
  <2>7. EachOnce(circ)' /\ OneWish' /\ \A q \in Request : Travels(q)
    BY <1>0, <2>2, <2>4, <2>5, <2>6, DeliveredTravels
  <2> QED  BY <1>0, <2>1, <2>7 DEF Kept
<1>7. CASE SendNext
  <2>1. pc = "send" /\ SendIpcRequest(circ) /\ UNCHANGED <<queue, serving>>
    BY <1>7 DEF SendNext
  <2>2. circ.ready \in 0 .. BufferSize
    BY <1>0, CountFacts, RoomAssumption
    DEF IInv, Accounted, IndicesAgree, CircularBuffer, Coming, InHand
  <2>3. EachOnce(circ') /\ ((circ' = circ /\ reg' = reg) \/ \E x : RepliesWith(circ, x))
    BY <1>0, <2>1, <2>2, SendHolds
  <2>4. Delivers(NULL)
    BY <2>3, RequestAssumption, SameCirc DEF Delivers, RepliesWith
  <2>5. reg'.x1 = reg.x1 /\ reg'.x2 = reg.x2 /\ reg'.ppcmsg = reg.ppcmsg
    BY <1>0, <2>1, SendEffect
  <2>6. \A q \in Request : \A p \in Place \ {"buffer", "reply"} : At(q, p)' <=> At(q, p) /\ q # NULL
    BY <1>1, <1>2, <1>4, <2>1, <2>5, RequestAssumption
  <2>7. "received" \in Place \ {"buffer", "reply"}
    BY <1>4
  <2>8. EachOnce(circ)' /\ OneWish' /\ \A q \in Request : Travels(q)
    BY <1>0, <2>4, <2>5, <2>6, <2>7, RequestAssumption, DeliveredTravels
  <2> QED  BY <1>0, <2>1, <2>8 DEF Kept
<1>8. CASE Dispatch
  <2>1. pc = "dispatch" /\ fromPPC \in Request /\ InHand = 1 /\ At(fromPPC, "taken")
    BY <1>0, <1>1, <1>8 DEF Dispatch, RequestInHand, InHand
  <2>2. \A p \in Place : At(fromPPC, p) <=> p = "taken"
    BY <1>0, <1>4, <2>1 DEF OnTheWay
  <2>3. CASE FlushAndSendRequest(fromPPC) /\ UNCHANGED <<queue, serving>>
    <3>1. ~ Holds(circ, fromPPC)
      BY <1>1, <1>4, <2>1, <2>2
    <3>2. /\ Delivers(fromPPC)
          /\ reg'.x1 = reg.x1 /\ reg'.x2 = reg.x2 /\ reg'.ppcmsg = reg.ppcmsg
      BY <2>1, <2>3, <3>1, FlushDelivers
    <3>3. \A q \in Request : \A p \in Place \ {"buffer", "reply"} :
            At(q, p)' <=> At(q, p) /\ q # fromPPC
      BY <1>1, <1>2, <1>4, <2>1, <2>2, <2>3, <3>2
    <3>4. "taken" \in Place \ {"buffer", "reply"}
      BY <1>4
    <3>5. EachOnce(circ)' /\ OneWish' /\ \A q \in Request : Travels(q)
      BY <1>0, <2>1, <3>2, <3>3, <3>4, DeliveredTravels
    <3> QED  BY <1>0, <2>3, <3>5 DEF Kept
  <2>4. CASE serving' = serving \cup {fromPPC} /\ UNCHANGED <<reg, queue, circ>>
    <3>1. ASSUME NEW q \in Request PROVE Travels(q)
      <4>1. CASE q = fromPPC
        <5>1. \A p \in Place : At(q, p)' <=> p = "serving"
          BY <1>1, <1>2, <1>3, <1>4, <2>2, <2>4, <4>1
        <5> QED  BY <1>0, <1>4, <2>1, <4>1, <5>1 DEF Arrives, Travels, OnTheWay
      <4>2. CASE q # fromPPC
        <5>1. \A p \in Place : At(q, p)' <=> At(q, p)
          BY <1>1, <1>2, <1>3, <1>4, <2>1, <2>4, <4>2
        <5> QED  BY <1>0, <5>1 DEF Stays, Travels
      <4> QED  BY <4>1, <4>2
    <3> QED  BY <1>0, <1>5, <2>4, <3>1 DEF Kept
  <2>5. CASE Len(queue) < QueueSize /\ Post(fromPPC) /\ UNCHANGED <<reg, circ, serving>>
    <3>1. \A r : At(r, "queue") <=> \E i \in DOMAIN queue : queue[i] = r
      BY DEF At
    <3>2. \A i \in DOMAIN queue : queue[i] # fromPPC
      BY <1>4, <2>2, <3>1
    <3>3. /\ \A i, j \in DOMAIN queue' : queue'[i] = queue'[j] => i = j
          /\ \A r : At(r, "queue")' <=> At(r, "queue") \/ r = fromPPC
      BY <1>0, <2>1, <2>5, <3>2, PostMoves
    <3>4. ASSUME NEW q \in Request PROVE Travels(q)
      <4>1. CASE q = fromPPC
        <5>1. \A p \in Place : At(q, p)' <=> p = "queue"
          BY <1>1, <1>3, <1>4, <2>2, <2>5, <3>3, <4>1
        <5> QED  BY <1>0, <1>4, <2>1, <4>1, <5>1 DEF Arrives, Travels, OnTheWay
      <4>2. CASE q # fromPPC
        <5>1. \A p \in Place : At(q, p)' <=> At(q, p)
          BY <1>1, <1>3, <1>4, <2>1, <2>5, <3>3, <4>2
        <5> QED  BY <1>0, <5>1 DEF Stays, Travels
      <4> QED  BY <4>1, <4>2
    <3> QED  BY <1>0, <1>5, <2>5, <3>3, <3>4 DEF Kept
  <2>6. Dispatch => \/ FlushAndSendRequest(fromPPC) /\ UNCHANGED <<queue, serving>>
                    \/ serving' = serving \cup {fromPPC} /\ UNCHANGED <<reg, queue, circ>>
                    \/ Len(queue) < QueueSize /\ Post(fromPPC) /\ UNCHANGED <<reg, circ, serving>>
    BY DEF Dispatch
  <2> QED  BY <1>8, <2>3, <2>4, <2>5, <2>6
<1> QED  BY <1>6, <1>7, <1>8

LEMMA CopiedInit == Init => Copied
<1> SUFFICES ASSUME Init PROVE Copied
  OBVIOUS
<1>1. /\ queue = << >> /\ serving = {} /\ pc = "receive" /\ ppc.sent = {} /\ ~ ppc.up
      /\ ~ reg.x1 /\ ~ reg.x2 /\ ~ reg.y1 /\ ~ circ.relaunch
      /\ circ.ready = 0 /\ circ.sendAt = 0
  BY DEF Init
<1>2. Places(circ.sendAt, circ.ready) = {}
  <2>1. \A i \in Slot : (i - 0) % BufferSize \in Nat
    BY Distance, RoomAssumption DEF Slot
  <2> QED  BY <1>1, <2>1 DEF Places
<1>3. \A r \in Request, p \in Place : ~ At(r, p)
  BY <1>1, <1>2 DEF At, Place, Taken, Received, Holds
<1>4. EachOnce(circ) /\ OneWish
  BY <1>1, <1>2 DEF EachOnce, OneWish
<1> QED  BY <1>1, <1>3, <1>4 DEF Copied, OnTheWay

LEMMA CopiedStep == IInv /\ Copied /\ [Next]_vars => Copied'
<1> SUFFICES ASSUME IInv, Copied, [Next]_vars PROVE Copied'
  OBVIOUS
<1>1. CASE Next
  <2>1. Kept
    BY <1>1, PowerPCMoves, PostsMove, HandlerMoves, BufferMoves DEF Next, PpcDriver, IpcHandler
  <2> QED  BY <2>1, TravelKeeps DEF Kept, Copied
<1>2. CASE UNCHANGED vars
  <2>1. \A r, p : At(r, p)' <=> At(r, p)
    BY <1>2, SameCirc DEF At, Taken, Received, Holds, vars, handlerVars
  <2>2. \A r \in Request : OnTheWay(r)'
    BY <1>2, <2>1 DEF OnTheWay, Copied, vars, Invalid, ValidateAddress
  <2> QED  BY <1>2, <2>2, SameCirc DEF Copied, OneWish, vars, handlerVars
<1> QED  BY <1>1, <1>2

LEMMA AtMostOne ==
  ASSUME NEW S, \A x, y \in S : x = y
  PROVE  Cardinality(S) = IF S = {} THEN 0 ELSE 1
<1>1. CASE S = {}
  BY <1>1, FS_EmptySet
<1>2. CASE S # {}
  <2>1. PICK x \in S : TRUE
    BY <1>2
  <2>2. S = {x}
    BY <2>1
  <2> QED  BY <1>2, <2>2, FS_Singleton
<1> QED  BY <1>1, <1>2

(* A request is answered exactly once: it is in one place from the moment  *)
(* the PowerPC sends it until it takes the reply.                          *)
THEOREM AnsweredOnce == Spec => []OneCopy
<1>1. ASSUME Copied, NEW r \in Request
      PROVE  \/ r \notin ppc.sent /\ Copies(r) = 0
             \/ r \in ppc.sent /\ Copies(r) = 1
             \/ r \in ppc.sent /\ Copies(r) = 0 /\ r \in Invalid
  <2> DEFINE Q == {i \in DOMAIN queue : queue[i] = r}
             B == {i \in ToSend : circ.backing[i] = r}
             One(P) == IF P THEN 1 ELSE 0
  <2>1. Cardinality(Q) = One(At(r, "queue"))
    <3>1. \A x, y \in Q : x = y
      BY <1>1 DEF Copied
    <3>2. Q # {} <=> At(r, "queue")
      BY DEF At
    <3> QED  BY <3>1, <3>2, AtMostOne
  <2>2. Cardinality(B) = One(At(r, "buffer"))
    <3>1. ToSend = Places(circ.sendAt, circ.ready)
      BY DEF ToSend, Places
    <3>2. \A x, y \in B : x = y
      BY <1>1, <3>1 DEF Copied, EachOnce
    <3>3. B # {} <=> At(r, "buffer")
      BY <3>1 DEF At, Holds
    <3> QED  BY <3>2, <3>3, AtMostOne
  <2>3. Copies(r) = One(At(r, "register")) + One(At(r, "taken")) + One(At(r, "serving"))
                    + One(At(r, "queue")) + One(At(r, "received")) + One(At(r, "buffer"))
                    + One(At(r, "reply"))
    <3>1. /\ At(r, "register") <=> reg.x1 /\ reg.ppcmsg = r
          /\ At(r, "taken") <=> r \in Taken
          /\ At(r, "serving") <=> r \in serving
          /\ At(r, "received") <=> r \in Received
          /\ At(r, "reply") <=> reg.y1 /\ reg.armmsg = r
      BY DEF At
    <3> HIDE DEF At
    <3> QED  BY <2>1, <2>2, <3>1 DEF Copies
  <2>4. /\ \A p, q \in Place : At(r, p) /\ At(r, q) => p = q
        /\ \A p \in Place : At(r, p) => r \in ppc.sent
        /\ r \in ppc.sent /\ r \notin Invalid => \E p \in Place : At(r, p)
    BY <1>1 DEF Copied, OnTheWay
  <2> HIDE DEF At
  <2>5. (Copies(r) = 0 /\ \A p \in Place : ~ At(r, p)) \/ (Copies(r) = 1 /\ \E p \in Place : At(r, p))
    BY <2>3, <2>4 DEF Place
  <2> QED  BY <2>4, <2>5
<1>2. Copied => OneCopy
  BY <1>1 DEF OneCopy
<1>3. Spec => []Copied
  BY CopiedInit, CopiedStep, InvariantHolds, PTL DEF Spec
<1> QED  BY <1>2, <1>3, PTL
=============================================================================
