---------------------------------- MODULE Ipc ----------------------------------
(***************************************************************************)
(* Inter-processor communication, kernel/source/messaging/ipc.c: requests  *)
(* of the PowerPC, their dispatch to the resource managers and the replies *)
(* on their way back.  Each direction has a message register and two flags: *)
(*   x1  a request is in ppcmsg          y1  a reply is in armmsg          *)
(*   x2  the PowerPC took the last reply y2  it may send another request   *)
(* The handler's queue is the sequence that Mailbox promises.  Only the    *)
(* handler touches the circular buffer, so a step of it ends where another *)
(* actor can tell.  The PowerPC and the resource managers are external,    *)
(* modelled by what ipc.c expects of them.                                 *)
(***************************************************************************)
EXTENDS Integers, Sequences, FiniteSets

CONSTANTS
  Request,     \* the request blocks of the PowerPC
  Address,     \* where each of them is
  RequestSize, \* sizeof(IpcRequest)
  Mem1End, Mem2Base, IpcHeapStart, \* MEM1_END, MEM2_BASE, __ipc_heap_start
  Word,        \* the number of values of a u32
  BufferSize,  \* IPC_CIRCULAR_BUFFER_SIZE
  QueueSize,   \* ARRAY_LENGTH(IpcHandlerMessageQueueData)
  NULL         \* no request; as a message, IpcHandlerRequest: the interrupt

ASSUME RequestAssumption == IsFiniteSet(Request) /\ NULL \notin Request
ASSUME AddressAssumption ==
  /\ RequestSize \in Nat /\ Word \in Nat \ {0}
  /\ Mem1End \in Nat /\ Mem2Base \in Nat /\ IpcHeapStart \in Nat
  /\ Address \in [Request -> 0 .. Word - 1]
ASSUME RoomAssumption == BufferSize \in Nat \ {0} /\ QueueSize \in Nat /\ BufferSize < QueueSize

VARIABLES
  ppc,      \* the PowerPC: what it waits for and what it may do
  reg,      \* HW_IPC_PPCMSG, HW_IPC_ARMMSG and the flags of HW_IPC_ARMCTRL
  masked,   \* the interrupt is disabled in HW_ARMIRQMASK
  queue,    \* the handler's message queue: replies (IOS_REPLY) and NULL
  circ,     \* IpcCircBuf
  pc,       \* where the handler thread is in its loop
  msg,      \* messagePointer
  fromPPC,  \* messageFromPPC
  serving   \* the requests the resource managers hold

handlerVars == <<circ, pc, msg, fromPPC>>
vars == <<ppc, reg, masked, queue, handlerVars, serving>>

Slot == 0 .. BufferSize - 1
PowerPC == [ sent    : SUBSET Request,  \* waits for their replies
             up      : BOOLEAN,         \* has announced itself
             unacked : BOOLEAN ]        \* may not send yet
Registers ==
  [ x1 : BOOLEAN, x2 : BOOLEAN, y1 : BOOLEAN, y2 : BOOLEAN,
    ppcmsg : Request \cup {NULL}, armmsg : Request \cup {NULL} ]
CircularBuffer ==
  [ relaunch : BOOLEAN,  \* HadRelaunchFlag
    waiting  : Int,      \* WaitingInBufferAmount
    ready    : Int,      \* ReadyToSendAmount
    sendAt   : Slot,     \* SendingIndex
    putAt    : Slot,     \* PrepareToSendIndex
    backing  : [Slot -> Request \cup {NULL}] ]

(* IpcHandler has set up its queue and enabled the interrupt.              *)
Init ==
  /\ ppc = [sent |-> {}, up |-> FALSE, unacked |-> FALSE]
  /\ reg = [ x1 |-> FALSE, x2 |-> FALSE, y1 |-> FALSE, y2 |-> FALSE,
             ppcmsg |-> NULL, armmsg |-> NULL ]
  /\ masked = FALSE
  /\ queue = << >>
  /\ circ = [ relaunch |-> FALSE, waiting |-> 0, ready |-> 0, sendAt |-> 0, putAt |-> 0,
              backing |-> [i \in Slot |-> NULL] ]
  /\ pc = "receive" /\ msg = NULL /\ fromPPC = NULL
  /\ serving = {}

-----------------------------------------------------------------------------
PpcSend(r) ==
  /\ r \notin ppc.sent /\ ~ ppc.unacked
  /\ ppc' = [ppc EXCEPT !.sent = @ \cup {r}, !.unacked = TRUE]
  /\ reg' = [reg EXCEPT !.ppcmsg = r, !.x1 = TRUE]
  /\ UNCHANGED <<masked, queue, handlerVars, serving>>

PpcAck ==
  /\ reg.y2
  /\ ppc' = [ppc EXCEPT !.unacked = FALSE]
  /\ reg' = [reg EXCEPT !.y2 = FALSE]
  /\ UNCHANGED <<masked, queue, handlerVars, serving>>

(* It takes the reply, unless this is its first word, and asks for more.   *)
PpcReceive ==
  /\ reg.y1 \/ ~ ppc.up
  /\ ppc' = [ppc EXCEPT !.up = TRUE, !.sent = IF reg.y1 THEN @ \ {reg.armmsg} ELSE @]
  /\ reg' = [reg EXCEPT !.y1 = FALSE, !.x2 = TRUE]
  /\ UNCHANGED <<masked, queue, handlerVars, serving>>

(* EnqueueEventHandler, and SendMessageToQueue that does not block.        *)
Post(m) == queue' = IF Len(queue) < QueueSize THEN Append(queue, m) ELSE queue

(* IrqHandler for the IPC interrupt, raised for as long as x1 or x2 is set *)
(* and masked until the handler thread enables it again.                   *)
Interrupt ==
  /\ ~ masked /\ (reg.x1 \/ reg.x2)
  /\ masked' = TRUE
  /\ Post(NULL)
  /\ UNCHANGED <<ppc, reg, handlerVars, serving>>

(* ResourceReply to an asynchronous call.                                  *)
ResourceReply(r) ==
  /\ r \in serving
  /\ serving' = serving \ {r}
  /\ Post(r)
  /\ UNCHANGED <<ppc, reg, masked, handlerVars>>

-----------------------------------------------------------------------------
\* mutant: the PowerPC need not have asked
SendUnasked(c) ==
  IF c.ready # 0
  THEN /\ circ' = [c EXCEPT !.sendAt = (@ + 1) % BufferSize, !.ready = @ - 1,
                            !.waiting = @ - 1, !.relaunch = FALSE]
       /\ reg' = [reg EXCEPT !.armmsg = c.backing[c.sendAt], !.y1 = TRUE,
                             !.y2 = @ \/ c.waiting - 1 = BufferSize - 1]
  ELSE circ' = c /\ UNCHANGED reg
\* mutant: every reply acknowledges
SendAlwaysAcking(c) ==
  IF c.relaunch /\ c.ready # 0
  THEN /\ circ' = [c EXCEPT !.sendAt = (@ + 1) % BufferSize, !.ready = @ - 1,
                            !.waiting = @ - 1, !.relaunch = FALSE]
       /\ reg' = [reg EXCEPT !.armmsg = c.backing[c.sendAt], !.y1 = TRUE, !.y2 = TRUE]
  ELSE circ' = c /\ UNCHANGED reg

(* SendIpcRequest on the buffer c: one reply, if there is one and the      *)
(* PowerPC asked for it; and the acknowledgement that was withheld when    *)
(* the buffer filled up.                                                   *)
SendIpcRequest(c) ==
  IF c.relaunch /\ c.ready # 0
  THEN /\ circ' = [c EXCEPT !.sendAt = (@ + 1) % BufferSize, !.ready = @ - 1,
                            !.waiting = @ - 1, !.relaunch = FALSE]
       /\ reg' = [reg EXCEPT !.armmsg = c.backing[c.sendAt], !.y1 = TRUE,
                             !.y2 = @ \/ c.waiting - 1 = BufferSize - 1]
  ELSE circ' = c /\ UNCHANGED reg

\* mutant: the index does not wrap
FlushedBeyond(c, r) ==
  [c EXCEPT !.backing[c.putAt] = r, !.putAt = @ + 1, !.ready = @ + 1]
(* FlushAndSendRequest: the reply r goes behind those that wait.           *)
Flushed(c, r) ==
  [c EXCEPT !.backing[c.putAt] = r, !.putAt = (@ + 1) % BufferSize, !.ready = @ + 1]
FlushAndSendRequest(r) == SendIpcRequest(Flushed(circ, r))

ReceiveMessage ==
  /\ pc = "receive" /\ queue # << >>
  /\ msg' = Head(queue) /\ queue' = Tail(queue)
  /\ pc' = "read"
  /\ UNCHANGED <<ppc, reg, masked, circ, fromPPC, serving>>

ReadMessageRegister ==
  /\ pc = "read"
  /\ fromPPC' = reg.ppcmsg
  /\ pc' = "branch"
  /\ UNCHANGED <<ppc, reg, masked, queue, circ, msg, serving>>

ForwardReply ==
  /\ pc = "branch" /\ msg # NULL
  /\ FlushAndSendRequest(msg)
  /\ pc' = "receive"
  /\ UNCHANGED <<ppc, masked, queue, msg, fromPPC, serving>>

\* mutants: x1 before x2; acknowledged although the request fills the buffer
ReadFlagsX1First ==
  /\ pc = "branch" /\ msg = NULL
  /\ pc' = IF reg.x1 THEN "incoming" ELSE IF reg.x2 THEN "relaunch" ELSE "receive"
  /\ circ' = [circ EXCEPT !.relaunch = @ \/ (reg.x2 /\ ~ reg.x1)]
  /\ reg' = IF reg.x1
            THEN [reg EXCEPT !.x1 = FALSE, !.y2 = @ \/ circ.waiting < BufferSize - 1]
            ELSE [reg EXCEPT !.x2 = FALSE]
  /\ UNCHANGED <<ppc, masked, queue, msg, fromPPC, serving>>
ReadFlagsAckTooFar ==
  /\ pc = "branch" /\ msg = NULL
  /\ pc' = IF reg.x2 THEN "relaunch" ELSE IF reg.x1 THEN "incoming" ELSE "receive"
  /\ circ' = [circ EXCEPT !.relaunch = @ \/ reg.x2]
  /\ reg' = IF reg.x2 THEN [reg EXCEPT !.x2 = FALSE]
            ELSE [reg EXCEPT !.x1 = FALSE,
                             !.y2 = @ \/ (reg.x1 /\ circ.waiting < BufferSize)]
  /\ UNCHANGED <<ppc, masked, queue, msg, fromPPC, serving>>

(* An interrupt: the flags say why, x2 before x1.  A request is            *)
(* acknowledged at once while the buffer has room for another.             *)
ReadFlags ==
  /\ pc = "branch" /\ msg = NULL
  /\ pc' = CASE reg.x2 -> "relaunch"
             [] reg.x1 /\ ~ reg.x2 -> "incoming"
             [] OTHER -> "receive"
  /\ circ' = [circ EXCEPT !.relaunch = @ \/ reg.x2]
  /\ reg' = IF reg.x2 THEN [reg EXCEPT !.x2 = FALSE]
            ELSE [reg EXCEPT !.x1 = FALSE,
                             !.y2 = @ \/ (reg.x1 /\ circ.waiting < BufferSize - 1)]
  /\ UNCHANGED <<ppc, masked, queue, msg, fromPPC, serving>>

\* mutant: the interrupt is not enabled after a relaunch
EnableForRequestsOnly ==
  /\ pc \in {"relaunch", "incoming"}
  /\ masked' = (masked /\ pc = "relaunch")
  /\ pc' = IF pc = "relaunch" THEN "send" ELSE "count"
  /\ UNCHANGED <<ppc, reg, queue, circ, msg, fromPPC, serving>>
ClearAndEnableIPCInterrupt ==
  /\ pc \in {"relaunch", "incoming"}
  /\ masked' = FALSE
  /\ pc' = IF pc = "relaunch" THEN "send" ELSE "count"
  /\ UNCHANGED <<ppc, reg, queue, circ, msg, fromPPC, serving>>

\* mutant: nothing is sent when the PowerPC asks
SendNothing ==
  /\ pc = "send" /\ pc' = "receive"
  /\ UNCHANGED <<ppc, reg, masked, queue, circ, msg, fromPPC, serving>>
SendNext ==
  /\ pc = "send"
  /\ SendIpcRequest(circ)
  /\ pc' = "receive"
  /\ UNCHANGED <<ppc, masked, queue, msg, fromPPC, serving>>

(* The end of the range wraps; MEM1 begins at 0.                           *)
ValidateAddress(addr, size) ==
  LET end == (addr + size) % Word
  IN addr < end /\ (end <= Mem1End \/ (Mem2Base <= addr /\ end <= IpcHeapStart))
Invalid == {r \in Request : ~ ValidateAddress(Address[r], RequestSize)}

(* A request with an invalid address is counted but never answered.        *)
CountAndValidate ==
  /\ pc = "count"
  /\ circ' = [circ EXCEPT !.waiting = @ + 1]
  /\ pc' = IF fromPPC \in Invalid THEN "receive" ELSE "dispatch"
  /\ UNCHANGED <<ppc, reg, masked, queue, msg, fromPPC, serving>>

(* The call fails at once, is left with a resource manager, or, being an   *)
(* open, is complete and its reply posted to the handler's own queue.      *)
Dispatch ==
  /\ pc = "dispatch"
  /\ pc' = "receive"
  /\ \/ FlushAndSendRequest(fromPPC) /\ UNCHANGED <<queue, serving>>
     \/ serving' = serving \cup {fromPPC} /\ UNCHANGED <<reg, queue, circ>>
     \/ /\ UNCHANGED serving
        /\ IF Len(queue) < QueueSize
           THEN Post(fromPPC) /\ UNCHANGED <<reg, circ>>
           ELSE FlushAndSendRequest(fromPPC) /\ UNCHANGED queue
  /\ UNCHANGED <<ppc, masked, msg, fromPPC>>

IpcHandler ==
  \/ ReceiveMessage \/ ReadMessageRegister \/ ForwardReply \/ ReadFlags
  \/ ClearAndEnableIPCInterrupt \/ SendNext \/ CountAndValidate \/ Dispatch

PpcDriver == PpcAck \/ PpcReceive

Next ==
  \/ \E r \in Request : PpcSend(r) \/ ResourceReply(r)
  \/ PpcDriver \/ Interrupt \/ IpcHandler

Spec == Init /\ [][Next]_vars

(* The PowerPC serves its interrupts, the resource managers answer, and    *)
(* the handler thread, whose priority 0x5C only threads that soon wait     *)
(* exceed, gets the processor.  No request is ever forced.                 *)
Fairness ==
  /\ WF_vars(PpcAck) /\ WF_vars(PpcReceive)
  /\ WF_vars(Interrupt) /\ WF_vars(IpcHandler)
  /\ \A r \in Request : WF_vars(ResourceReply(r))

FairSpec == Spec /\ Fairness
=============================================================================
