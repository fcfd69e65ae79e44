----------------------------- MODULE MessageQueue -----------------------------
(***************************************************************************)
(* The message queues of kernel/source/messaging/messageQueue.c: bounded   *)
(* rings of messages with a list of threads waiting to receive and one of  *)
(* threads waiting to send.                                                *)
(***************************************************************************)
EXTENDS Threads

CONSTANT MaxQueueSize  \* bound on the numberOfMessages of CreateMessageQueue
ASSUME MaxQueueSizeAssumption == MaxQueueSize \in Nat \ {0}

VARIABLES
  mq,        \* MessageQueues[]
  delivered  \* what the last step stored through a receiver's *message

Ring == [ proc  : Nat,                  \* ProcessId
          used  : Nat,                  \* Used
          first : Nat,                  \* First
          size  : 0 .. MaxQueueSize,    \* QueueSize
          heap  : [0 .. MaxQueueSize - 1 -> Msg \cup {NULL}] ]  \* QueueHeap

NoDelivery == [queue |-> NULL, msg |-> NULL]
Full(r) == r.size <= r.used

WrapLate(r, i) == IF r.size < i THEN i - r.size ELSE i  \* mutant: off by one
(* The cell i places after First.                                          *)
Wrap(r, i) == IF r.size <= i THEN i - r.size ELSE i

Stored(r, i, m) == [r EXCEPT !.heap[i] = m, !.used = @ + 1]
AppendedAtUsed(r, m) == Stored(r, r.used, m)  \* mutant: First forgotten
Appended(r, m)  == Stored(r, Wrap(r, r.first + r.used), m)
\* mutant: First steps back below cell 0
JammedBelow(r, m) == Stored([r EXCEPT !.first = @ - 1], r.first - 1, m)
Jammed(r, m) ==
  LET f == IF r.first = 0 THEN r.size - 1 ELSE r.first - 1
  IN  Stored([r EXCEPT !.first = f], f, m)
(* What the cell First may hold; beyond the cells, whatever lies there.    *)
FirstMessage(r) ==
  IF r.first \in DOMAIN r.heap THEN {r.heap[r.first]} ELSE Msg \cup {NULL}
Taken(r) == [r EXCEPT !.first = Wrap(r, r.first + 1), !.used = @ - 1]

(* SendMessageToQueue and JamMessage wake a receiver unless the head is    *)
(* NULL; ReceiveMessageFromQueue looks one entry further, so that a head   *)
(* holding an untouched sentinel, whose NextThread is NULL, wakes nobody.  *)
WakeReceiver(k, q) ==
  IF HeadOf(k, RecvQ(q)) # NULL THEN UnblockThread(k, RecvQ(q), Success) ELSE k
\* mutant: the test for a waiting sender inverted
WakeSenderInverted(k, q) ==
  IF k.next[HeadOf(k, SendQ(q))] = NULL THEN UnblockThread(k, SendQ(q), Success) ELSE k
WakeSender(k, q) ==
  IF k.next[HeadOf(k, SendQ(q))] # NULL THEN UnblockThread(k, SendQ(q), Success) ELSE k

(* Give the CPU away until a waker takes the caller off the list l.        *)
WaitOn(t, l, c) ==
  /\ sched' = YieldCurrentThread([sched EXCEPT !.state[t] = Waiting], l)
  /\ cont' = [cont EXCEPT ![t] = c]
  /\ UNCHANGED mq

(* The call returns to its caller with nothing done.                       *)
Return(t) ==
  /\ cont' = [cont EXCEPT ![t] = User]
  /\ UNCHANGED <<sched, mq>>

-----------------------------------------------------------------------------
CreateMessageQueue(t, n) ==
  /\ MayCall(t, "CreateMessageQueue")
  /\ \E q \in QueueId :
       /\ mq[q].size = 0
       /\ \A r \in QueueId : mq[r].size = 0 => q <= r
       /\ mq' = [mq EXCEPT ![q] = [@ EXCEPT !.proc = sched.proc[t], !.used = 0,
                                             !.first = 0, !.size = n]]
       /\ sched' = [sched EXCEPT !.head[RecvQ(q)] = Sentinel,
                                 !.head[SendQ(q)] = Sentinel]
  /\ delivered' = NoDelivery
  /\ UNCHANGED cont

(* The loop of SendMessageToQueue or JamMessage, entered or resumed; op is *)
(* "send" or "jam", and a nonblocking call does not reach it when full.    *)
PutLoop(t, op, q, m) ==
  /\ IF Full(mq[q])
     THEN WaitOn(t, SendQ(q), Cont(op, q, m, NULL))
     ELSE /\ mq' = [mq EXCEPT ![q] = IF op = "send" THEN Appended(@, m)
                                                    ELSE Jammed(@, m)]
          /\ sched' = WakeReceiver(sched, q)
          /\ cont' = [cont EXCEPT ![t] = User]
  /\ delivered' = NoDelivery

OwnsQueue(t, q) == mq[q].proc = sched.proc[t]

SendMessage(t, q, m) ==
  /\ MayCall(t, "SendMessage") /\ OwnsQueue(t, q)
  /\ PutLoop(t, "send", q, m)

SendMessageNonblocking(t, q, m) ==
  /\ MayCall(t, "SendMessageNonblocking") /\ OwnsQueue(t, q) /\ ~ Full(mq[q])
  /\ PutLoop(t, "send", q, m)

JamMessage(t, q, m) ==
  /\ MayCall(t, "JamMessage") /\ OwnsQueue(t, q)
  /\ PutLoop(t, "jam", q, m)

PutResumes(t) ==
  \E op \in {"send", "jam"} :
    /\ Resumes(t, op)
    /\ IF sched.r0[t] # Success
       THEN Return(t) /\ delivered' = NoDelivery
       ELSE PutLoop(t, op, cont[t].queue, cont[t].msg)

(* The loop of ReceiveMessageFromQueue; op is the code it belongs to.      *)
TakeLoop(t, op, q) ==
  IF mq[q].used = 0
  THEN /\ WaitOn(t, RecvQ(q), Cont(op, q, NULL, NULL))
       /\ delivered' = NoDelivery
  ELSE /\ \E m \in FirstMessage(mq[q]) : delivered' = [queue |-> q, msg |-> m]
       /\ mq' = [mq EXCEPT ![q] = Taken(@)]
       /\ sched' = WakeSender(sched, q)
       /\ cont' = [cont EXCEPT ![t] = User]

ReceiveMessage(t, q) ==
  /\ MayCall(t, "ReceiveMessage") /\ OwnsQueue(t, q)
  /\ TakeLoop(t, "recv", q)

ReceiveMessageNonblocking(t, q) ==
  /\ MayCall(t, "ReceiveMessageNonblocking") /\ OwnsQueue(t, q) /\ mq[q].used # 0
  /\ TakeLoop(t, "recv", q)

TakeResumes(t) ==
  /\ Resumes(t, "recv")
  /\ IF sched.r0[t] # Success
     THEN Return(t) /\ delivered' = NoDelivery
     ELSE TakeLoop(t, "recv", cont[t].queue)

(* Wake every waiter with IPC_EINTR, senders first.  An iteration that     *)
(* leaves the lists as they were is repeated for ever.                     *)
DestroyLoop(t, q) ==
  LET l  == IF HeadOf(sched, SendQ(q)) # NULL THEN SendQ(q) ELSE RecvQ(q)
      k1 == UnblockThread(sched, l, Interrupted)
  IN  IF HeadOf(sched, l) # NULL
      THEN /\ sched' = IF k1 = sched THEN Stop(k1, "hung") ELSE k1
           /\ cont' = [cont EXCEPT ![t] = Cont("destroy", q, NULL, NULL)]
           /\ UNCHANGED mq
      ELSE /\ mq' = [mq EXCEPT ![q].size = 0]
           /\ cont' = [cont EXCEPT ![t] = User]
           /\ UNCHANGED sched

DestroyMessageQueue(t, q) ==
  /\ MayCall(t, "DestroyMessageQueue") /\ OwnsQueue(t, q)
  /\ DestroyLoop(t, q)
  /\ delivered' = NoDelivery

DestroyResumes(t) ==
  /\ Resumes(t, "destroy")
  /\ DestroyLoop(t, cont[t].queue)
  /\ delivered' = NoDelivery

MessageCall(t) ==
  \/ \E n \in 1 .. MaxQueueSize : CreateMessageQueue(t, n)
  \/ \E q \in QueueId :
       \/ \E m \in Msg : \/ SendMessage(t, q, m)
                         \/ SendMessageNonblocking(t, q, m)
                         \/ JamMessage(t, q, m)
       \/ ReceiveMessage(t, q)
       \/ ReceiveMessageNonblocking(t, q)
       \/ DestroyMessageQueue(t, q)
  \/ PutResumes(t)
  \/ TakeResumes(t)
  \/ DestroyResumes(t)
=============================================================================
