----------------------------- MODULE Filedesc_proofs -----------------------------
(***************************************************************************)
(* Theorems about file descriptors, for any threads, devices, limits and   *)
(* sizes of tables and queues.                                             *)
(***************************************************************************)
EXTENDS Filedesc, FiniteSetTheorems, FunctionTheorems, SequenceTheorems, WellFoundedInduction, TLAPS

Elements(s) == {s[i] : i \in DOMAIN s}
Distinct(s) == \A i, j \in DOMAIN s : s[i] = s[j] => i = j

(* Where a message is: it waits for room, or is in a queue, with a manager *)
(* or in the queue of its thread.                                          *)
Queued(d) == Elements(queue[d])
Caller(m) == IF m \in Extra THEN message[m].user ELSE m
Waits(m) == \E t \in Thread : call[t].op = "send" /\ call[t].message = m
Replied(m) == m \in Thread /\ reply[m] # << >>
Busy(m) == IF m \in Extra THEN message[m].inQueue ELSE call[m].message = m
Server(m) == message[m].server

(* A blocked call, and the message it is about.                            *)
CallOK(t) ==
  LET c == call[t]
      m == message[c.message]
  IN  \/ c = NoCall
      \/ /\ c.op # "none" /\ c.device \in Device
         /\ c.message \in Message /\ Busy(c.message) /\ Caller(c.message) = t
         /\ m.command = c.command /\ m.server = c.device
         /\ c.op = "receive" => c.message = t
         /\ \/ c.command = "open" /\ c.path \in Path /\ c.message = t
            \/ c.command \in {"close", "use"} /\ c.fd \in Fd /\ c.caller = NULL

MessageOK(m) ==
  LET f == message[m]
  IN  Busy(m) =>
        /\ f.server \in Device
        /\ m \in Extra => f.user \in Thread /\ f.caller \in App
        /\ f.command \in {"close", "use"} \/ (f.command = "open" /\ m \in Thread)
        /\ f.command # "open" => f.handle \in Handle

FdOK(p, i) == fds[p][i].device # NULL => fds[p][i].handle # NULL

Typed ==
  /\ TypeOK
  /\ \A d \in Device : Len(queue[d]) <= QueueSize
  /\ \A t \in Thread : CallOK(t)
  /\ \A m \in Message : MessageOK(m)
  /\ \A p \in Process, i \in Fd : FdOK(p, i)

Placed(m) ==
  /\ \A d \in Device : m \in Queued(d) =>
       Busy(m) /\ Server(m) = d /\ m \notin serving[d] /\ ~ Waits(m) /\ ~ Replied(m)
  /\ \A d \in Device : m \in serving[d] =>
       Busy(m) /\ Server(m) = d /\ ~ Waits(m) /\ ~ Replied(m)
  /\ Replied(m) => reply[m] = <<m>> /\ call[m].op = "receive" /\ ~ Waits(m)
  /\ Waits(m) => Busy(m)
  /\ Busy(m) => m \in Queued(Server(m)) \/ m \in serving[Server(m)] \/ Waits(m) \/ Replied(m)
Located ==
  /\ \A d \in Device : Distinct(queue[d])
  /\ \A m \in Message : Placed(m)

(* A message that asynchronous calls pass is with a message of the pool, a *)
(* blocked open or in a queue for replies.                                 *)
Carries(m, a) == m \in Extra /\ message[m].inQueue /\ message[m].caller = a
Opens(t, a) == call[t].caller = a
Posted(p, a) == a \in Elements(callback[p])
OneHolder(a) ==
  /\ \A m, n \in Extra : Carries(m, a) /\ Carries(n, a) => m = n
  /\ \A t, u \in Thread : Opens(t, a) /\ Opens(u, a) => t = u
  /\ \A p, r \in Process : Posted(p, a) /\ Posted(r, a) => p = r
  /\ \A m \in Extra : Carries(m, a) =>
       a \in awaiting /\ (\A t \in Thread : ~ Opens(t, a)) /\ (\A p \in Process : ~ Posted(p, a))
  /\ \A t \in Thread : Opens(t, a) => a \in awaiting /\ (\A p \in Process : ~ Posted(p, a))
  /\ \A p \in Process : Posted(p, a) => a \in awaiting
Answers == (\A p \in Process : Distinct(callback[p])) /\ \A a \in App : OneHolder(a)
Held(a) == \/ \E m \in Extra : Carries(m, a)
           \/ \E t \in Thread : Opens(t, a)
           \/ \E p \in Process : Posted(p, a)
AllCarried == \A a \in awaiting : Held(a)

(* What is known of a handle: the descriptor that names it, an open that   *)
(* is about to be told of it, the requests for it.                         *)
Blocked(t) == call[t].op # "none" /\ call[t].command \in {"close", "use"}
OnHandle(m, d, h) ==
  Busy(m) /\ message[m].server = d /\ message[m].handle = h /\ message[m].command # "open"
Pending(m, d, h) == OnHandle(m, d, h) /\ (m \in Queued(d) \/ Waits(m))
ClosePending(m, d, h) == Pending(m, d, h) /\ message[m].command = "close"
Live(p, i, d, h) == fds[p][i] = [device |-> d, handle |-> h] /\ ~ Closing(p, i)
Told(t, d, h) ==
  /\ Replied(t) /\ message[t].command = "open" /\ message[t].result = h
  /\ message[t].server = d

CallsOwn ==
  \A t \in Thread : Blocked(t) =>
    /\ fds[ProcessOf[t]][call[t].fd].device = call[t].device
    /\ call[t].op = "send" =>
         fds[ProcessOf[t]][call[t].fd].handle = message[call[t].message].handle
    /\ \A u \in Thread \ {t} :
         Blocked(u) /\ ProcessOf[u] = ProcessOf[t] /\ call[u].fd = call[t].fd =>
           call[t].command # "close"
HandleOwned(d, h) ==
  /\ \A p \in Process, i \in Fd : Live(p, i, d, h) =>
       /\ h \in handles[d]
       /\ \A r \in Process, j \in Fd : Live(r, j, d, h) => r = p /\ j = i
       /\ \A m \in Message : ~ ClosePending(m, d, h)
       /\ \A t \in Thread : ~ Told(t, d, h)
  /\ \A m \in Message : Pending(m, d, h) => h \in handles[d] /\ \A t \in Thread : ~ Told(t, d, h)
  /\ \A m, n \in Message : ClosePending(m, d, h) /\ ClosePending(n, d, h) => m = n
  /\ \A t \in Thread : Told(t, d, h) =>
       h \in handles[d] /\ \A u \in Thread : Told(u, d, h) => u = t
Owned ==
  CallsOwn /\ (\A d \in Device, h \in Handle : HandleOwned(d, h)) /\ RequestsAreInTime

-----------------------------------------------------------------------------
(* Sending a message: the thread waits for room, or for the reply, or the  *)
(* call returns.                                                           *)
With(c, op) == [ op |-> op, command |-> c.command, message |-> c.message, device |-> c.device,
                 fd |-> c.fd, path |-> c.path, at |-> c.at, caller |-> c.caller ]
Enqueued(c) ==
  /\ Room(c.device)
  /\ queue' = [queue EXCEPT ![c.device] = Append(queue[c.device], c.message)]
SendWaits(t, c) ==
  /\ call' = [call EXCEPT ![t] = With(c, "send")]
  /\ UNCHANGED <<queue, fds>>
SendAwaits(t, c) ==
  /\ Enqueued(c) /\ c.message \notin Extra
  /\ call' = [call EXCEPT ![t] = With(c, "receive")]
  /\ UNCHANGED fds
SendReturns(t, c) ==
  /\ Enqueued(c) /\ c.message \in Extra
  /\ call' = [call EXCEPT ![t] = NoCall]
  /\ fds' = Closed(t, c)

LEMMA Nothing ==
  /\ NoCall \in BlockedCall /\ NoCall.op = "none" /\ NoCall.fd = NULL /\ NoCall.path = NULL
  /\ NoCall.at = 0 /\ NoCall.caller = NULL /\ NoCall.message = NULL /\ NoCall.command = "none"
  /\ NoMessage \in IpcMessage /\ NoMessage.handle = NULL /\ NoMessage.result = "none"
  /\ NoMessage.caller = NULL /\ NoMessage.user = NULL /\ NoMessage.inQueue = FALSE
  /\ NoFd \in FileDescriptor /\ NoFd.device = NULL
BY LimitsAssumption DEF NoCall, NoMessage, BlockedCall, IpcMessage, Results, NoFd, FileDescriptor

LEMMA SendCases ==
  ASSUME NEW t \in Thread, NEW c \in BlockedCall, Send(t, c)
  PROVE  SendWaits(t, c) \/ SendAwaits(t, c) \/ SendReturns(t, c)
<1>1. \A op \in {"send", "receive"} : [c EXCEPT !.op = op] = With(c, op)
  BY DEF BlockedCall, With
<1> QED  BY <1>1 DEF Send, SendWaits, SendAwaits, SendReturns, Enqueued

LEMMA SendTypes ==
  ASSUME TypeOK, NEW t \in Thread, NEW c \in BlockedCall,
         c.message \in Message, c.device \in Device, c.command = "close" => c.fd \in Fd,
         Send(t, c)
  PROVE  /\ queue' \in [Device -> Seq(Message)]
         /\ call' \in [Thread -> BlockedCall]
         /\ fds' \in [Process -> [Fd -> FileDescriptor]]
<1>1. With(c, "send") \in BlockedCall /\ With(c, "receive") \in BlockedCall
  BY DEF BlockedCall, With
<1>2. NoCall \in BlockedCall
  BY Nothing
<1>3. Append(queue[c.device], c.message) \in Seq(Message)
  BY DEF TypeOK
<1>4. Closed(t, c) \in [Process -> [Fd -> FileDescriptor]]
  BY DEF Closed, TypeOK, Process, FileDescriptor, NoFd
<1>5. call' \in [Thread -> BlockedCall]
  BY <1>1, <1>2, SendCases DEF SendWaits, SendAwaits, SendReturns, TypeOK
<1>6. queue' \in [Device -> Seq(Message)]
  BY <1>3, SendCases DEF SendWaits, SendAwaits, SendReturns, Enqueued, TypeOK
<1>7. fds' \in [Process -> [Fd -> FileDescriptor]]
  BY <1>4, SendCases DEF SendWaits, SendAwaits, SendReturns, TypeOK
<1> QED  BY <1>5, <1>6, <1>7

-----------------------------------------------------------------------------
(* The variables keep their types.                                         *)
LEMMA ExtraFacts ==
  /\ Extra \subseteq Message /\ Thread \subseteq Message /\ Extra \cap Thread = {}
  /\ \A m \in Message : m \notin Extra => m \in Thread
BY NamesAssumption DEF Extra, Message

LEMMA First ==
  ASSUME NEW S, S \subseteq Nat, S # {}
  PROVE  FirstOf(S) \in S /\ \A j \in S : FirstOf(S) <= j
<1> DEFINE R == OpToRel(<, Nat)
<1>1. IsWellFoundedOn(R, Nat)  BY NatLessThanWellFounded
<1>2. \A x, y \in Nat : x < y => <<x, y>> \in R  BY DEF OpToRel
<1> HIDE DEF R
<1>3. PICK x \in S : \A y \in S : ~ (<<y, x>> \in R)  BY <1>1, WFMin
<1>4. \A y \in S : ~ (y < x)  BY <1>2, <1>3
<1>5. \A y \in S : x <= y  BY <1>4
<1> QED  BY <1>5 DEF FirstOf

LEMMA NextManager ==
  ASSUME TypeOK, NEW path, NEW i \in Nat, i >= 1, Candidates(path, i) # {}
  PROVE  LET j == FirstOf(Candidates(path, i))
         IN j \in 0 .. MaxDevices /\ j \in 1 .. Len(resources) /\ resources[j] \in Device
<1>1. Len(resources) \in Nat /\ Len(resources) <= MaxDevices
  BY DEF TypeOK
<1>2. Candidates(path, i) \subseteq 1 .. Len(resources) /\ Candidates(path, i) \subseteq Nat
  BY <1>1 DEF Candidates
<1>3. FirstOf(Candidates(path, i)) \in 1 .. Len(resources)
  BY <1>2, First
<1> QED  BY <1>1, <1>3, LimitsAssumption DEF TypeOK

OpenOf(t, path, j, a) ==
  [ op |-> "none", command |-> "open", message |-> t, device |-> resources[j], fd |-> NULL,
    path |-> path, at |-> j, caller |-> a ]
OpenMessage(d) == [ command |-> "open", handle |-> NULL, result |-> "none", caller |-> NULL,
                    user |-> NULL, server |-> d, inQueue |-> FALSE ]

(* An open fails, or asks the next manager.                                *)
Asks(t, path, j, a) ==
  /\ j \in 1 .. Len(resources) /\ resources[j] \in Device
  /\ OpenOf(t, path, j, a) \in BlockedCall
  /\ message' = [message EXCEPT ![t] = OpenMessage(resources[j])]
  /\ Send(t, OpenOf(t, path, j, a))
  /\ awaiting' = awaiting \cup ({a} \ {NULL})
  /\ UNCHANGED callback

LEMMA AskCases ==
  ASSUME TypeOK, NEW t \in Thread, NEW path \in Path, NEW i \in Nat, i >= 1,
         NEW a \in App \cup {NULL}, AskFrom(t, path, i, a)
  PROVE  OpenFails(t, a) \/ \E j \in Nat : Asks(t, path, j, a)
<1>1. CASE Candidates(path, i) = {}
  BY <1>1 DEF AskFrom
<1>2. CASE Candidates(path, i) # {}
  <2> DEFINE j == FirstOf(Candidates(path, i))
  <2>1. j \in 0 .. MaxDevices /\ j \in 1 .. Len(resources) /\ resources[j] \in Device /\ j \in Nat
    BY <1>2, NextManager, LimitsAssumption
  <2> HIDE DEF j
  <2> DEFINE c == [NoCall EXCEPT !.command = "open", !.message = t, !.device = resources[j],
                                 !.path = path, !.at = j, !.caller = a]
             m == [NoMessage EXCEPT !.command = "open", !.server = resources[j]]
  <2>2. c = OpenOf(t, path, j, a)
    <3>1. /\ c \in BlockedCall
          /\ c.op = "none" /\ c.command = "open" /\ c.message = t /\ c.device = resources[j]
          /\ c.fd = NULL /\ c.path = path /\ c.at = j /\ c.caller = a
      BY <2>1, Nothing, ExtraFacts DEF BlockedCall
    <3> HIDE DEF c
    <3> QED  BY <3>1 DEF BlockedCall, OpenOf
  <2>3. m = OpenMessage(resources[j])
    <3>1. /\ m \in IpcMessage
          /\ m.command = "open" /\ m.handle = NULL /\ m.result = "none" /\ m.caller = NULL
          /\ m.user = NULL /\ m.server = resources[j] /\ m.inQueue = FALSE
      BY <2>1, Nothing DEF IpcMessage
    <3> HIDE DEF m
    <3> QED  BY <3>1 DEF IpcMessage, OpenMessage
  <2>4. OpenOf(t, path, j, a) \in BlockedCall
    BY <2>1, ExtraFacts DEF OpenOf, BlockedCall
  <2>5. /\ message' = [message EXCEPT ![t] = OpenMessage(resources[j])]
        /\ Send(t, OpenOf(t, path, j, a))
        /\ awaiting' = awaiting \cup ({a} \ {NULL})
        /\ UNCHANGED callback
    BY <1>2, <2>2, <2>3 DEF AskFrom, j
  <2> QED  BY <2>1, <2>4, <2>5 DEF Asks
<1> QED  BY <1>1, <1>2

(* What can be sent: the message of the thread, or one of the pool that it *)
(* has taken, and nobody else is at work with it.                          *)
Sendable(t, c) ==
  /\ c \in BlockedCall
  /\ c.message \in Extra \/ c.message = t
  /\ c.device \in Device
  /\ \/ c.command = "open" /\ c.path \in Path /\ c.message = t
     \/ c.command \in {"close", "use"} /\ c.fd \in Fd /\ c.caller = NULL
  /\ \A u \in Thread \ {t} : call[u] # NoCall => call[u].message # c.message

(* The message as it is when it is sent.                                   *)
Written(t, c) ==
  LET m == message'[c.message]
  IN  /\ message' \in [Message -> IpcMessage]
      /\ \A n \in Message : n # c.message => message'[n] = message[n]
      /\ m.command = c.command /\ m.server = c.device
      /\ c.message \in Extra => m.inQueue /\ m.user = t /\ m.caller \in App
      /\ m.command # "open" => m.handle \in Handle

LEMMA SendTyped ==
  ASSUME Typed, NEW t \in Thread, NEW c, Sendable(t, c), Written(t, c), Send(t, c)
  PROVE  /\ queue' \in [Device -> Seq(Message)]
         /\ call' \in [Thread -> BlockedCall]
         /\ fds' \in [Process -> [Fd -> FileDescriptor]]
         /\ \A d \in Device : Len(queue'[d]) <= QueueSize
         /\ \A u \in Thread : CallOK(u)'
         /\ \A m \in Message : MessageOK(m)'
         /\ \A p \in Process, i \in Fd : FdOK(p, i)'
<1>0. TypeOK /\ c \in BlockedCall
  BY DEF Typed, Sendable
<1>1. c.message \in Message /\ c.device \in Device /\ (c.command = "close" => c.fd \in Fd)
  BY ExtraFacts DEF Sendable
<1>2. /\ queue' \in [Device -> Seq(Message)] /\ call' \in [Thread -> BlockedCall]
      /\ fds' \in [Process -> [Fd -> FileDescriptor]]
  BY <1>0, <1>1, SendTypes
<1>3. SendWaits(t, c) \/ SendAwaits(t, c) \/ SendReturns(t, c)
  BY <1>0, SendCases
<1>4. ASSUME NEW d \in Device PROVE Len(queue'[d]) <= QueueSize
  <2>1. Len(queue[d]) <= QueueSize /\ queue[d] \in Seq(Message)
    BY DEF Typed, TypeOK
  <2>2. CASE queue' = queue
    BY <2>1, <2>2
  <2>3. CASE Enqueued(c)
    <3>1. CASE d = c.device
      <4>1. Len(queue[d]) < QueueSize /\ queue'[d] = Append(queue[d], c.message)
        BY <2>3, <3>1, <1>0 DEF Enqueued, Room, TypeOK
      <4>2. Len(queue'[d]) = Len(queue[d]) + 1
        BY <4>1, <2>1, <1>1, AppendProperties
      <4> QED  BY <4>1, <4>2, <2>1, LimitsAssumption
    <3>2. CASE d # c.device
      BY <2>1, <2>3, <3>2, <1>0 DEF Enqueued, TypeOK
    <3> QED  BY <3>1, <3>2
  <2> QED  BY <2>2, <2>3, <1>3 DEF SendWaits, SendAwaits, SendReturns
<1>5. \A u \in Thread \ {t} : call'[u] = call[u]
  BY <1>0, <1>3 DEF SendWaits, SendAwaits, SendReturns, TypeOK
<1>6. \/ call'[t] = NoCall /\ c.message \in Extra
      \/ call'[t] = With(c, "send")
      \/ call'[t] = With(c, "receive") /\ c.message = t
  BY <1>0, <1>3, ExtraFacts DEF SendWaits, SendAwaits, SendReturns, TypeOK, Sendable
<1>7. ASSUME NEW u \in Thread PROVE CallOK(u)'
  <2>1. CASE u # t
    <3>1. call'[u] = call[u] /\ CallOK(u)
      BY <2>1, <1>5 DEF Typed
    <3>2. CASE call[u] = NoCall
      BY <3>1, <3>2 DEF CallOK
    <3>3. CASE call[u] # NoCall
      <4>1. call[u].message \in Message /\ call[u].message # c.message
            /\ (call[u].message \in Thread => call[u].message = u)
        BY <3>1, <3>3, <2>1, ExtraFacts DEF Sendable, CallOK, Caller
      <4>2. message'[call[u].message] = message[call[u].message]
        BY <4>1 DEF Written
      <4>3. Busy(call[u].message)' /\ Caller(call[u].message)' = u
        BY <3>1, <3>3, <4>1, <4>2, ExtraFacts DEF CallOK, Busy, Caller
      <4> QED  BY <3>1, <3>3, <4>2, <4>3 DEF CallOK
    <3> QED  BY <3>2, <3>3
  <2>2. CASE u = t
    <3>1. CASE call'[t] = NoCall
      BY <3>1, <2>2 DEF CallOK
    <3>2. CASE call'[t] # NoCall
      <4>1. PICK op \in {"send", "receive"} : call'[t] = With(c, op) /\ (op = "receive" => c.message = t)
        BY <3>2, <1>6
      <4>2. /\ call'[t].op = op /\ call'[t].device = c.device /\ call'[t].message = c.message
            /\ call'[t].command = c.command /\ call'[t].path = c.path /\ call'[t].fd = c.fd
            /\ call'[t].caller = c.caller
        BY <4>1 DEF With
      <4>3. Busy(c.message)' /\ Caller(c.message)' = t
        BY <4>2, ExtraFacts DEF Busy, Caller, Sendable, Written
      <4>4. /\ c.message \in Message /\ c.device \in Device
            /\ message'[c.message].command = c.command /\ message'[c.message].server = c.device
            /\ \/ c.command = "open" /\ c.path \in Path /\ c.message = t
               \/ c.command \in {"close", "use"} /\ c.fd \in Fd /\ c.caller = NULL
        BY ExtraFacts DEF Sendable, Written
      <4> HIDE DEF Busy, Caller, With
      <4> QED  BY <4>1, <4>2, <4>3, <4>4, <2>2 DEF CallOK
    <3> QED  BY <3>1, <3>2
  <2> QED  BY <2>1, <2>2
<1>8. ASSUME NEW m \in Message PROVE MessageOK(m)'
  <2>1. CASE m = c.message
    BY <2>1, ExtraFacts DEF Sendable, Written, MessageOK
  <2>2. CASE m # c.message
    <3>1. message'[m] = message[m] /\ MessageOK(m)
      BY <2>2 DEF Written, Typed
    <3>2. CASE m \in Extra
      BY <3>1, <3>2, ExtraFacts DEF MessageOK, Busy
    <3>3. CASE m \in Thread /\ m # t
      <4>1. call'[m] = call[m]
        BY <3>3, <1>5
      <4> QED  BY <3>1, <3>3, <4>1, ExtraFacts DEF MessageOK, Busy
    <3>4. CASE m = t
      <4>1. ~ Busy(m)'
        BY <3>4, <2>2, <1>6, ExtraFacts, Nothing, NamesAssumption DEF Busy, With
      <4> QED  BY <4>1 DEF MessageOK
    <3> QED  BY <3>2, <3>3, <3>4, ExtraFacts
  <2> QED  BY <2>1, <2>2
<1>9. ASSUME NEW p \in Process, NEW i \in Fd PROVE FdOK(p, i)'
  <2>1. fds'[p][i] = fds[p][i] \/ fds'[p][i] = NoFd
    <3>1. CASE fds' = fds
      BY <3>1
    <3>2. CASE fds' = Closed(t, c)
      BY <3>2, <1>0 DEF Closed, TypeOK
    <3> QED  BY <3>1, <3>2, <1>3 DEF SendWaits, SendAwaits, SendReturns
  <2> QED  BY <2>1, Nothing DEF FdOK, Typed
<1> QED  BY <1>2, <1>4, <1>7, <1>8, <1>9

(* A call is done, and the message of its thread unused.                   *)
LEMMA DoneTyped ==
  ASSUME Typed, NEW t \in Thread,
         call' = [call EXCEPT ![t] = NoCall], message' = [message EXCEPT ![t] = NoMessage]
  PROVE  /\ call' \in [Thread -> BlockedCall] /\ message' \in [Message -> IpcMessage]
         /\ \A u \in Thread : CallOK(u)'
         /\ \A m \in Message : MessageOK(m)'
<1>0. TypeOK /\ t \in Message
  BY ExtraFacts DEF Typed
<1>1. call' \in [Thread -> BlockedCall] /\ message' \in [Message -> IpcMessage]
  BY <1>0, Nothing DEF TypeOK
<1>2. /\ call'[t] = NoCall /\ \A u \in Thread \ {t} : call'[u] = call[u]
      /\ \A m \in Message \ {t} : message'[m] = message[m]
  BY <1>0 DEF TypeOK
<1>3. ASSUME NEW u \in Thread PROVE CallOK(u)'
  <2>1. CASE call'[u] = NoCall
    BY <2>1 DEF CallOK
  <2>2. CASE call'[u] # NoCall
    <3>1. u # t /\ call'[u] = call[u] /\ CallOK(u)
      BY <2>2, <1>2 DEF Typed
    <3>2. call[u].message \in Message \ {t} /\ (call[u].message \in Thread => call[u].message = u)
      BY <2>2, <3>1, ExtraFacts DEF CallOK, Caller
    <3>3. message'[call[u].message] = message[call[u].message]
      BY <3>2, <1>2
    <3>4. Busy(call[u].message)' /\ Caller(call[u].message)' = u
      BY <2>2, <3>1, <3>2, <3>3, ExtraFacts DEF CallOK, Busy, Caller
    <3> QED  BY <2>2, <3>1, <3>3, <3>4 DEF CallOK
  <2> QED  BY <2>1, <2>2
<1>4. ASSUME NEW m \in Message PROVE MessageOK(m)'
  <2>1. CASE m = t
    BY <2>1, <1>2, ExtraFacts, Nothing, NamesAssumption DEF MessageOK, Busy
  <2>2. CASE m # t
    BY <2>2, <1>2, ExtraFacts DEF Typed, MessageOK, Busy
  <2> QED  BY <2>1, <2>2
<1> QED  BY <1>1, <1>3, <1>4

(* What each action does, with the records written out.                    *)
LEMMA ThreadSendable ==
  ASSUME Typed, NEW t \in Thread, NEW j \in Nat, NEW path \in Path, NEW a, Asks(t, path, j, a)
  PROVE  LET c == OpenOf(t, path, j, a)
         IN  /\ Sendable(t, c) /\ Written(t, c) /\ Send(t, c)
             /\ c.command = "open" /\ c.message = t /\ c.device = resources[j] /\ c.caller = a
             /\ c.path = path /\ c.fd = NULL
             /\ message'[t] = OpenMessage(resources[j])
<1> DEFINE c == OpenOf(t, path, j, a)
<1>1. /\ c.command = "open" /\ c.message = t /\ c.device = resources[j] /\ c.caller = a
      /\ c.path = path /\ c.fd = NULL
  BY DEF OpenOf
<1>2. /\ resources[j] \in Device /\ c \in BlockedCall /\ Send(t, c)
      /\ message' = [message EXCEPT ![t] = OpenMessage(resources[j])]
  BY DEF Asks
<1> HIDE DEF c
<1>3. ASSUME NEW u \in Thread \ {t}, call[u] # NoCall PROVE call[u].message # t
  BY <1>3, ExtraFacts DEF Typed, CallOK, Caller
<1>4. Sendable(t, c)
  BY <1>1, <1>2, <1>3 DEF Sendable
<1>5. OpenMessage(resources[j]) \in IpcMessage
  BY <1>2 DEF OpenMessage, IpcMessage, Results
<1>6. /\ message' \in [Message -> IpcMessage] /\ message'[t] = OpenMessage(resources[j])
      /\ \A n \in Message : n # t => message'[n] = message[n]
  BY <1>2, <1>5, ExtraFacts DEF Typed, TypeOK
<1>7. Written(t, c)
  BY <1>1, <1>6, ExtraFacts DEF Written, OpenMessage
<1> QED  BY <1>1, <1>2, <1>4, <1>6, <1>7 DEF c

LEMMA ResumeSendable ==
  ASSUME Typed, NEW t \in Thread, call[t].op = "send", UNCHANGED message
  PROVE  LET c == call[t]
         IN  Sendable(t, c) /\ Written(t, c)
<1>1. call[t] # NoCall /\ CallOK(t)
  BY Nothing DEF Typed
<1>2. call[t] \in BlockedCall /\ call[t].message \in Message /\ MessageOK(call[t].message)
  BY <1>1 DEF Typed, TypeOK, CallOK
<1>3. call[t].message \in Extra \/ call[t].message = t
  BY <1>1, <1>2, ExtraFacts DEF CallOK, Caller
<1>4. ASSUME NEW u \in Thread \ {t}, call[u] # NoCall PROVE call[u].message # call[t].message
  BY <1>1, <1>4 DEF Typed, CallOK
<1>5. Sendable(t, call[t])
  BY <1>1, <1>2, <1>3, <1>4 DEF Sendable, CallOK
<1>6. Written(t, call[t])
  BY <1>1, <1>2, ExtraFacts DEF Written, CallOK, MessageOK, Busy, Caller, Typed, TypeOK
<1> QED  BY <1>5, <1>6

CallOf(i, command, m, d) ==
  [ op |-> "none", command |-> command, message |-> m, device |-> d, fd |-> i,
    path |-> NULL, at |-> 0, caller |-> NULL ]
MessageFor(t, i, command, a) ==
  [ command |-> command, handle |-> fds[ProcessOf[t]][i].handle, result |-> "none", caller |-> a,
    user |-> IF a = NULL THEN NULL ELSE t, server |-> fds[ProcessOf[t]][i].device,
    inQueue |-> a # NULL ]

LEMMA CallSendable ==
  ASSUME Typed, NEW t \in Thread, NEW i \in Fd, NEW command \in {"close", "use"},
         NEW a \in App \cup {NULL}, CallFD_Inner(t, i, command, a)
  PROVE  LET m == IF a = NULL THEN t ELSE FirstOf(FreeExtra)
             c == CallOf(i, command, m, fds[ProcessOf[t]][i].device)
         IN  /\ Sendable(t, c) /\ Written(t, c) /\ Send(t, c)
             /\ m \in Message /\ ~ Busy(m)
             /\ a = NULL => m = t
             /\ a # NULL => m \in Extra /\ Available(t)
             /\ c.command = command /\ c.message = m /\ c.fd = i /\ c.caller = NULL
             /\ c.device = fds[ProcessOf[t]][i].device /\ c.device # NULL /\ c.device \in Device
             /\ message'[m] = MessageFor(t, i, command, a)
             /\ call[t] = NoCall
<1> DEFINE m == IF a = NULL THEN t ELSE FirstOf(FreeExtra)
           f == fds[ProcessOf[t]][i]
           c == CallOf(i, command, m, f.device)
           d == [NoCall EXCEPT !.command = command, !.message = m, !.device = f.device, !.fd = i]
<1>1. /\ call[t].op = "none" /\ f.device # NULL
      /\ a # NULL => Available(t)
      /\ message' = [message EXCEPT ![m] = MessageFor(t, i, command, a)]
      /\ Send(t, d)
  BY DEF CallFD_Inner, InUser, IsIdValidForProcess, GetProcessFd, MessageFor
<1>2. call[t] = NoCall
  BY <1>1 DEF Typed, CallOK
<1>3. f \in FileDescriptor /\ f.device \in Device /\ f.handle \in Handle
  <2>1. f \in FileDescriptor /\ FdOK(ProcessOf[t], i)
    BY DEF Typed, TypeOK, Process
  <2>2. f.handle # NULL
    BY <2>1, <1>1 DEF FdOK
  <2> QED  BY <2>1, <2>2, <1>1 DEF FileDescriptor
<1>4. a # NULL => m \in Extra /\ ~ message[m].inQueue
  <2>1. FreeExtra \subseteq Nat
    BY LimitsAssumption DEF FreeExtra, Extra
  <2> QED  BY <2>1, <1>1, First DEF Available, FreeExtra
<1>5. m \in Message /\ ~ Busy(m)
  BY <1>2, <1>4, ExtraFacts, Nothing, NamesAssumption DEF Busy
<1>6. (m \in Extra \/ m = t) /\ (m \in Extra <=> a # NULL)
  BY <1>4, ExtraFacts
<1> HIDE DEF m, f
<1>7. d = c
  <2>1. /\ d \in BlockedCall
        /\ d.op = "none" /\ d.command = command /\ d.message = m /\ d.device = f.device
        /\ d.fd = i /\ d.path = NULL /\ d.at = 0 /\ d.caller = NULL
    BY <1>3, <1>5, Nothing DEF BlockedCall
  <2> HIDE DEF d
  <2> QED  BY <2>1 DEF BlockedCall, CallOf
<1> HIDE DEF d
<1>8. c.command = command /\ c.message = m /\ c.fd = i /\ c.caller = NULL /\ c.device = f.device
  BY DEF CallOf
<1>9. c \in BlockedCall
  BY <1>3, <1>5, LimitsAssumption DEF CallOf, BlockedCall
<1> HIDE DEF c
<1>10. ASSUME NEW u \in Thread \ {t}, call[u] # NoCall PROVE call[u].message # m
  BY <1>10, <1>5, <1>6, ExtraFacts DEF Typed, CallOK, Caller
<1>11. Sendable(t, c)
  BY <1>3, <1>6, <1>8, <1>9, <1>10 DEF Sendable
<1>12. MessageFor(t, i, command, a) \in IpcMessage
  BY <1>3 DEF MessageFor, IpcMessage, Results, f
<1>13. /\ message' \in [Message -> IpcMessage] /\ message'[m] = MessageFor(t, i, command, a)
       /\ \A n \in Message : n # m => message'[n] = message[n]
  BY <1>1, <1>5, <1>12 DEF Typed, TypeOK
<1>14. Written(t, c)
  <2>1. /\ message'[m].command = command /\ message'[m].server = f.device
        /\ message'[m].handle = f.handle
        /\ a # NULL => message'[m].inQueue /\ message'[m].user = t /\ message'[m].caller = a
    <3>1. MessageFor(t, i, command, a) =
            [ command |-> command, handle |-> f.handle, result |-> "none", caller |-> a,
              user |-> IF a = NULL THEN NULL ELSE t, server |-> f.device, inQueue |-> a # NULL ]
      BY DEF MessageFor, f
    <3>2. ASSUME a # NULL PROVE message'[m].inQueue = TRUE
      <4>1. MessageFor(t, i, command, a).inQueue = (a # NULL)
        BY ONLY <3>1
      <4> QED  BY <1>13, <3>2, <4>1
    <3>3. message'[m].user = IF a = NULL THEN NULL ELSE t
      BY ONLY <1>13, <3>1
    <3>4. /\ message'[m].command = command /\ message'[m].server = f.device
          /\ message'[m].handle = f.handle /\ message'[m].caller = a
      BY ONLY <1>13, <3>1
    <3> QED  BY <3>2, <3>3, <3>4
  <2> QED  BY <2>1, <1>3, <1>6, <1>8, <1>13 DEF Written
<1>15. Send(t, c)
  BY <1>1, <1>7
<1>16. c.device # NULL /\ c.device \in Device
  BY <1>1, <1>3, <1>8
<1>17. a = NULL => m = t
  BY DEF m
<1>18. a # NULL => m \in Extra /\ Available(t)
  BY <1>1, <1>4
<1>19. message'[m] = MessageFor(t, i, command, a)
  BY <1>13
<1> QED  BY <1>2, <1>5, <1>8, <1>11, <1>14, <1>15, <1>16, <1>17, <1>18, <1>19 DEF c, m, f

-----------------------------------------------------------------------------
(* What a step does: one of the calls begins or goes on, a manager takes a *)
(* request or answers one, or a program takes a reply.                     *)
Received(t) == call[t].op = "receive" /\ reply[t] # << >> /\ reply' = [reply EXCEPT ![t] = Tail(@)]
NewCaller(a) == a \in App \cup {NULL} /\ a \notin awaiting
Ends(t) == call' = [call EXCEPT ![t] = NoCall] /\ message' = [message EXCEPT ![t] = NoMessage]

OpenBegins(t, path, j, a) ==
  /\ path \in Path /\ j \in Nat /\ NewCaller(a) /\ call[t] = NoCall /\ Asks(t, path, j, a)
  /\ UNCHANGED <<resources, usage, reply, serving, handles>>
OpenGoesOn(t, j) ==
  /\ j \in Nat /\ call[t].command = "open" /\ message[t].result = "ENOENT" /\ Received(t)
  /\ call[t].path \in Path
  /\ Asks(t, call[t].path, j, call[t].caller)
  /\ UNCHANGED <<resources, usage, serving, handles>>
OpenRefused(t) ==
  /\ call[t] = NoCall /\ Ends(t)
  /\ UNCHANGED <<resources, fds, usage, queue, reply, callback, serving, handles, awaiting>>
OpenFailed(t) ==
  /\ call[t].command = "open" /\ Received(t) /\ Ends(t)
  /\ awaiting' = awaiting \ {call[t].caller}
  /\ UNCHANGED <<resources, fds, usage, queue, callback, serving, handles>>
Opened(t) ==
  /\ call[t].command = "open" /\ message[t].result \in Handle /\ Received(t) /\ Ends(t)
  /\ NewFd(ProcessOf[t]) # {}
  /\ OpenSucceeds(t, call[t], message[t].result)
  /\ UNCHANGED <<resources, usage, serving, handles>>
CallSent(t, i, command, a) ==
  /\ i \in Fd /\ command \in {"close", "use"} /\ NewCaller(a) /\ Undisturbed(t, i, command)
  /\ CallFD_Inner(t, i, command, a)
AnswersThread(d, t, result) ==
  /\ t \in Thread \cap serving[d] /\ result \in Results
  /\ ReplyToThread(d, t, result)
  /\ serving' = [serving EXCEPT ![d] = @ \ {t}]
  /\ \/ /\ message[t].command = "open" /\ result \in Handle \ handles[d]
        /\ handles' = [handles EXCEPT ![d] = @ \cup {result}]
     \/ message[t].command = "open" /\ result \in {"ENOENT", "error"} /\ UNCHANGED handles
     \/ message[t].command # "open" /\ UNCHANGED handles
  /\ UNCHANGED <<resources, fds, queue, call, awaiting>>
AnswersCallback(d, m) ==
  /\ m \in Extra \cap serving[d]
  /\ ReplyToCallback(d, m)
  /\ serving' = [serving EXCEPT ![d] = @ \ {m}]
  /\ UNCHANGED <<resources, fds, queue, call, awaiting, handles>>

LEMMA OpenCases ==
  ASSUME Typed, NEW t \in Thread, NEW path \in Path, NEW a \in App \cup {NULL}, a \notin awaiting,
         OpenFD_Inner(t, path, a)
  PROVE  OpenRefused(t) \/ \E j \in Nat : OpenBegins(t, path, j, a)
<1>1. /\ call[t].op = "none" /\ AskFrom(t, path, 1, a)
      /\ UNCHANGED <<resources, usage, reply, serving, handles>>
  BY DEF OpenFD_Inner, InUser
<1>2. call[t] = NoCall
  BY <1>1 DEF Typed, CallOK
<1>3. CASE OpenFails(t, a)
  <2>1. awaiting \ {a} = awaiting
    OBVIOUS
  <2> QED  BY <1>1, <1>2, <1>3, <2>1 DEF OpenFails, OpenRefused, Ends
<1>4. CASE \E j \in Nat : Asks(t, path, j, a)
  BY <1>1, <1>2, <1>4 DEF OpenBegins, NewCaller
<1> QED  BY <1>1, <1>3, <1>4, AskCases DEF Typed

LEMMA ReceiveCases ==
  ASSUME Typed, NEW t \in Thread, OpenReceives(t)
  PROVE  OpenFailed(t) \/ Opened(t) \/ \E j \in Nat : OpenGoesOn(t, j)
<1> DEFINE c == call[t]
<1>1. /\ c.op = "receive" /\ c.command = "open" /\ Received(t)
      /\ UNCHANGED <<resources, usage, serving, handles>>
  BY DEF OpenReceives, Received
<1>2. c \in BlockedCall /\ c.path \in Path /\ c.caller \in App \cup {NULL} /\ c.at \in Nat
  <2>1. c \in BlockedCall /\ CallOK(t)
    BY DEF Typed, TypeOK
  <2> QED  BY <2>1, <1>1, Nothing, LimitsAssumption DEF CallOK, BlockedCall
<1>3. CASE OpenFails(t, c.caller)
  BY <1>1, <1>3 DEF OpenFails, OpenFailed, Ends
<1>4. CASE message[t].result = "ENOENT" /\ AskFrom(t, c.path, c.at + 1, c.caller)
  <2>1. OpenFails(t, c.caller) \/ \E j \in Nat : Asks(t, c.path, j, c.caller)
    BY <1>2, <1>4, AskCases DEF Typed
  <2> QED  BY <1>1, <1>2, <1>3, <1>4, <2>1 DEF OpenGoesOn
<1>5. CASE /\ message[t].result \in Handle /\ NewFd(ProcessOf[t]) # {}
           /\ OpenSucceeds(t, c, message[t].result)
  BY <1>1, <1>5 DEF OpenSucceeds, Opened, Ends
<1>6. CASE message[t].result = "ENOENT"
  BY <1>4, <1>6, NamesAssumption DEF OpenReceives
<1>7. CASE message[t].result # "ENOENT"
  <2>1. CASE message[t].result \in Handle /\ NewFd(ProcessOf[t]) # {}
    BY <1>5, <1>7, <2>1 DEF OpenReceives
  <2>2. CASE ~ (message[t].result \in Handle /\ NewFd(ProcessOf[t]) # {})
    BY <1>3, <1>7, <2>2 DEF OpenReceives
  <2> QED  BY <2>1, <2>2
<1> QED  BY <1>6, <1>7

LEMMA AnswerCases ==
  ASSUME Typed, Located, NEW d \in Device, NEW m \in serving[d], Answer(d, m)
  PROVE  AnswersCallback(d, m) \/ \E result \in Results : AnswersThread(d, m, result)
<1>1. m \in Message /\ Busy(m) /\ MessageOK(m)
  BY DEF Typed, TypeOK, Located, Placed
<1>2. m \in Extra => message[m].command # "open"
  BY <1>1, ExtraFacts DEF MessageOK
<1>3. ASSUME NEW result \in Results, ResourceReply(d, m, result)
      PROVE  /\ \/ m \in Thread /\ ReplyToThread(d, m, result)
                \/ m \in Extra /\ ReplyToCallback(d, m)
             /\ serving' = [serving EXCEPT ![d] = @ \ {m}]
             /\ UNCHANGED <<resources, fds, queue, call, awaiting>>
  BY <1>3 DEF ResourceReply, ReplyToThread, ReplyToCallback
<1>4. CASE \E h \in Handle \ handles[d] :
             ResourceReply(d, m, h) /\ handles' = [handles EXCEPT ![d] = @ \cup {h}]
           /\ message[m].command = "open"
  BY <1>2, <1>3, <1>4 DEF AnswersThread, Results
<1>5. CASE /\ message[m].command = "open"
           /\ \E result \in {"ENOENT", "error"} : ResourceReply(d, m, result) /\ UNCHANGED handles
  BY <1>2, <1>3, <1>5 DEF AnswersThread, Results
<1>6. CASE message[m].command # "open" /\ ResourceReply(d, m, "ok") /\ UNCHANGED handles
  BY <1>2, <1>3, <1>6 DEF AnswersThread, AnswersCallback, Results
<1> QED  BY <1>4, <1>5, <1>6 DEF Answer

Answered(d, m) == AnswersCallback(d, m) \/ \E result \in Results : AnswersThread(d, m, result)
ThreadStep(t) ==
  \/ \E path \in Path, j \in Nat, a \in App \cup {NULL} : OpenBegins(t, path, j, a)
  \/ \E j \in Nat : OpenGoesOn(t, j)
  \/ OpenRefused(t) \/ OpenFailed(t) \/ Opened(t)
  \/ \E i \in Fd, command \in {"close", "use"}, a \in App \cup {NULL} : CallSent(t, i, command, a)
  \/ SendResumes(t) \/ CallReceives(t)
Step ==
  \/ \E d \in Device : RegisterResourceManager(d) \/ TakeRequest(d)
  \/ \E d \in Device, m \in Message : Answered(d, m)
  \/ \E p \in Process : TakeCallback(p)
  \/ \E t \in Thread : ThreadStep(t)
  \/ UNCHANGED vars

LEMMA StepCases == ASSUME Typed, Located, [Next]_vars PROVE Step
<1> USE DEF Step, ThreadStep
<1>1. ASSUME NEW t \in Thread, System(t) PROVE Step
  <2>1. Passes[t] \subseteq App \cup {NULL}
    BY NamesAssumption
  <2>2. NULL \notin awaiting
    BY NamesAssumption DEF Typed, TypeOK
  <2>3. ASSUME NEW path \in Path, NULL \in Passes[t] /\ OpenFD(t, path) PROVE Step
    BY <2>2, <2>3, OpenCases DEF OpenFD
  <2>4. ASSUME NEW path \in Path, NEW a \in Passes[t] \ awaiting, OpenFDAsync(t, path, a) PROVE Step
    BY <2>1, <2>4, OpenCases DEF OpenFDAsync
  <2>5. ASSUME NEW i \in Fd, NEW command \in {"close", "use"}, Undisturbed(t, i, command),
               CallFD(t, i, command)
        PROVE  Step
    BY <2>2, <2>5 DEF CallFD, CallSent, NewCaller
  <2>6. ASSUME NEW i \in Fd, NEW command \in {"close", "use"}, Undisturbed(t, i, command),
               NEW a \in Passes[t] \ awaiting, CallFDAsync(t, i, command, a)
        PROVE  Step
    BY <2>1, <2>6 DEF CallFDAsync, CallSent, NewCaller
  <2>7. ASSUME NEW i \in Fd, CallRefused(t, i) PROVE Step
    <3>1. usage' = usage
      <4>1. usage \in [Thread -> Nat]
        BY DEF Typed, TypeOK
      <4> QED  BY <2>7, <4>1 DEF CallRefused, GivenBack
    <3> QED  BY <2>7, <3>1 DEF CallRefused, vars, kernelVars
  <2>8. CASE OpenReceives(t)
    BY <2>8, ReceiveCases
  <2> QED  BY <1>1, <2>3, <2>4, <2>5, <2>6, <2>7, <2>8 DEF System
<1>2. ASSUME NEW d \in Device, NEW m \in serving[d], Answer(d, m) PROVE Step
  <2>1. m \in Message
    BY DEF Typed, TypeOK
  <2> QED  BY <1>2, <2>1, AnswerCases DEF Answered
<1> QED  BY <1>1, <1>2 DEF Next

-----------------------------------------------------------------------------
(* Most steps either send a message, which before was in the hands of its  *)
(* thread, or end a call.                                                  *)
InHand(t, m) ==
  \/ ~ Busy(m) /\ UNCHANGED reply
  \/ Waits(m) /\ UNCHANGED reply
  \/ m = t /\ Received(t)
Sends(t, c) ==
  /\ Sendable(t, c) /\ Written(t, c) /\ Send(t, c)
  /\ call[t] = NoCall \/ (call[t].message = c.message /\ Caller(c.message) = t)
  /\ InHand(t, c.message) /\ UNCHANGED <<resources, serving, handles>>
Done(t) ==
  /\ Ends(t)
  /\ (call[t] = NoCall /\ UNCHANGED reply) \/ (call[t].message = t /\ Received(t))
  /\ UNCHANGED <<resources, usage, queue, serving, handles>>

LEMMA SendSteps ==
  ASSUME Typed, Located, NEW t \in Thread
  PROVE  /\ \A path \in Path, j \in Nat, a \in App \cup {NULL} :
              OpenBegins(t, path, j, a) => Sends(t, OpenOf(t, path, j, a))
         /\ \A j \in Nat :
              OpenGoesOn(t, j) => Sends(t, OpenOf(t, call[t].path, j, call[t].caller))
         /\ \A i \in Fd, command \in {"close", "use"}, a \in App \cup {NULL} :
              CallSent(t, i, command, a) =>
                Sends(t, CallOf(i, command, IF a = NULL THEN t ELSE FirstOf(FreeExtra),
                                fds[ProcessOf[t]][i].device))
         /\ SendResumes(t) => Sends(t, call[t])
<1>1. ASSUME NEW path \in Path, NEW j \in Nat, NEW a \in App \cup {NULL}, OpenBegins(t, path, j, a)
      PROVE  Sends(t, OpenOf(t, path, j, a))
  <2>1. ~ Busy(t)
    BY <1>1, ExtraFacts, Nothing, NamesAssumption DEF OpenBegins, Busy
  <2> QED  BY <1>1, <2>1, ThreadSendable DEF OpenBegins, Sends, InHand
<1>2. ASSUME NEW j \in Nat, OpenGoesOn(t, j)
      PROVE  Sends(t, OpenOf(t, call[t].path, j, call[t].caller))
  <2>1. call[t].message = t /\ Caller(t) = t
    BY <1>2, Nothing, ExtraFacts DEF OpenGoesOn, Received, Typed, CallOK, Caller
  <2> QED  BY <1>2, <2>1, ThreadSendable DEF OpenGoesOn, Sends, InHand
<1>3. ASSUME NEW i \in Fd, NEW command \in {"close", "use"}, NEW a \in App \cup {NULL},
             CallSent(t, i, command, a)
      PROVE  Sends(t, CallOf(i, command, IF a = NULL THEN t ELSE FirstOf(FreeExtra),
                             fds[ProcessOf[t]][i].device))
  <2>1. CallFD_Inner(t, i, command, a)
    BY <1>3 DEF CallSent
  <2>2. UNCHANGED <<resources, reply, serving, handles>>
    BY <2>1 DEF CallFD_Inner
  <2> QED  BY <2>1, <2>2, CallSendable, SMTT(40) DEF Sends, InHand
<1>4. ASSUME SendResumes(t) PROVE Sends(t, call[t])
  <2>1. call[t] # NoCall /\ CallOK(t) /\ call[t].op = "send"
    BY <1>4, Nothing DEF SendResumes, Typed
  <2>2. Caller(call[t].message) = t /\ Waits(call[t].message)
    BY <2>1 DEF CallOK, Waits
  <2> QED  BY <1>4, <2>1, <2>2, ResumeSendable DEF SendResumes, Sends, InHand
<1> QED  BY <1>1, <1>2, <1>3, <1>4

LEMMA DoneSteps ==
  ASSUME Typed, NEW t \in Thread,
         OpenRefused(t) \/ OpenFailed(t) \/ Opened(t) \/ CallReceives(t)
  PROVE  Done(t)
<1>1. call[t].op = "receive" => call[t].message = t
  BY Nothing DEF Typed, CallOK
<1>2. CASE OpenRefused(t)
  BY <1>2 DEF OpenRefused, Done
<1>3. CASE OpenFailed(t)
  BY <1>1, <1>3 DEF OpenFailed, Received, Done
<1>4. CASE Opened(t)
  BY <1>1, <1>4 DEF Opened, OpenSucceeds, Received, Done
<1>5. CASE CallReceives(t)
  BY <1>1, <1>5 DEF CallReceives, Received, Ends, Done
<1> QED  BY <1>2, <1>3, <1>4, <1>5

Still == UNCHANGED <<message, queue, reply, call, serving, handles>>
LEMMA Kinds ==
  ASSUME Typed, Located, Step
  PROVE  \/ Still
         \/ \E d \in Device : TakeRequest(d)
         \/ \E d \in Device, m \in Message : Answered(d, m)
         \/ \E t \in Thread : Done(t) \/ \E c \in BlockedCall : Sends(t, c)
<1>1. ASSUME NEW t \in Thread, NEW c, Sends(t, c) PROVE c \in BlockedCall
  BY <1>1 DEF Sends, Sendable
<1>2. ASSUME NEW d \in Device, RegisterResourceManager(d) PROVE Still
  BY <1>2 DEF RegisterResourceManager, Still
<1>3. ASSUME NEW p \in Process, TakeCallback(p) PROVE Still
  BY <1>3 DEF TakeCallback, Still
<1>4. CASE UNCHANGED vars
  BY <1>4 DEF vars, kernelVars, Still
<1>5. ASSUME NEW t \in Thread, ThreadStep(t)
      PROVE  Done(t) \/ \E c \in BlockedCall : Sends(t, c)
  BY <1>1, <1>5, SendSteps, DoneSteps DEF ThreadStep
<1> QED  BY <1>2, <1>3, <1>4, <1>5 DEF Step

LEMMA AppendElements ==
  ASSUME NEW S, NEW s \in Seq(S), NEW x \in S
  PROVE  /\ Elements(Append(s, x)) = Elements(s) \cup {x}
         /\ Distinct(s) /\ x \notin Elements(s) => Distinct(Append(s, x))
<1>1. /\ Append(s, x) \in Seq(S) /\ Len(Append(s, x)) = Len(s) + 1
      /\ DOMAIN Append(s, x) = 1 .. Len(s) + 1 /\ DOMAIN s = 1 .. Len(s) /\ Len(s) \in Nat
      /\ \A i \in 1 .. Len(s) : Append(s, x)[i] = s[i]
      /\ Append(s, x)[Len(s) + 1] = x
  BY AppendProperties, LenProperties
<1> DEFINE a == Append(s, x)
<1> HIDE DEF a
<1>2. Elements(a) = Elements(s) \cup {x}
  BY <1>1 DEF Elements, a
<1>3. Distinct(s) /\ x \notin Elements(s) => Distinct(a)
  BY <1>1 DEF Elements, Distinct, a
<1> QED  BY <1>2, <1>3 DEF a

LEMMA TailElements ==
  ASSUME NEW S, NEW s \in Seq(S), s # << >>
  PROVE  /\ Head(s) \in S /\ Head(s) \in Elements(s) /\ Tail(s) \in Seq(S)
         /\ Elements(s) = Elements(Tail(s)) \cup {Head(s)} /\ Len(Tail(s)) = Len(s) - 1
         /\ Distinct(s) => Distinct(Tail(s)) /\ Head(s) \notin Elements(Tail(s))
<1>1. /\ Tail(s) \in Seq(S) /\ Len(Tail(s)) = Len(s) - 1 /\ Len(s) \in Nat \ {0}
      /\ DOMAIN Tail(s) = 1 .. Len(s) - 1 /\ DOMAIN s = 1 .. Len(s)
      /\ \A i \in 1 .. Len(s) - 1 : Tail(s)[i] = s[i + 1]
      /\ Head(s) = s[1] /\ Head(s) \in S
  BY HeadTailProperties, LenProperties, EmptySeq
<1> DEFINE a == Tail(s)
           h == Head(s)
<1> HIDE DEF a, h
<1>2. h \in Elements(s)
  BY <1>1 DEF Elements, h
<1>3. Elements(s) = Elements(a) \cup {h}
  <2>1. ASSUME NEW x \in Elements(s) PROVE x \in Elements(a) \cup {h}
    <3>1. PICK i \in 1 .. Len(s) : s[i] = x
      BY <1>1, <2>1 DEF Elements
    <3>2. CASE i = 1
      BY <1>1, <3>1, <3>2 DEF h
    <3>3. CASE i # 1
      <4>1. i - 1 \in 1 .. Len(s) - 1 /\ a[i - 1] = x
        BY <1>1, <3>1, <3>3 DEF a
      <4> QED  BY <4>1, <1>1 DEF Elements, a
    <3> QED  BY <3>2, <3>3
  <2>2. ASSUME NEW i \in 1 .. Len(s) - 1 PROVE a[i] \in Elements(s)
    <3>1. i + 1 \in DOMAIN s /\ a[i] = s[i + 1]
      BY <1>1 DEF a
    <3> QED  BY <3>1 DEF Elements
  <2> QED  BY <1>1, <1>2, <2>1, <2>2 DEF Elements, a
<1>4. Distinct(s) => Distinct(a) /\ h \notin Elements(a)
  <2> SUFFICES ASSUME Distinct(s) PROVE Distinct(a) /\ h \notin Elements(a)
    OBVIOUS
  <2>1. \A i \in 1 .. Len(s) - 1 : i + 1 \in 1 .. Len(s) /\ a[i] = s[i + 1] /\ i + 1 # 1
    BY <1>1 DEF a
  <2>2. DOMAIN a = 1 .. Len(s) - 1 /\ h = s[1] /\ 1 \in 1 .. Len(s)
    BY <1>1 DEF a, h
  <2>3. Distinct(a)
    <3>1. ASSUME NEW i \in DOMAIN a, NEW j \in DOMAIN a, a[i] = a[j] PROVE i = j
      <4>1. s[i + 1] = s[j + 1] /\ i + 1 \in DOMAIN s /\ j + 1 \in DOMAIN s
        BY <1>1, <2>1, <2>2, <3>1
      <4>2. i + 1 = j + 1
        BY <4>1 DEF Distinct
      <4> QED  BY <4>2, <2>2
    <3> QED  BY <3>1 DEF Distinct
  <2>4. \A i \in DOMAIN a : a[i] # h
    BY <1>1, <2>1, <2>2, SMTT(40) DEF Distinct
  <2> QED  BY <2>3, <2>4 DEF Elements
<1> QED  BY <1>1, <1>2, <1>3, <1>4 DEF a, h

-----------------------------------------------------------------------------
(* A message is in one place.                                              *)
LEMMA SamePlace ==
  ASSUME NEW m, Placed(m),
         Busy(m)' = Busy(m), Server(m)' = Server(m),
         \A d \in Device : m \in serving'[d] <=> m \in serving[d],
         \A d \in Device : m \in Queued(d)' <=> m \in Queued(d),
         MessageOK(m), Waits(m)' = Waits(m), Replied(m)' = Replied(m),
         Replied(m) => reply'[m] = reply[m] /\ call'[m].op = call[m].op
  PROVE  Placed(m)'
<1>1. Busy(m) => Server(m) \in Device
  BY DEF MessageOK, Server
<1> HIDE DEF Busy, Server, Queued, Waits, Replied
<1> QED  BY <1>1 DEF Placed

(* A step leaves the message where it is, and as it is.                    *)
Unmoved(m) ==
  /\ message'[m] = message[m] /\ Busy(m)' = Busy(m) /\ Waits(m)' = Waits(m)
  /\ Replied(m)' = Replied(m) /\ \A d \in Device : m \in Queued(d)' <=> m \in Queued(d)

LEMMA OneReply ==
  ASSUME Typed, Located, NEW t \in Thread, reply[t] # << >>
  PROVE  /\ Replied(t) /\ reply[t] = <<t>> /\ Tail(reply[t]) = << >> /\ call[t].op = "receive"
         /\ call[t].message = t /\ call[t] # NoCall
<1>1. Replied(t) /\ Placed(t) /\ CallOK(t)
  BY ExtraFacts DEF Typed, Located, Replied
<1>2. reply[t] = <<t>> /\ call[t].op = "receive" /\ call[t] # NoCall /\ call[t].message = t
  BY <1>1, Nothing DEF Placed, CallOK
<1>3. Tail(<<t>>) = << >>
  OBVIOUS
<1> QED  BY <1>1, <1>2, <1>3

LEMMA SendLocated ==
  ASSUME Typed, Located, NEW t \in Thread, NEW c \in BlockedCall, Sends(t, c)
  PROVE  /\ Located'
         /\ \A n \in Message : n # c.message => Unmoved(n)
         /\ \A d \in Device : c.message \in Queued(d)' <=> Enqueued(c) /\ d = c.device
         /\ \A d \in Device : c.message \notin Queued(d)
         /\ ~ Replied(c.message)'
<1> DEFINE m == c.message
<1>0. TypeOK /\ c.device \in Device /\ m \in Message /\ (m \in Extra \/ m = t)
  BY ExtraFacts DEF Typed, Sends, Sendable
<1>1. SendWaits(t, c) \/ SendAwaits(t, c) \/ SendReturns(t, c)
  BY SendCases DEF Sends
<1>2. /\ \A d \in Device : m \notin Queued(d) /\ m \notin serving[d]
      /\ reply' = [reply EXCEPT ![t] = Tail(@)] \/ UNCHANGED reply
      /\ \A u \in Thread : u # m => reply'[u] = reply[u]
      /\ ~ Replied(m)'
  <2>1. Placed(m)
    BY <1>0 DEF Located
  <2>2. CASE ~ Busy(m) /\ UNCHANGED reply
    <3>1. ~ Replied(m)
      BY <2>2, <1>0, OneReply, ExtraFacts DEF Replied, Busy
    <3> QED  BY <2>1, <2>2, <3>1 DEF Placed, Replied
  <2>3. CASE Waits(m) /\ UNCHANGED reply
    <3>1. ~ Replied(m)
      BY <2>1, <2>3 DEF Placed
    <3> QED  BY <2>1, <2>3, <3>1 DEF Placed, Replied
  <2>4. CASE m = t /\ Received(t)
    <3>1. Replied(m) /\ reply'[t] = << >>
      BY <2>4, <1>0, OneReply DEF Received, TypeOK
    <3> QED  BY <2>1, <2>4, <3>1, <1>0 DEF Placed, Received, Replied, TypeOK
  <2> QED  BY <2>2, <2>3, <2>4 DEF Sends, InHand
<1>3. /\ \A u \in Thread \ {t} : call'[u] = call[u]
      /\ call[t] = NoCall \/ call[t].message = m
      /\ call'[t] = NoCall \/ call'[t].message = m
  BY <1>0, <1>1 DEF SendWaits, SendAwaits, SendReturns, TypeOK, Sends, With
<1>4. ASSUME NEW d \in Device
      PROVE  /\ Distinct(queue'[d])
             /\ \A n \in Message : n # m => (n \in Queued(d)' <=> n \in Queued(d))
             /\ m \in Queued(d)' <=> Enqueued(c) /\ d = c.device
  <2>1. queue[d] \in Seq(Message) /\ Distinct(queue[d]) /\ m \notin Elements(queue[d])
    BY <1>0, <1>2 DEF TypeOK, Located, Queued
  <2>2. CASE queue' = queue /\ ~ Enqueued(c)
    BY <2>1, <2>2 DEF Queued
  <2>3. CASE Enqueued(c)
    <3>1. queue'[d] = IF d = c.device THEN Append(queue[d], m) ELSE queue[d]
      BY <2>3, <1>0 DEF Enqueued, TypeOK
    <3>2. /\ Elements(Append(queue[d], m)) = Elements(queue[d]) \cup {m}
          /\ Distinct(Append(queue[d], m))
      BY <2>1, <1>0, AppendElements
    <3> HIDE DEF m
    <3>3. CASE d = c.device
      BY <2>1, <2>3, <3>1, <3>2, <3>3 DEF Queued
    <3>4. CASE d # c.device
      BY <2>1, <2>3, <3>1, <3>2, <3>4 DEF Queued
    <3> QED  BY <3>3, <3>4
  <2>4. queue' = queue => ~ Enqueued(c)
    <3>1. /\ queue[c.device] \in Seq(Message)
          /\ Enqueued(c) => queue'[c.device] = Append(queue[c.device], m)
      BY <1>0 DEF TypeOK, Enqueued
    <3>2. Len(Append(queue[c.device], m)) = Len(queue[c.device]) + 1 /\ Len(queue[c.device]) \in Nat
      BY <3>1, <1>0, AppendProperties, LenProperties
    <3> QED  BY <3>1, <3>2
  <2> QED  BY <1>1, <2>2, <2>3, <2>4 DEF SendWaits, SendAwaits, SendReturns
<1>5. ASSUME NEW n \in Message, n # m PROVE Placed(n)' /\ Unmoved(n)
  <2>1. message'[n] = message[n] /\ Placed(n) /\ MessageOK(n) /\ Server(n)' = Server(n)
    BY <1>5 DEF Sends, Written, Located, Typed, Server
  <2>2. Waits(n)' = Waits(n)
    BY <1>3, <1>5, Nothing DEF Waits
  <2>3. CASE n \in Extra \/ n # t
    <3>1. Busy(n)' = Busy(n)
      BY <2>1, <2>3, <1>3, ExtraFacts DEF Busy
    <3>2. Replied(n)' = Replied(n) /\ (Replied(n) => reply'[n] = reply[n] /\ call'[n].op = call[n].op)
      BY <1>2, <1>3, <1>5, <2>3, ExtraFacts DEF Replied
    <3> QED  BY <1>4, <1>5, <2>1, <2>2, <3>1, <3>2, SamePlace DEF Sends, Unmoved
  <2>4. CASE n = t
    <3>1. n \notin Extra /\ ~ Busy(n) /\ ~ Busy(n)'
      BY <2>4, <1>3, <1>5, ExtraFacts, Nothing, NamesAssumption DEF Busy
    <3>2. ~ Replied(n)
      BY <2>4, <1>3, <1>5, OneReply DEF Replied
    <3>3. ~ Replied(n)'
      BY <2>4, <3>2, <1>2, <1>5 DEF Replied
    <3>4. Busy(n)' = Busy(n) /\ Replied(n)' = Replied(n)
      BY <3>1, <3>2, <3>3 DEF Busy, Replied
    <3> QED  BY <1>4, <1>5, <2>1, <2>2, <3>2, <3>4, SamePlace DEF Sends, Unmoved
  <2> QED  BY <2>3, <2>4
<1>6. Placed(m)'
  <2>1. Server(m)' = c.device
    BY DEF Sends, Written, Server
  <2>2. \A d \in Device : m \notin serving'[d]
    BY <1>2 DEF Sends
  <2>3. \A u \in Thread \ {t} : call'[u] = NoCall \/ call'[u].message # m
    BY <1>3 DEF Sends, Sendable
  <2>4. CASE SendWaits(t, c)
    <3>1. call'[t].op = "send" /\ call'[t].message = m
      BY <2>4, <1>0 DEF SendWaits, TypeOK, With
    <3>2. Waits(m)'
      BY <3>1 DEF Waits
    <3>3. Busy(m)'
      BY <3>1, <1>0, ExtraFacts DEF Busy, Sends, Written
    <3>4. ~ Enqueued(c)
      <4>1. /\ queue[c.device] \in Seq(Message) /\ queue' = queue
            /\ Enqueued(c) => queue'[c.device] = Append(queue[c.device], m)
        BY <2>4, <1>0 DEF TypeOK, Enqueued, SendWaits
      <4>2. Len(Append(queue[c.device], m)) = Len(queue[c.device]) + 1 /\ Len(queue[c.device]) \in Nat
        BY <4>1, <1>0, AppendProperties, LenProperties
      <4> QED  BY <4>1, <4>2
    <3> QED  BY <1>2, <1>4, <2>2, <3>2, <3>3, <3>4 DEF Placed
  <2>5. CASE SendAwaits(t, c)
    <3>1. call'[t].op = "receive" /\ call'[t].message = m /\ m = t /\ Enqueued(c)
      BY <2>5, <1>0 DEF SendAwaits, TypeOK, With
    <3>2. ~ Waits(m)'
      BY <3>1, <2>3, Nothing DEF Waits
    <3>3. Busy(m)'
      BY <3>1, <1>0, ExtraFacts DEF Busy, Sends, Written
    <3> QED  BY <1>2, <1>4, <2>1, <2>2, <3>1, <3>2, <3>3, <1>0 DEF Placed
  <2>6. CASE SendReturns(t, c)
    <3>1. call'[t] = NoCall /\ m \in Extra /\ Enqueued(c)
      BY <2>6, <1>0 DEF SendReturns, TypeOK
    <3>2. ~ Waits(m)'
      BY <3>1, <2>3, Nothing DEF Waits
    <3>3. Busy(m)'
      BY <3>1, <1>0, ExtraFacts DEF Busy, Sends, Written
    <3> QED  BY <1>2, <1>4, <2>1, <2>2, <3>1, <3>2, <3>3, <1>0 DEF Placed
  <2> QED  BY <1>1, <2>4, <2>5, <2>6
<1> QED  BY <1>2, <1>4, <1>5, <1>6 DEF Located

LEMMA DoneLocated ==
  ASSUME Typed, Located, NEW t \in Thread, Done(t)
  PROVE  /\ Located'
         /\ \A n \in Message \ {t} : Unmoved(n)
         /\ ~ Busy(t)' /\ ~ Replied(t)' /\ (\A d \in Device : t \notin Queued(d)) /\ ~ Waits(t)
<1>0. TypeOK /\ t \in Message /\ Placed(t) /\ t \notin Extra
  BY ExtraFacts DEF Typed, Located
<1>1. /\ call'[t] = NoCall /\ \A u \in Thread \ {t} : call'[u] = call[u]
      /\ message'[t] = NoMessage /\ \A n \in Message \ {t} : message'[n] = message[n]
      /\ UNCHANGED <<queue, serving>>
  BY <1>0 DEF Done, Ends, TypeOK
<1>2. /\ call[t].op # "send" /\ ~ Replied(t)' /\ \A u \in Thread \ {t} : reply'[u] = reply[u]
      /\ \A d \in Device : t \notin Queued(d) /\ t \notin serving[d]
      /\ ~ Waits(t)
  <2>1. CASE call[t] = NoCall /\ UNCHANGED reply
    <3>1. ~ Busy(t) /\ call[t].op = "none"
      BY <2>1, <1>0, Nothing, NamesAssumption DEF Busy
    <3>2. ~ Replied(t)
      BY <2>1, OneReply DEF Replied
    <3> QED  BY <1>0, <2>1, <3>1, <3>2 DEF Placed, Replied
  <2>2. CASE Received(t)
    <3>1. Replied(t) /\ reply'[t] = << >> /\ \A u \in Thread \ {t} : reply'[u] = reply[u]
      BY <2>2, <1>0, OneReply DEF Received, TypeOK
    <3> QED  BY <1>0, <2>2, <3>1 DEF Placed, Received, Replied
  <2> QED  BY <2>1, <2>2 DEF Done
<1>3. \A d \in Device : Queued(d)' = Queued(d)
  BY <1>1 DEF Queued
<1>4. Placed(t)'
  <2>1. ~ Busy(t)'
    BY <1>0, <1>1, Nothing, NamesAssumption DEF Busy
  <2>2. ~ Waits(t)'
    BY <1>1, <1>2, Nothing DEF Waits
  <2> QED  BY <2>1, <2>2, <1>1, <1>2, <1>3 DEF Placed
<1>5. ASSUME NEW n \in Message, n # t PROVE Placed(n)' /\ Unmoved(n)
  <2>1. Placed(n) /\ MessageOK(n) /\ Server(n)' = Server(n)
    BY <1>1, <1>5 DEF Located, Typed, Server
  <2>2. Busy(n)' = Busy(n)
    BY <1>1, <1>5, ExtraFacts DEF Busy
  <2>3. Waits(n)' = Waits(n)
    BY <1>1, <1>2, Nothing DEF Waits
  <2>4. Replied(n)' = Replied(n)
    BY <1>2, <1>5 DEF Replied
  <2>5. Replied(n) => reply'[n] = reply[n] /\ call'[n].op = call[n].op
    BY <1>1, <1>2, <1>5 DEF Replied
  <2> QED  BY <1>1, <1>3, <1>5, <2>1, <2>2, <2>3, <2>4, <2>5, SamePlace DEF Unmoved
<1>6. ~ Busy(t)'
  BY <1>0, <1>1, Nothing, NamesAssumption DEF Busy
<1> QED  BY <1>1, <1>2, <1>4, <1>5, <1>6 DEF Located

LEMMA TakeLocated ==
  ASSUME Typed, Located, NEW d \in Device, TakeRequest(d)
  PROVE  /\ Located'
         /\ \A e \in Device : queue'[e] \in Seq(Message) /\ Len(queue'[e]) <= QueueSize
         /\ Head(queue[d]) \in Message /\ Head(queue[d]) \in Queued(d)
<1> DEFINE m == Head(queue[d])
<1>0. TypeOK /\ queue[d] \in Seq(Message) /\ queue[d] # << >> /\ Distinct(queue[d])
  BY DEF Typed, TypeOK, TakeRequest, Located
<1>1. /\ queue'[d] = Tail(queue[d]) /\ \A e \in Device \ {d} : queue'[e] = queue[e]
      /\ serving'[d] = serving[d] \cup {m} /\ \A e \in Device \ {d} : serving'[e] = serving[e]
      /\ UNCHANGED <<message, reply, call>>
  BY <1>0 DEF TakeRequest, TypeOK
<1>2. /\ m \in Message /\ m \in Queued(d)
      /\ Queued(d) = Queued(d)' \cup {m} /\ m \notin Queued(d)' /\ Distinct(queue'[d])
      /\ queue'[d] \in Seq(Message) /\ Len(queue'[d]) = Len(queue[d]) - 1
  BY <1>0, <1>1, TailElements DEF Queued
<1> HIDE DEF m
<1>3. \A e \in Device \ {d} : Queued(e)' = Queued(e)
  BY <1>1 DEF Queued
<1>4. \A n \in Message : /\ Busy(n)' = Busy(n) /\ Server(n)' = Server(n)
                         /\ Waits(n)' = Waits(n) /\ Replied(n)' = Replied(n)
  BY <1>1 DEF Busy, Server, Waits, Replied
<1>5. ASSUME NEW n \in Message PROVE Placed(n)'
  <2>1. Placed(n) /\ MessageOK(n) /\ Placed(m)
    BY <1>2 DEF Located, Typed
  <2>2. CASE n # m
    <3>1. /\ \A e \in Device : n \in Queued(e)' <=> n \in Queued(e)
          /\ \A e \in Device : n \in serving'[e] <=> n \in serving[e]
          /\ Replied(n) => reply'[n] = reply[n] /\ call'[n].op = call[n].op
      BY <2>2, <1>1, <1>2, <1>3
    <3> QED  BY <2>1, <3>1, <1>4, SamePlace
  <2>3. CASE n = m
    BY <2>1, <2>3, <1>1, <1>2, <1>3, <1>4 DEF Placed
  <2> QED  BY <2>2, <2>3
<1>6. ASSUME NEW e \in Device
      PROVE  queue'[e] \in Seq(Message) /\ Len(queue'[e]) <= QueueSize /\ Distinct(queue'[e])
  <2>1. /\ queue[e] \in Seq(Message) /\ Len(queue[e]) <= QueueSize /\ Distinct(queue[e])
        /\ Len(queue[e]) \in Nat
    BY LenProperties DEF Typed, TypeOK, Located
  <2>2. CASE e = d
    <3>1. queue'[d] \in Seq(Message) /\ Distinct(queue'[d])
      BY <1>2
    <3>2. Len(queue'[d]) <= QueueSize
      BY ONLY <1>2, <2>1, <2>2, LimitsAssumption
    <3> QED  BY <2>2, <3>1, <3>2
  <2>3. CASE e # d
    BY <1>1, <2>1, <2>3
  <2> QED  BY <2>2, <2>3
<1> QED  BY <1>2, <1>5, <1>6 DEF Located, m

LEMMA AnswerLocated ==
  ASSUME Typed, Located, NEW d \in Device, NEW m \in Message, Answered(d, m)
  PROVE  /\ Located'
         /\ \A n \in Message \ {m} : Unmoved(n)
         /\ \A e \in Device : m \notin Queued(e) /\ m \notin Queued(e)'
         /\ ~ Waits(m) /\ ~ Waits(m)' /\ ~ Replied(m) /\ Server(m) = d
<1> USE DEF Answered
<1>0. TypeOK /\ m \in serving[d] /\ Placed(m)
  BY DEF Typed, AnswersCallback, AnswersThread, Located
<1>1. /\ serving'[d] = serving[d] \ {m} /\ \A e \in Device \ {d} : serving'[e] = serving[e]
      /\ UNCHANGED <<queue, call>>
  BY <1>0 DEF AnswersCallback, AnswersThread, TypeOK
<1>2. /\ Busy(m) /\ Server(m) = d /\ ~ Waits(m) /\ ~ Replied(m)
      /\ \A e \in Device : m \notin Queued(e) /\ m \notin serving'[e]
  BY <1>0, <1>1 DEF Placed
<1>3. /\ \A e \in Device : Queued(e)' = Queued(e)
      /\ \A n \in Message : Waits(n)' = Waits(n)
  BY <1>1 DEF Queued, Waits
<1>4. \A n \in Message \ {m} : message'[n] = message[n] /\ (n \in Thread => reply'[n] = reply[n])
  BY <1>0 DEF AnswersCallback, AnswersThread, ReplyToCallback, ReplyToThread, TypeOK
<1>5. ASSUME NEW n \in Message, n # m PROVE Placed(n)' /\ Unmoved(n)
  <2>1. /\ Placed(n) /\ MessageOK(n) /\ Server(n)' = Server(n) /\ Busy(n)' = Busy(n)
        /\ Replied(n)' = Replied(n)
        /\ Replied(n) => reply'[n] = reply[n] /\ call'[n].op = call[n].op
    BY <1>1, <1>4, <1>5 DEF Located, Typed, Server, Busy, Replied
  <2>2. \A e \in Device : n \in serving'[e] <=> n \in serving[e]
    BY <1>1, <1>5
  <2>3. Busy(n) => Server(n) \in Device
    BY <2>1 DEF MessageOK, Server
  <2> HIDE DEF Busy, Server, Queued, Waits, Replied
  <2>4. Placed(n)'
    BY <1>3, <2>1, <2>2, <2>3 DEF Placed
  <2>5. Unmoved(n)
    BY <1>3, <1>4, <1>5, <2>1 DEF Unmoved
  <2> QED  BY <2>4, <2>5
<1>6. CASE AnswersCallback(d, m)
  <2>1. m \in Extra /\ message'[m] = NoMessage /\ UNCHANGED reply
    BY <1>0, <1>6 DEF AnswersCallback, ReplyToCallback, TypeOK
  <2>2. ~ Busy(m)' /\ ~ Replied(m)'
    BY <2>1, Nothing, ExtraFacts DEF Busy, Replied
  <2>3. Placed(m)'
    BY <1>2, <1>3, <2>2 DEF Placed
  <2> QED  BY <1>1, <1>2, <1>3, <1>5, <2>3 DEF Located
<1>7. CASE \E result \in Results : AnswersThread(d, m, result)
  <2>1. PICK result \in Results : AnswersThread(d, m, result)
    BY <1>7
  <2>2. /\ m \in Thread /\ message' = [message EXCEPT ![m].result = result]
        /\ reply[m] = << >> /\ reply' = [reply EXCEPT ![m] = Append(@, m)]
    BY <2>1 DEF AnswersThread, ReplyToThread
  <2>3. reply'[m] = <<m>> /\ Replied(m)'
    <3>1. Append(<< >>, m) = <<m>> /\ <<m>> # << >>
      OBVIOUS
    <3> QED  BY <2>2, <3>1, <1>0 DEF TypeOK, Replied
  <2>4. CallOK(m) /\ call[m].message = m /\ call[m] \in BlockedCall
    BY <1>2, <2>2, ExtraFacts DEF Typed, TypeOK, Busy
  <2>5. call[m].op = "receive"
    <3>1. call[m].op # "none"
      BY <2>4, Nothing, NamesAssumption, <2>2, ExtraFacts DEF CallOK
    <3>2. call[m].op # "send"
      BY <1>2, <2>2, <2>4 DEF Waits
    <3> QED  BY <2>4, <3>1, <3>2 DEF BlockedCall
  <2>6. Busy(m)' = Busy(m)
    BY <1>1, <2>2, ExtraFacts DEF Busy
  <2>7. Placed(m)'
    BY <1>1, <1>2, <1>3, <2>3, <2>5, <2>6 DEF Placed
  <2> QED  BY <1>1, <1>2, <1>3, <1>5, <2>7 DEF Located
<1> QED  BY <1>6, <1>7

LEMMA LocatedStep == ASSUME Typed, Located, Step PROVE Located'
<1>1. CASE Still
  BY <1>1 DEF Still, Located, Placed, Queued, Busy, Server, Waits, Replied
<1> QED  BY <1>1, Kinds, TakeLocated, AnswerLocated, SendLocated, DoneLocated

(* A message in use is in one of these sets, once.                         *)
QueuePlaces(m) ==
  LET at == {<<"queue", d, i>> : d \in Device, i \in 1 .. QueueSize}
  IN  {x \in at : x[3] <= Len(queue[x[2]]) /\ queue[x[2]][x[3]] = m}
ServingPlaces(m) == {d \in Device : m \in serving[d]}
WaitPlaces(m) == {t \in Thread : call[t].op = "send" /\ call[t].message = m}
ReplyPlaces(m) == {t \in Thread : reply[t] = <<m>>}

LEMMA AtMostOne ==
  ASSUME NEW S, \A x, y \in S : x = y
  PROVE  Cardinality(S) = One(S # {})
<1>1. CASE S = {}
  BY <1>1, FS_EmptySet DEF One
<1>2. CASE S # {}
  <2>1. PICK x : S = {x}
    BY <1>2
  <2> QED  BY <1>2, <2>1, FS_Singleton DEF One
<1> QED  BY <1>1, <1>2

LEMMA LocatedOnce == ASSUME Typed, Located PROVE OnePlace
<1>1. ASSUME NEW m \in Message
      PROVE  Cardinality(QueuePlaces(m)) + Cardinality(ServingPlaces(m))
               + Cardinality(WaitPlaces(m)) + Cardinality(ReplyPlaces(m)) = One(Busy(m))
  <2>0. Placed(m) /\ MessageOK(m)
    BY <1>1 DEF Typed, Located
  <2>1. /\ QueuePlaces(m) # {} <=> \E d \in Device : m \in Queued(d)
        /\ \A x, y \in QueuePlaces(m) : x = y
    <3>1. ASSUME NEW x \in QueuePlaces(m)
          PROVE  \E d \in Device, i \in Nat :
                    x = <<"queue", d, i>> /\ i \in DOMAIN queue[d] /\ queue[d][i] = m
      <4>1. PICK d \in Device, i \in 1 .. QueueSize : x = <<"queue", d, i>>
        BY <3>1 DEF QueuePlaces
      <4>2. i \in Nat /\ i >= 1 /\ i <= Len(queue[d]) /\ queue[d][i] = m
        BY <3>1, <4>1, LimitsAssumption DEF QueuePlaces
      <4>3. DOMAIN queue[d] = 1 .. Len(queue[d]) /\ Len(queue[d]) \in Nat
        BY LenProperties DEF Typed, TypeOK
      <4> QED  BY <4>1, <4>2, <4>3
    <3>2. ASSUME NEW d \in Device, NEW i \in DOMAIN queue[d], queue[d][i] = m
          PROVE  <<"queue", d, i>> \in QueuePlaces(m)
      <4>1. /\ DOMAIN queue[d] = 1 .. Len(queue[d]) /\ Len(queue[d]) \in Nat
            /\ Len(queue[d]) <= QueueSize
        BY LenProperties DEF Typed, TypeOK
      <4>2. i \in 1 .. QueueSize /\ i <= Len(queue[d])
        BY <4>1, LimitsAssumption
      <4> QED  BY <3>2, <4>2 DEF QueuePlaces
    <3>3. ASSUME NEW x \in QueuePlaces(m), NEW y \in QueuePlaces(m) PROVE x = y
      <4>1. PICK d \in Device, i \in Nat :
              x = <<"queue", d, i>> /\ i \in DOMAIN queue[d] /\ queue[d][i] = m
        BY <3>1
      <4>2. PICK e \in Device, j \in Nat :
              y = <<"queue", e, j>> /\ j \in DOMAIN queue[e] /\ queue[e][j] = m
        BY <3>1
      <4>3. m \in Queued(d) /\ m \in Queued(e)
        BY <4>1, <4>2 DEF Queued, Elements
      <4>4. d = e
        BY <2>0, <4>3 DEF Placed
      <4>5. i = j
        BY <4>1, <4>2, <4>4 DEF Located, Distinct
      <4> QED  BY <4>1, <4>2, <4>4, <4>5
    <3>4. ASSUME NEW d \in Device, m \in Queued(d) PROVE QueuePlaces(m) # {}
      BY <3>2, <3>4 DEF Queued, Elements
    <3>5. ASSUME QueuePlaces(m) # {} PROVE \E d \in Device : m \in Queued(d)
      BY <3>1, <3>5 DEF Queued, Elements
    <3> QED  BY <3>3, <3>4, <3>5
  <2>2. /\ ServingPlaces(m) # {} <=> \E d \in Device : m \in serving[d]
        /\ \A x, y \in ServingPlaces(m) : x = y
    BY <2>0 DEF ServingPlaces, Placed
  <2>3. /\ WaitPlaces(m) # {} <=> Waits(m)
        /\ \A x, y \in WaitPlaces(m) : x = y
    BY Nothing DEF WaitPlaces, Waits, Typed, CallOK
  <2>4. /\ ReplyPlaces(m) # {} <=> Replied(m)
        /\ \A x, y \in ReplyPlaces(m) : x = y
    <3>1. \A t \in Thread : reply[t] = <<m>> => reply[t] # << >>
      OBVIOUS
    <3>2. \A t \in Thread : reply[t] = <<m>> => t = m
      <4>1. ASSUME NEW t \in Thread, reply[t] = <<m>> PROVE t = m
        <5>1. reply[t] = <<t>>
          BY <3>1, <4>1, OneReply
        <5> QED  BY <4>1, <5>1
      <4> QED  BY <4>1
    <3>3. Replied(m) => m \in Thread /\ reply[m] = <<m>>
      BY <2>0 DEF Placed, Replied
    <3> QED  BY <3>1, <3>2, <3>3 DEF ReplyPlaces, Replied
  <2>5. /\ Cardinality(QueuePlaces(m)) = One(\E d \in Device : m \in Queued(d))
        /\ Cardinality(ServingPlaces(m)) = One(\E d \in Device : m \in serving[d])
        /\ Cardinality(WaitPlaces(m)) = One(Waits(m)) /\ Cardinality(ReplyPlaces(m)) = One(Replied(m))
    BY <2>1, <2>2, <2>3, <2>4, AtMostOne DEF One
  <2>6. CASE Busy(m)
    <3>1. Server(m) \in Device
      BY <2>0, <2>6 DEF MessageOK, Server
    <3> HIDE DEF Busy, Server, Queued, Waits, Replied
    <3> QED  BY <2>0, <2>5, <2>6, <3>1 DEF Placed, One
  <2>7. CASE ~ Busy(m)
    <3>1. ~ Replied(m)
      BY <2>7, OneReply, ExtraFacts DEF Replied, Busy
    <3> HIDE DEF Busy, Server, Queued, Waits, Replied
    <3> QED  BY <2>0, <2>5, <2>7, <3>1 DEF Placed, One
  <2> QED  BY <2>6, <2>7
<1> QED  BY <1>1 DEF OnePlace, QueuePlaces, ServingPlaces, WaitPlaces, ReplyPlaces, Busy

-----------------------------------------------------------------------------
(* The messages of the pool that a thread uses are counted against it.     *)
InUse(t) == {m \in Extra : message[m].inQueue /\ message[m].user = t}
Takes(t, m) ==
  /\ Available(t) /\ m \in Extra /\ ~ message[m].inQueue
  /\ message'[m].inQueue /\ message'[m].user = t
  /\ \A n \in Extra \ {m} : message'[n] = message[n]
  /\ usage' = [usage EXCEPT ![t] = @ + 1]

LEMMA ExtraFinite == IsFiniteSet(Extra) /\ \A S \in SUBSET Extra : IsFiniteSet(S)
<1>1. IsFiniteSet(Extra)
  BY FS_Interval, LimitsAssumption DEF Extra
<1> QED  BY <1>1, FS_Subset

LEMMA UsageKinds ==
  ASSUME Typed, Located, Step
  PROVE  \/ UNCHANGED usage /\ \A m \in Extra : message'[m] = message[m]
         \/ \E t \in Thread, m \in Extra : Takes(t, m)
         \/ \E d \in Device, m \in Extra : AnswersCallback(d, m)
<1> DEFINE Same == UNCHANGED usage /\ \A m \in Extra : message'[m] = message[m]
<1>1. ASSUME UNCHANGED <<usage, message>> PROVE Same
  BY <1>1
<1>2. ASSUME NEW t \in Thread, NEW x, UNCHANGED usage, message' = [message EXCEPT ![t] = x] PROVE Same
  BY <1>2, ExtraFacts DEF Typed, TypeOK
<1> HIDE DEF Same
<1>3. ASSUME NEW d \in Device, RegisterResourceManager(d) \/ TakeRequest(d) PROVE Same
  BY <1>1, <1>3 DEF RegisterResourceManager, TakeRequest
<1>4. ASSUME NEW d \in Device, NEW m \in Message, NEW result \in Results, AnswersThread(d, m, result)
      PROVE  Same
  BY <1>4, ExtraFacts DEF AnswersThread, ReplyToThread, Typed, TypeOK, Same
<1>5. ASSUME NEW p \in Process, TakeCallback(p) PROVE Same
  BY <1>1, <1>5 DEF TakeCallback
<1>6. ASSUME NEW t \in Thread, NEW path \in Path, NEW j \in Nat, NEW a \in App \cup {NULL},
             OpenBegins(t, path, j, a) PROVE Same
  BY <1>2, <1>6 DEF OpenBegins, Asks
<1>7. ASSUME NEW t \in Thread, NEW j \in Nat, OpenGoesOn(t, j) PROVE Same
  BY <1>2, <1>7 DEF OpenGoesOn, Asks
<1>8. ASSUME NEW t \in Thread, OpenRefused(t) \/ OpenFailed(t) \/ Opened(t) PROVE Same
  BY <1>2, <1>8 DEF OpenRefused, OpenFailed, Opened, Ends
<1>9. ASSUME NEW t \in Thread, CallReceives(t) PROVE Same
  BY <1>2, <1>9 DEF CallReceives
<1>10. ASSUME NEW t \in Thread, SendResumes(t) PROVE Same
  BY <1>1, <1>10 DEF SendResumes
<1>11. ASSUME NEW t \in Thread, NEW i \in Fd, NEW command \in {"close", "use"}, NEW a \in App \cup {NULL},
              CallSent(t, i, command, a)
       PROVE  Same \/ \E m \in Extra : Takes(t, m)
  <2>0. CallFD_Inner(t, i, command, a)
    BY <1>11 DEF CallSent
  <2>1. CASE a = NULL
    BY <1>2, <2>0, <2>1 DEF CallFD_Inner
  <2>2. CASE a # NULL
    <3> DEFINE m == FirstOf(FreeExtra)
    <3> DEFINE c == CallOf(i, command, m, fds[ProcessOf[t]][i].device)
    <3>0. m = IF a = NULL THEN t ELSE FirstOf(FreeExtra)
      BY <2>2
    <3> HIDE DEF m
    <3>1. /\ m \in Extra /\ Available(t) /\ ~ Busy(m) /\ message'[m] = MessageFor(t, i, command, a)
          /\ Written(t, c) /\ c.message = m
      BY <2>0, <2>2, <3>0, CallSendable, SMTT(40)
    <3> HIDE DEF c
    <3>5. \A n \in Message : n # m => message'[n] = message[n]
      BY <3>1 DEF Written
    <3>2. usage' = [usage EXCEPT ![t] = @ + 1]
      BY <2>0, <2>2 DEF CallFD_Inner
    <3>3. ~ message[m].inQueue /\ \A n \in Extra \ {m} : message'[n] = message[n]
      BY <3>1, <3>5, ExtraFacts DEF Busy
    <3>4. message'[m].inQueue /\ message'[m].user = t
      <4>1. MessageFor(t, i, command, a).inQueue = (a # NULL)
            /\ MessageFor(t, i, command, a).user = IF a = NULL THEN NULL ELSE t
        BY DEF MessageFor
      <4> QED  BY <2>2, <3>1, <4>1
    <3> QED  BY <3>1, <3>2, <3>3, <3>4 DEF Takes
  <2> QED  BY <2>1, <2>2
<1>12. ASSUME UNCHANGED vars PROVE Same
  BY <1>1, <1>12 DEF vars, kernelVars
<1>13. ASSUME NEW d \in Device, NEW m \in Message, Answered(d, m)
       PROVE  Same \/ (m \in Extra /\ AnswersCallback(d, m))
  BY <1>4, <1>13 DEF Answered, AnswersCallback
<1>14. ASSUME NEW t \in Thread, ThreadStep(t) PROVE Same \/ \E m \in Extra : Takes(t, m)
  BY <1>6, <1>7, <1>8, <1>9, <1>10, <1>11, <1>14 DEF ThreadStep
<1>15. Same \/ (\E t \in Thread, m \in Extra : Takes(t, m))
         \/ \E d \in Device, m \in Extra : AnswersCallback(d, m)
  BY <1>3, <1>5, <1>12, <1>13, <1>14 DEF Step
<1> QED  BY <1>15 DEF Same

LEMMA FreedUser ==
  ASSUME Typed, Located, Counted, NEW d \in Device, NEW m \in Extra, AnswersCallback(d, m)
  PROVE  LET t == message[m].user
         IN  /\ t \in Thread /\ m \in InUse(t) /\ usage[t] \in Nat \ {0}
             /\ message[m].caller \in App /\ message' = [message EXCEPT ![m] = NoMessage]
             /\ usage' = [usage EXCEPT ![t] = @ - 1]
<1>1. m \in Message /\ m \in serving[d] /\ Placed(m) /\ MessageOK(m)
  BY ExtraFacts DEF AnswersCallback, Located, Typed
<1>2. /\ message[m].user \in Thread /\ message[m].inQueue /\ message[m].caller \in App
  BY <1>1 DEF Placed, MessageOK, Busy
<1>3. m \in InUse(message[m].user)
  BY <1>2 DEF InUse
<1>4. IsFiniteSet(InUse(message[m].user))
  BY ExtraFinite DEF InUse
<1>5. Cardinality(InUse(message[m].user)) # 0
  BY <1>3, <1>4, FS_EmptySet
<1>6. usage[message[m].user] = Cardinality(InUse(message[m].user)) /\ usage[message[m].user] \in Nat
  BY <1>2 DEF Counted, InUse, Typed, TypeOK
<1> QED  BY <1>2, <1>3, <1>5, <1>6 DEF AnswersCallback, ReplyToCallback, GivenBack

LEMMA CountedStep == ASSUME Typed, Located, Counted, Step PROVE Counted'
<1>0. \A t \in Thread : IsFiniteSet(InUse(t)) /\ usage[t] = Cardinality(InUse(t))
                        /\ usage[t] \in Nat /\ Limit[t] \in Nat /\ usage[t] <= Limit[t]
  BY ExtraFinite, LimitsAssumption DEF Counted, InUse, Typed, TypeOK
<1>1. CASE UNCHANGED usage /\ \A m \in Extra : message'[m] = message[m]
  <2>1. \A t \in Thread : InUse(t)' = InUse(t)
    BY <1>1 DEF InUse
  <2> QED  BY <1>1, <2>1 DEF Counted, InUse
<1>2. ASSUME NEW t \in Thread, NEW m \in Extra, Takes(t, m) PROVE Counted'
  <2>1. ASSUME NEW u \in Thread
        PROVE usage'[u] = Cardinality(InUse(u)') /\ usage'[u] <= Limit[u]
    <3>1. CASE u = t
      <4>1. InUse(t)' = InUse(t) \cup {m} /\ m \notin InUse(t)
        BY <1>2 DEF Takes, InUse
      <4>2. Cardinality(InUse(t)') = Cardinality(InUse(t)) + 1
        BY <1>0, <4>1, FS_AddElement
      <4>3. usage'[t] = usage[t] + 1 /\ usage[t] < Limit[t]
        BY <1>2 DEF Takes, Available, Typed, TypeOK
      <4> QED  BY <1>0, <3>1, <4>2, <4>3
    <3>2. CASE u # t
      <4>1. InUse(u)' = InUse(u)
        BY <1>2, <3>2 DEF Takes, InUse
      <4>2. usage'[u] = usage[u]
        BY <1>2, <3>2 DEF Takes, Typed, TypeOK
      <4> QED  BY <1>0, <4>1, <4>2
    <3> QED  BY <3>1, <3>2
  <2> QED  BY <2>1 DEF Counted, InUse
<1>3. ASSUME NEW d \in Device, NEW m \in Extra, AnswersCallback(d, m) PROVE Counted'
  <2>0. PICK t \in Thread :
          /\ t = message[m].user /\ m \in InUse(t)
          /\ message' = [message EXCEPT ![m] = NoMessage]
          /\ usage' = [usage EXCEPT ![t] = @ - 1] /\ usage[t] \in Nat \ {0}
    BY <1>3, FreedUser
  <2>1. ~ message'[m].inQueue /\ \A n \in Extra \ {m} : message'[n] = message[n]
    BY <2>0, Nothing, ExtraFacts DEF Typed, TypeOK
  <2>2. ASSUME NEW u \in Thread
        PROVE usage'[u] = Cardinality(InUse(u)') /\ usage'[u] <= Limit[u]
    <3>1. CASE u = t
      <4>1. InUse(t)' = InUse(t) \ {m}
        BY <2>1 DEF InUse
      <4>2. Cardinality(InUse(t)') = Cardinality(InUse(t)) - 1
        BY <1>0, <2>0, <4>1, FS_RemoveElement, ZenonT(60)
      <4>3. usage'[t] = usage[t] - 1
        BY <2>0 DEF Typed, TypeOK
      <4> QED  BY <1>0, <2>0, <3>1, <4>2, <4>3
    <3>2. CASE u # t
      <4>1. m \notin InUse(u)
        BY <2>0, <3>2 DEF InUse
      <4>2. InUse(u)' = InUse(u)
        BY <2>1, <4>1 DEF InUse
      <4>3. usage'[u] = usage[u]
        BY <2>0, <3>2 DEF Typed, TypeOK
      <4> QED  BY <1>0, <4>2, <4>3
    <3> QED  BY <3>1, <3>2
  <2> QED  BY <2>2 DEF Counted, InUse
<1> QED  BY <1>1, <1>2, <1>3, UsageKinds

-----------------------------------------------------------------------------
(* Every step keeps the types, and what is known of the blocked calls and  *)
(* of the messages.                                                        *)
SmallTypes ==
  /\ resources \in Seq(Device) /\ Len(resources) <= MaxDevices
  /\ usage \in [Thread -> Nat] /\ reply \in [Thread -> Seq(Message)]
  /\ callback \in [Process -> Seq(App)] /\ awaiting \subseteq App
  /\ serving \in [Device -> SUBSET Message] /\ handles \in [Device -> SUBSET Handle]
BigTypes ==
  /\ fds \in [Process -> [Fd -> FileDescriptor]]
  /\ message \in [Message -> IpcMessage] /\ call \in [Thread -> BlockedCall]
  /\ queue \in [Device -> Seq(Message)]
  /\ \A d \in Device : Len(queue[d]) <= QueueSize
  /\ \A t \in Thread : CallOK(t)
  /\ \A m \in Message : MessageOK(m)
  /\ \A p \in Process, i \in Fd : FdOK(p, i)

LEMMA TypedParts == Typed <=> SmallTypes /\ BigTypes
BY DEF Typed, TypeOK, SmallTypes, BigTypes

LEMMA CallerOfCall ==
  ASSUME Typed, NEW t \in Thread
  PROVE  call[t].caller \in App \cup {NULL}
BY DEF Typed, TypeOK, BlockedCall

LEMMA SmallTyped ==
  ASSUME Typed, Located, Counted, Step
  PROVE  SmallTypes'
<1>0. SmallTypes /\ TypeOK /\ awaiting \in SUBSET App
  BY TypedParts DEF SmallTypes, Typed
<1>1. usage' \in [Thread -> Nat]
  <2>1. ASSUME NEW d \in Device, NEW m \in Extra, AnswersCallback(d, m) PROVE usage' \in [Thread -> Nat]
    BY <1>0, <2>1, FreedUser, SMTT(40) DEF SmallTypes
  <2>2. ASSUME NEW t \in Thread, NEW m \in Extra, Takes(t, m) PROVE usage' \in [Thread -> Nat]
    BY <1>0, <2>2 DEF Takes, SmallTypes
  <2>3. CASE UNCHANGED usage
    BY <1>0, <2>3 DEF SmallTypes
  <2> QED  BY <2>1, <2>2, <2>3, UsageKinds
<1>2. /\ reply' \in [Thread -> Seq(Message)]
      /\ serving' \in [Device -> SUBSET Message] /\ handles' \in [Device -> SUBSET Handle]
  <2>1. CASE Still
    BY <1>0, <2>1 DEF Still, SmallTypes
  <2>2. ASSUME NEW d \in Device, TakeRequest(d)
        PROVE  /\ reply' \in [Thread -> Seq(Message)]
               /\ serving' \in [Device -> SUBSET Message] /\ handles' \in [Device -> SUBSET Handle]
    BY <1>0, <2>2, TakeLocated DEF TakeRequest, SmallTypes
  <2>3. ASSUME NEW d \in Device, NEW m \in Message, AnswersCallback(d, m)
        PROVE  /\ reply' \in [Thread -> Seq(Message)]
               /\ serving' \in [Device -> SUBSET Message] /\ handles' \in [Device -> SUBSET Handle]
    BY <1>0, <2>3 DEF AnswersCallback, ReplyToCallback, SmallTypes
  <2>4. ASSUME NEW d \in Device, NEW m \in Message, NEW result \in Results, AnswersThread(d, m, result)
        PROVE  /\ reply' \in [Thread -> Seq(Message)]
               /\ serving' \in [Device -> SUBSET Message] /\ handles' \in [Device -> SUBSET Handle]
    <3>1. m \in Thread /\ reply[m] = << >> /\ reply' = [reply EXCEPT ![m] = Append(@, m)]
      BY <2>4 DEF AnswersThread, ReplyToThread
    <3>2. Append(reply[m], m) \in Seq(Message)
      BY <1>0, <3>1 DEF SmallTypes
    <3> QED  BY <1>0, <2>4, <3>1, <3>2 DEF AnswersThread, SmallTypes
  <2>5. ASSUME NEW t \in Thread, Done(t) \/ \E c \in BlockedCall : Sends(t, c)
        PROVE  /\ reply' \in [Thread -> Seq(Message)]
               /\ serving' \in [Device -> SUBSET Message] /\ handles' \in [Device -> SUBSET Handle]
    <3>1. UNCHANGED <<serving, handles>> /\ (UNCHANGED reply \/ Received(t))
      BY <2>5 DEF Done, Sends, InHand
    <3>2. Received(t) => Tail(reply[t]) \in Seq(Message)
      BY <1>0 DEF Received, SmallTypes
    <3> QED  BY <1>0, <3>1, <3>2 DEF Received, SmallTypes
  <2> QED  BY <2>1, <2>2, <2>3, <2>4, <2>5, Kinds DEF Answered
<1>3. resources' \in Seq(Device) /\ Len(resources') <= MaxDevices
  <2>1. CASE UNCHANGED resources
    BY <1>0, <2>1 DEF SmallTypes
  <2>2. ASSUME NEW d \in Device, RegisterResourceManager(d)
        PROVE  resources' \in Seq(Device) /\ Len(resources') <= MaxDevices
    <3>1. resources \in Seq(Device) /\ Len(resources) < MaxDevices /\ resources' = Append(resources, d)
      BY <1>0, <2>2 DEF RegisterResourceManager, SmallTypes
    <3>2. Append(resources, d) \in Seq(Device) /\ Len(Append(resources, d)) = Len(resources) + 1
          /\ Len(resources) \in Nat
      BY <3>1, AppendProperties, LenProperties
    <3> QED  BY <3>1, <3>2, LimitsAssumption
  <2>3. ASSUME NEW t \in Thread, ThreadStep(t) PROVE UNCHANGED resources
    <3>1. Done(t) \/ \E c : Sends(t, c)
      BY <2>3, DoneSteps, SendSteps DEF ThreadStep
    <3> QED  BY <3>1 DEF Done, Sends
  <2>4. ASSUME NEW d \in Device, TakeRequest(d) PROVE UNCHANGED resources
    BY <2>4 DEF TakeRequest
  <2>5. ASSUME NEW d \in Device, NEW m \in Message, Answered(d, m) PROVE UNCHANGED resources
    BY <2>5 DEF Answered, AnswersCallback, AnswersThread
  <2>6. ASSUME NEW p \in Process, TakeCallback(p) PROVE UNCHANGED resources
    BY <2>6 DEF TakeCallback
  <2>7. UNCHANGED vars => UNCHANGED resources
    BY DEF vars, kernelVars
  <2> QED  BY <2>1, <2>2, <2>3, <2>4, <2>5, <2>6, <2>7 DEF Step
<1>4. callback' \in [Process -> Seq(App)] /\ awaiting' \subseteq App
  <2> DEFINE OK == callback' \in [Process -> Seq(App)] /\ awaiting' \subseteq App
  <2>1. CASE UNCHANGED callback /\ awaiting' \subseteq App
    BY <1>0, <2>1 DEF SmallTypes
  <2>2. ASSUME NEW p \in Process, TakeCallback(p) PROVE OK
    <3>1. callback[p] \in Seq(App) /\ Tail(callback[p]) \in Seq(App)
      BY <1>0, <2>2 DEF SmallTypes, TakeCallback
    <3> QED  BY <1>0, <2>2, <3>1 DEF TakeCallback, SmallTypes
  <2>3. ASSUME NEW p \in Process, NEW a \in App, awaiting' \subseteq App,
               callback' = callback \/ callback' = [callback EXCEPT ![p] = Append(@, a)]
        PROVE  OK
    <3>1. Append(callback[p], a) \in Seq(App)
      BY <1>0 DEF SmallTypes
    <3> QED  BY <1>0, <2>3, <3>1 DEF SmallTypes
  <2>4. ASSUME NEW d \in Device, NEW m \in Message, AnswersCallback(d, m) PROVE OK
    <3>1. m \in Extra
      BY <2>4 DEF AnswersCallback
    <3>2. message[m].user \in Thread /\ message[m].caller \in App
      BY <2>4, <3>1, FreedUser
    <3>3. ProcessOf[message[m].user] \in Process
      BY <3>2 DEF Process
    <3> QED  BY <1>0, <2>3, <2>4, <3>2, <3>3 DEF AnswersCallback, ReplyToCallback
  <2>5. ASSUME NEW t \in Thread, Opened(t) PROVE OK
    <3>1. ProcessOf[t] \in Process
      BY DEF Process
    <3>2. /\ \/ callback' = callback
             \/ /\ call[t].caller # NULL
                /\ callback' = [callback EXCEPT ![ProcessOf[t]] = Append(@, call[t].caller)]
          /\ awaiting' \subseteq awaiting
      BY <2>5 DEF Opened, OpenSucceeds
    <3>3. call[t].caller # NULL => call[t].caller \in App
      BY CallerOfCall
    <3> QED  BY <1>0, <2>1, <2>3, <3>1, <3>2, <3>3
  <2>6. ASSUME NEW t \in Thread, OpenRefused(t) \/ OpenFailed(t) \/ CallReceives(t) \/ SendResumes(t) PROVE OK
    BY <1>0, <2>1, <2>6 DEF OpenRefused, OpenFailed, CallReceives, SendResumes
  <2>7. ASSUME NEW t \in Thread, NEW path \in Path, NEW j \in Nat, NEW a \in App \cup {NULL},
               OpenBegins(t, path, j, a) PROVE OK
    BY <1>0, <2>1, <2>7 DEF OpenBegins, Asks
  <2>8. ASSUME NEW t \in Thread, NEW j \in Nat, OpenGoesOn(t, j) PROVE OK
    BY <1>0, <2>1, <2>8, CallerOfCall DEF OpenGoesOn, Asks
  <2>9. ASSUME NEW t \in Thread, NEW i \in Fd, NEW command \in {"close", "use"}, NEW a \in App \cup {NULL},
               CallSent(t, i, command, a) PROVE OK
    BY <1>0, <2>1, <2>9 DEF CallSent, CallFD_Inner
  <2>10. ASSUME UNCHANGED <<callback, awaiting>> PROVE OK
    BY <1>0, <2>1, <2>10
  <2>11. ASSUME NEW d \in Device, RegisterResourceManager(d) \/ TakeRequest(d) PROVE OK
    BY <2>10, <2>11 DEF RegisterResourceManager, TakeRequest
  <2>12. ASSUME NEW d \in Device, NEW m \in Message, NEW result \in Results, AnswersThread(d, m, result)
         PROVE  OK
    BY <2>10, <2>12 DEF AnswersThread, ReplyToThread
  <2>13. ASSUME UNCHANGED vars PROVE OK
    BY <2>10, <2>13 DEF vars, kernelVars
  <2> HIDE DEF OK
  <2>14. OK
    <3>1. ASSUME NEW t \in Thread, ThreadStep(t) PROVE OK
      BY <3>1, <2>5, <2>6, <2>7, <2>8, <2>9 DEF ThreadStep
    <3>2. ASSUME NEW d \in Device, NEW m \in Message, Answered(d, m) PROVE OK
      BY <3>2, <2>4, <2>12 DEF Answered
    <3> QED  BY <2>2, <2>11, <2>13, <3>1, <3>2 DEF Step
  <2> QED  BY <2>14 DEF OK
<1> QED  BY <1>1, <1>2, <1>3, <1>4 DEF SmallTypes

LEMMA BigTyped ==
  ASSUME Typed, Located, Step
  PROVE  BigTypes'
<1>0. BigTypes /\ TypeOK
  BY TypedParts DEF Typed
<1>1. fds' \in [Process -> [Fd -> FileDescriptor]] /\ \A p \in Process, i \in Fd : FdOK(p, i)'
  <2> DEFINE OK == fds' \in [Process -> [Fd -> FileDescriptor]] /\ \A p \in Process, i \in Fd : FdOK(p, i)'
  <2>1. ASSUME UNCHANGED fds PROVE OK
    BY <1>0, <2>1 DEF BigTypes, FdOK
  <2>2. ASSUME NEW t \in Thread, NEW c, Sends(t, c) PROVE OK
    BY <2>2, SendTyped DEF Sends
  <2>3. ASSUME NEW t \in Thread, CallReceives(t) PROVE OK
    <3>1. fds' = Closed(t, call[t])
      BY <2>3 DEF CallReceives
    <3>2. NoFd \in FileDescriptor /\ NoFd.device = NULL
      BY Nothing
    <3>3. fds' = fds \/ fds' = [fds EXCEPT ![ProcessOf[t]][call[t].fd] = NoFd]
      BY <3>1 DEF Closed
    <3>4. CASE fds' = [fds EXCEPT ![ProcessOf[t]][call[t].fd] = NoFd]
      <4>1. fds' \in [Process -> [Fd -> FileDescriptor]]
        BY <1>0, <3>2, <3>4 DEF BigTypes, Process
      <4>2. \A p \in Process, i \in Fd : fds'[p][i] = fds[p][i] \/ fds'[p][i] = NoFd
        BY <1>0, <3>4 DEF BigTypes
      <4> QED  BY <1>0, <3>2, <4>1, <4>2 DEF BigTypes, FdOK
    <3> QED  BY <2>1, <3>3, <3>4
  <2>4. ASSUME NEW t \in Thread, Opened(t) PROVE OK
    <3> DEFINE p == ProcessOf[t]
               f == [device |-> call[t].device, handle |-> message[t].result]
    <3>1. /\ message[t].result \in Handle
          /\ fds' = [fds EXCEPT ![p] = [i \in Fd |-> IF i \in NewFd(p) THEN f ELSE @[i]]]
      BY <2>4 DEF Opened, OpenSucceeds
    <3>2. call[t].device \in Device \cup {NULL} /\ p \in Process
      BY <1>0 DEF BigTypes, BlockedCall, Process
    <3>3. f \in FileDescriptor /\ f.handle # NULL
      BY <3>1, <3>2, NamesAssumption DEF FileDescriptor
    <3> HIDE DEF f, p
    <3>4. /\ fds' \in [Process -> [Fd -> FileDescriptor]]
          /\ \A q \in Process, i \in Fd : fds'[q][i] = fds[q][i] \/ fds'[q][i] = f
      BY <1>0, <3>1, <3>2, <3>3 DEF BigTypes
    <3> QED  BY <1>0, <3>3, <3>4 DEF BigTypes, FdOK
  <2>5. ASSUME NEW t \in Thread, ThreadStep(t) PROVE OK
    <3>1. OpenRefused(t) \/ OpenFailed(t) => UNCHANGED fds
      BY DEF OpenRefused, OpenFailed
    <3> HIDE DEF OK
    <3> QED  BY <2>1, <2>2, <2>3, <2>4, <2>5, <3>1, SendSteps DEF ThreadStep
  <2>6. ASSUME NEW d \in Device, RegisterResourceManager(d) \/ TakeRequest(d) PROVE UNCHANGED fds
    BY <2>6 DEF RegisterResourceManager, TakeRequest
  <2>7. ASSUME NEW d \in Device, NEW m \in Message, Answered(d, m) PROVE UNCHANGED fds
    BY <2>7 DEF Answered, AnswersCallback, AnswersThread
  <2>8. ASSUME NEW p \in Process, TakeCallback(p) PROVE UNCHANGED fds
    BY <2>8 DEF TakeCallback
  <2>9. UNCHANGED vars => UNCHANGED fds
    BY DEF vars, kernelVars
  <2> HIDE DEF OK
  <2>10. OK
    BY <2>1, <2>5, <2>6, <2>7, <2>8, <2>9 DEF Step
  <2> QED  BY <2>10 DEF OK
<1>2. /\ message' \in [Message -> IpcMessage] /\ call' \in [Thread -> BlockedCall]
      /\ queue' \in [Device -> Seq(Message)]
      /\ \A d \in Device : Len(queue'[d]) <= QueueSize
      /\ \A t \in Thread : CallOK(t)'
      /\ \A m \in Message : MessageOK(m)'
  <2> DEFINE OK == /\ message' \in [Message -> IpcMessage] /\ call' \in [Thread -> BlockedCall]
                   /\ queue' \in [Device -> Seq(Message)]
                   /\ \A d \in Device : Len(queue'[d]) <= QueueSize
                   /\ \A t \in Thread : CallOK(t)'
                   /\ \A m \in Message : MessageOK(m)'
  <2>1. ASSUME UNCHANGED <<message, call>>, queue' \in [Device -> Seq(Message)],
               \A d \in Device : Len(queue'[d]) <= QueueSize
        PROVE  OK
    BY <1>0, <2>1 DEF BigTypes, CallOK, MessageOK, Busy, Caller
  <2>2. ASSUME Still PROVE OK
    BY <1>0, <2>1, <2>2 DEF Still, BigTypes
  <2>3. ASSUME NEW d \in Device, TakeRequest(d) PROVE OK
    <3>1. UNCHANGED <<message, call>> /\ queue' \in [Device -> Seq(Message)]
      BY <1>0, <2>3, TakeLocated DEF TakeRequest, TypeOK
    <3> QED  BY <2>1, <2>3, <3>1, TakeLocated
  <2>4. ASSUME NEW t \in Thread, Done(t) PROVE OK
    <3>1. queue' = queue
      BY <2>4 DEF Done
    <3> QED  BY <1>0, <2>4, <3>1, DoneTyped DEF Done, Ends, BigTypes
  <2>5. ASSUME NEW t \in Thread, NEW c, Sends(t, c) PROVE OK
    BY <2>5, SendTyped DEF Sends, Written
  <2>6. ASSUME NEW d \in Device, NEW m \in Message, Answered(d, m) PROVE OK
    <3>1. /\ Placed(m) /\ m \in serving[d] /\ queue' = queue /\ call' = call
      BY <2>6 DEF Answered, AnswersCallback, AnswersThread, Located
    <3>2. /\ message' \in [Message -> IpcMessage]
          /\ \A n \in Message \ {m} : message'[n] = message[n]
      <4>1. CASE AnswersCallback(d, m)
        BY <1>0, <4>1, Nothing DEF AnswersCallback, ReplyToCallback, TypeOK
      <4>2. ASSUME NEW result \in Results, AnswersThread(d, m, result)
            PROVE  /\ message' \in [Message -> IpcMessage]
                   /\ \A n \in Message \ {m} : message'[n] = message[n]
        <5>1. message' = [message EXCEPT ![m].result = result]
          BY <4>2 DEF AnswersThread, ReplyToThread
        <5> QED  BY <1>0, <5>1, ZenonT(60) DEF TypeOK, IpcMessage
      <4> QED  BY <2>6, <4>1, <4>2 DEF Answered
    <3>3. ASSUME NEW u \in Thread PROVE CallOK(u)'
      <4>1. CallOK(u)
        BY <1>0 DEF BigTypes
      <4>2. CASE call[u] = NoCall \/ call[u].message # m
        BY <3>1, <3>2, <4>1, <4>2, ExtraFacts DEF CallOK, Busy, Caller
      <4>3. CASE call[u] # NoCall /\ call[u].message = m
        <5>1. call[u].op # "send"
          BY <3>1, <4>3 DEF Placed, Waits
        <5>2. m = u /\ m \in Thread
          BY <1>0, <4>1, <4>3, <5>1 DEF CallOK, BigTypes, BlockedCall
        <5>3. /\ message'[m].command = message[m].command /\ message'[m].server = message[m].server
              /\ Busy(m)' = Busy(m) /\ Caller(m)' = Caller(m)
          <6>1. m \notin Extra
            BY <5>2, ExtraFacts
          <6>2. PICK result \in Results : message' = [message EXCEPT ![m].result = result]
            BY <2>6, <6>1 DEF Answered, AnswersCallback, AnswersThread, ReplyToThread
          <6> QED  BY <1>0, <3>1, <6>1, <6>2 DEF TypeOK, Busy, Caller
        <5> HIDE DEF Busy, Caller
        <5> QED  BY <3>1, <4>1, <4>3, <5>3 DEF CallOK
      <4> QED  BY <4>2, <4>3
    <3>4. ASSUME NEW n \in Message PROVE MessageOK(n)'
      <4>1. MessageOK(n)
        BY <1>0 DEF BigTypes
      <4>2. CASE n # m
        BY <3>1, <3>2, <4>1, <4>2 DEF MessageOK, Busy
      <4>3. CASE n = m /\ m \in Extra
        <5>1. message'[m] = NoMessage
          BY <1>0, <2>6, <4>3, ExtraFacts DEF Answered, AnswersCallback, AnswersThread, ReplyToCallback, TypeOK
        <5> QED  BY <4>3, <5>1, Nothing DEF MessageOK, Busy
      <4>4. CASE n = m /\ m \notin Extra
        <5>1. PICK result \in Results : message' = [message EXCEPT ![m].result = result]
          BY <2>6, <4>4 DEF Answered, AnswersCallback, AnswersThread, ReplyToThread
        <5>2. /\ message'[m].command = message[m].command /\ message'[m].server = message[m].server
              /\ message'[m].handle = message[m].handle /\ Busy(m)' = Busy(m)
          BY <1>0, <3>1, <4>4, <5>1 DEF TypeOK, Busy
        <5> HIDE DEF Busy
        <5> QED  BY <4>1, <4>4, <5>2 DEF MessageOK
      <4> QED  BY <4>2, <4>3, <4>4
    <3> QED  BY <1>0, <3>1, <3>2, <3>3, <3>4 DEF BigTypes
  <2> HIDE DEF OK
  <2>7. OK
    BY <2>2, <2>3, <2>4, <2>5, <2>6, Kinds
  <2> QED  BY <2>7 DEF OK
<1> QED  BY <1>1, <1>2 DEF BigTypes

LEMMA TypedStep == ASSUME Typed, Located, Counted, Step PROVE Typed'
BY SmallTyped, BigTyped, TypedParts DEF Typed, TypeOK, SmallTypes, BigTypes

LEMMA PoolInit == Init => Typed /\ Located /\ Counted
<1> SUFFICES ASSUME Init PROVE Typed /\ Located /\ Counted
  OBVIOUS
<1>1. /\ \A d \in Device : queue[d] = << >> /\ serving[d] = {}
      /\ \A t \in Thread : call[t] = NoCall /\ reply[t] = << >> /\ usage[t] = 0
      /\ \A m \in Message : message[m] = NoMessage
      /\ \A p \in Process, i \in Fd : fds[p][i] = NoFd
  BY DEF Init
<1>2. \A m \in Message : ~ Busy(m)
  BY <1>1, Nothing, ExtraFacts, NamesAssumption DEF Busy
<1>3. Typed
  <2>1. TypeOK
    <3>1. NoCall \in BlockedCall /\ NoMessage \in IpcMessage /\ NoFd \in FileDescriptor
      BY Nothing
    <3> QED  BY <3>1, LimitsAssumption DEF Init, TypeOK
  <2>2. \A d \in Device : Len(queue[d]) <= QueueSize
    BY <1>1, EmptySeq, LimitsAssumption
  <2> QED  BY <1>1, <1>2, <2>1, <2>2, Nothing DEF Typed, CallOK, MessageOK, FdOK
<1>4. Located
  <2>1. \A d \in Device : Distinct(queue[d]) /\ Queued(d) = {}
    BY <1>1 DEF Distinct, Queued, Elements
  <2>2. \A m \in Message : ~ Waits(m) /\ ~ Replied(m)
    BY <1>1, Nothing DEF Waits, Replied
  <2> QED  BY <1>1, <1>2, <2>1, <2>2 DEF Located, Placed
<1>5. Counted
  <2>1. \A t \in Thread : InUse(t) = {}
    BY <1>1, Nothing, ExtraFacts DEF InUse
  <2>2. \A t \in Thread : usage[t] = Cardinality(InUse(t)) /\ usage[t] <= Limit[t]
    <3>1. Cardinality({}) = 0
      BY FS_EmptySet
    <3>2. \A t \in Thread : Limit[t] \in Nat /\ usage[t] = 0
      BY <1>1, LimitsAssumption
    <3>3. \A t \in Thread : 0 <= Limit[t]
      BY <3>2
    <3> QED  BY <2>1, <3>1, <3>2, <3>3
  <2> QED  BY <2>2 DEF Counted, InUse
<1> QED  BY <1>3, <1>4, <1>5

(* The tables, the messages and the blocked calls have their types.        *)
THEOREM TypeCorrect == Spec => []TypeOK
<1>1. Typed /\ Located /\ Counted /\ [Next]_vars => (Typed /\ Located /\ Counted)'
  BY StepCases, TypedStep, LocatedStep, CountedStep
<1>2. Typed => TypeOK
  BY DEF Typed
<1> QED  BY <1>1, <1>2, PoolInit, PTL DEF Spec

(* Every message of the pool that is in use is counted against the thread  *)
(* that took it, within its limit; and a message in use is in one place.   *)
THEOREM PoolIsAccounted == Spec => []PoolAccounted
<1>1. Typed /\ Located /\ Counted /\ [Next]_vars => (Typed /\ Located /\ Counted)'
  BY StepCases, TypedStep, LocatedStep, CountedStep
<1>2. Typed /\ Located /\ Counted => PoolAccounted
  BY LocatedOnce DEF Typed, PoolAccounted
<1> QED  BY <1>1, <1>2, PoolInit, PTL DEF Spec

-----------------------------------------------------------------------------
(* What a step does to a message that a program has passed: it begins a    *)
(* call with it, it puts it in the queue for the program, or finds that    *)
(* queue full, or it is the last that is heard of it.                      *)
Kept(a) ==
  /\ \A m \in Extra : Carries(m, a)' <=> Carries(m, a)
  /\ \A t \in Thread : Opens(t, a)' <=> Opens(t, a)
  /\ \A p \in Process : Posted(p, a)' <=> Posted(p, a)
  /\ a \in awaiting' <=> a \in awaiting
Dropped(a) == ~ Held(a)' /\ a \notin awaiting'
Begun(a) ==
  /\ a \notin awaiting /\ a \in awaiting'
  /\ \A p \in Process : ~ Posted(p, a)'
  /\ \/ /\ \E m \in Extra : \A n \in Extra : Carries(n, a)' <=> n = m
        /\ \A t \in Thread : ~ Opens(t, a)'
     \/ /\ \E t \in Thread : \A u \in Thread : Opens(u, a)' <=> u = t
        /\ \A m \in Extra : ~ Carries(m, a)'
PostedTo(a, p) ==
  /\ a \in awaiting' /\ Len(callback[p]) < CallbackSize
  /\ callback' = [callback EXCEPT ![p] = Append(callback[p], a)]
  /\ \A m \in Extra : ~ Carries(m, a)'
  /\ \A t \in Thread : ~ Opens(t, a)'
  /\ \A r \in Process : Posted(r, a)' <=> r = p
Lost(a, p) ==
  /\ ~ (Len(callback[p]) < CallbackSize) /\ a \notin Elements(callback[p])
  /\ ~ Held(a)'
HolderStep(a) ==
  Kept(a) \/ Dropped(a) \/ Begun(a) \/ \E p \in Process : PostedTo(a, p) \/ Lost(a, p)

LEMMA KeptMessages ==
  ASSUME NEW a \in App, \A m \in Extra : message'[m] = message[m],
         \A t \in Thread : call'[t].caller = call[t].caller,
         callback' = callback, a \in awaiting' <=> a \in awaiting
  PROVE  Kept(a)
BY DEF Kept, Carries, Opens, Posted

LEMMA HolderAnswer ==
  ASSUME Typed, Located, Counted, Answers, NEW a \in App, NEW d \in Device, NEW m \in Message,
         Answered(d, m)
  PROVE  HolderStep(a)
<1>1. CASE \E result \in Results : AnswersThread(d, m, result)
  BY <1>1, ExtraFacts, KeptMessages DEF HolderStep, AnswersThread, ReplyToThread, Typed, TypeOK
<1>2. CASE AnswersCallback(d, m)
  <2>0. m \in Extra /\ m \in Message
    BY <1>2 DEF AnswersCallback
  <2>1. PICK t \in Thread, b \in App :
          /\ t = message[m].user /\ b = message[m].caller /\ m \in InUse(t)
          /\ message' = [message EXCEPT ![m] = NoMessage]
    BY <1>2, <2>0, FreedUser
  <2>2. PICK p \in Process : p = ProcessOf[t]
    BY DEF Process
  <2>3. callback' = IF Len(callback[p]) < CallbackSize
                    THEN [callback EXCEPT ![p] = Append(callback[p], b)] ELSE callback
    BY <1>2, <2>1, <2>2 DEF AnswersCallback, ReplyToCallback
  <2>4. UNCHANGED <<call, awaiting>>
    BY <1>2 DEF AnswersCallback
  <2>5. ~ message'[m].inQueue /\ \A n \in Extra \ {m} : message'[n] = message[n]
    BY <2>0, <2>1, Nothing, ExtraFacts DEF Typed, TypeOK
  <2>6. Carries(m, b) /\ \A q \in Process : callback[q] \in Seq(App)
    BY <2>0, <2>1 DEF Carries, InUse, Typed, TypeOK
  <2>7. \A n \in Extra : Carries(n, a)' <=> Carries(n, a) /\ n # m
    BY <2>5 DEF Carries
  <2>8. \A u \in Thread : Opens(u, a)' <=> Opens(u, a)
    BY <2>4 DEF Opens
  <2>9. OneHolder(a) /\ OneHolder(b)
    BY DEF Answers
  <2>10. Elements(Append(callback[p], b)) = Elements(callback[p]) \cup {b}
    BY <2>6, AppendElements
  <2>11. CASE a = b
    <3>1. /\ a \in awaiting' /\ \A n \in Extra : ~ Carries(n, a)'
          /\ \A u \in Thread : ~ Opens(u, a)'
          /\ \A q \in Process : ~ Posted(q, a)
      BY <2>0, <2>4, <2>6, <2>7, <2>8, <2>9, <2>11 DEF OneHolder
    <3>2. CASE Len(callback[p]) < CallbackSize
      <4>1. callback' = [callback EXCEPT ![p] = Append(callback[p], a)]
        BY <2>3, <2>11, <3>2
      <4>2. \A q \in Process : Posted(q, a)' <=> q = p
        BY <2>10, <2>11, <3>1, <4>1 DEF Posted, Typed, TypeOK
      <4> QED  BY <3>1, <3>2, <4>1, <4>2 DEF HolderStep, PostedTo
    <3>3. CASE ~ (Len(callback[p]) < CallbackSize)
      <4>1. callback' = callback
        BY <2>3, <3>3
      <4>2. \A q \in Process : ~ Posted(q, a)'
        BY <3>1, <4>1 DEF Posted
      <4>3. a \notin Elements(callback[p]) /\ ~ Held(a)'
        BY <3>1, <4>2 DEF Posted, Held
      <4> QED  BY <3>3, <4>3 DEF HolderStep, Lost
    <3> QED  BY <3>2, <3>3
  <2>12. CASE a # b
    <3>1. \A n \in Extra : Carries(n, a)' <=> Carries(n, a)
      BY <2>1, <2>7, <2>12 DEF Carries
    <3>2. \A q \in Process : Posted(q, a)' <=> Posted(q, a)
      BY <2>3, <2>10, <2>12 DEF Posted, Typed, TypeOK
    <3> QED  BY <2>4, <2>8, <3>1, <3>2 DEF HolderStep, Kept
  <2> QED  BY <2>11, <2>12
<1> QED  BY <1>1, <1>2 DEF Answered

LEMMA HolderTake ==
  ASSUME Typed, Answers, NEW a \in App, NEW p \in Process, TakeCallback(p)
  PROVE  HolderStep(a)
<1>1. /\ callback[p] # << >> /\ callback' = [callback EXCEPT ![p] = Tail(callback[p])]
      /\ awaiting' = awaiting \ {Head(callback[p])} /\ UNCHANGED <<message, call>>
  BY DEF TakeCallback
<1>2. /\ callback[p] \in Seq(App) /\ Distinct(callback[p]) /\ OneHolder(a)
      /\ callback \in [Process -> Seq(App)]
  BY DEF Typed, TypeOK, Answers
<1>3. /\ Elements(callback[p]) = Elements(Tail(callback[p])) \cup {Head(callback[p])}
      /\ Head(callback[p]) \notin Elements(Tail(callback[p]))
  BY <1>1, <1>2, TailElements
<1>4. /\ \A m \in Extra : Carries(m, a)' <=> Carries(m, a)
      /\ \A t \in Thread : Opens(t, a)' <=> Opens(t, a)
  BY <1>1 DEF Carries, Opens
<1>5. \A r \in Process : Posted(r, a)' <=> Posted(r, a) /\ ~ (r = p /\ a = Head(callback[p]))
  BY <1>1, <1>2, <1>3 DEF Posted
<1>6. CASE a = Head(callback[p])
  <2>1. Posted(p, a)
    BY <1>3, <1>6 DEF Posted
  <2>2. ~ Held(a)'
    BY <1>2, <1>4, <1>5, <1>6, <2>1 DEF OneHolder, Held
  <2> QED  BY <1>1, <1>6, <2>2 DEF HolderStep, Dropped
<1>7. CASE a # Head(callback[p])
  BY <1>1, <1>4, <1>5, <1>7 DEF HolderStep, Kept
<1> QED  BY <1>6, <1>7

LEMMA SentCaller ==
  ASSUME Typed, NEW t \in Thread, NEW c \in BlockedCall, Sends(t, c)
  PROVE  /\ \A u \in Thread \ {t} : call'[u] = call[u]
         /\ call'[t].caller = c.caller
         /\ \A m \in Extra : m # c.message => message'[m] = message[m]
<1>1. SendWaits(t, c) \/ SendAwaits(t, c) \/ SendReturns(t, c)
  BY SendCases DEF Sends
<1>2. c.message \in Extra => c.caller = NULL
  BY ExtraFacts DEF Sends, Sendable
<1>3. \A op : With(c, op).caller = c.caller
  BY DEF With
<1>4. \A m \in Extra : m # c.message => message'[m] = message[m]
  BY ExtraFacts DEF Sends, Written
<1>5. call' = [call EXCEPT ![t] = call'[t]] /\ call'[t].caller = c.caller
  BY <1>1, <1>2, <1>3, Nothing DEF SendWaits, SendAwaits, SendReturns, Typed, TypeOK
<1> QED  BY <1>4, <1>5 DEF Typed, TypeOK

LEMMA HolderOpens ==
  ASSUME Typed, Located, Answers, NEW a \in App, NEW t \in Thread,
         \/ \E path \in Path, j \in Nat, b \in App \cup {NULL} : OpenBegins(t, path, j, b)
         \/ \E j \in Nat : OpenGoesOn(t, j)
  PROVE  HolderStep(a)
<1>1. PICK path \in Path, j \in Nat, b \in App \cup {NULL} :
        /\ Sends(t, OpenOf(t, path, j, b)) /\ Asks(t, path, j, b)
        /\ (call[t] = NoCall /\ b \notin awaiting) \/ (b = call[t].caller)
  <2>1. CASE \E path \in Path, j \in Nat, b \in App \cup {NULL} : OpenBegins(t, path, j, b)
    BY <2>1, SendSteps DEF OpenBegins, NewCaller
  <2>2. CASE \E j \in Nat : OpenGoesOn(t, j)
    <3>1. PICK j \in Nat : OpenGoesOn(t, j)
      BY <2>2
    <3>2. Sends(t, OpenOf(t, call[t].path, j, call[t].caller))
      BY <3>1, SendSteps
    <3> QED  BY <3>1, <3>2, CallerOfCall DEF OpenGoesOn
  <2> QED  BY <2>1, <2>2
<1> DEFINE c == OpenOf(t, path, j, b)
<1>2. /\ c \in BlockedCall /\ c.caller = b /\ c.message = t
      /\ awaiting' = awaiting \cup ({b} \ {NULL}) /\ callback' = callback
  BY <1>1 DEF Asks, OpenOf
<1> HIDE DEF c
<1>3. /\ \A u \in Thread \ {t} : call'[u] = call[u]
      /\ call'[t].caller = b /\ \A m \in Extra : message'[m] = message[m]
  BY <1>1, <1>2, SentCaller, ExtraFacts DEF c
<1>4. OneHolder(a) /\ a # NULL
  BY NamesAssumption DEF Answers
<1>5. /\ \A m \in Extra : Carries(m, a)' <=> Carries(m, a)
      /\ \A p \in Process : Posted(p, a)' <=> Posted(p, a)
      /\ \A u \in Thread \ {t} : Opens(u, a)' <=> Opens(u, a)
      /\ Opens(t, a)' <=> a = b
  BY <1>2, <1>3 DEF Carries, Posted, Opens
<1>6. CASE b = call[t].caller
  <2>1. Opens(t, a)' <=> Opens(t, a)
    BY <1>5, <1>6 DEF Opens
  <2>2. a \in awaiting' <=> a \in awaiting
    <3>1. a = b => a \in awaiting
      BY <1>4, <1>6 DEF OneHolder, Opens
    <3> QED  BY <1>2, <3>1
  <2> QED  BY <1>5, <2>1, <2>2 DEF HolderStep, Kept
<1>7. CASE call[t] = NoCall /\ b \notin awaiting
  <2>1. ~ Opens(t, a)
    BY <1>4, <1>7, Nothing DEF Opens
  <2>2. CASE a = b
    <3>1. a \notin awaiting /\ a \in awaiting'
      BY <1>2, <1>4, <1>7, <2>2
    <3>2. /\ \A m \in Extra : ~ Carries(m, a)'
          /\ \A p \in Process : ~ Posted(p, a)'
          /\ \A u \in Thread : Opens(u, a)' <=> u = t
      BY <1>4, <1>5, <2>2, <3>1 DEF OneHolder
    <3> QED  BY <3>1, <3>2 DEF HolderStep, Begun
  <2>3. CASE a # b
    BY <1>2, <1>5, <2>1, <2>3 DEF HolderStep, Kept
  <2> QED  BY <2>2, <2>3
<1> QED  BY <1>1, <1>6, <1>7

LEMMA HolderCalls ==
  ASSUME Typed, Located, Answers, NEW a \in App, NEW t \in Thread,
         NEW i \in Fd, NEW command \in {"close", "use"}, NEW b \in App \cup {NULL},
         CallSent(t, i, command, b)
  PROVE  HolderStep(a)
<1>0. CallFD_Inner(t, i, command, b) /\ OneHolder(a) /\ a # NULL
  BY NamesAssumption DEF CallSent, Answers
<1>1. PICK m \in Message, c \in BlockedCall :
        /\ Sends(t, c) /\ ~ Busy(m)
        /\ b = NULL => m = t
        /\ b # NULL => m \in Extra
        /\ c.message = m /\ c.caller = NULL /\ message'[m] = MessageFor(t, i, command, b)
        /\ call[t] = NoCall
  <2> DEFINE m == IF b = NULL THEN t ELSE FirstOf(FreeExtra)
             c == CallOf(i, command, m, fds[ProcessOf[t]][i].device)
  <2>1. /\ Sendable(t, c) /\ Written(t, c) /\ Send(t, c) /\ m \in Message /\ ~ Busy(m)
        /\ b = NULL => m = t
        /\ b # NULL => m \in Extra
        /\ c.message = m /\ c.caller = NULL /\ message'[m] = MessageFor(t, i, command, b)
        /\ call[t] = NoCall
    BY <1>0, CallSendable
  <2>2. Sends(t, c)
    BY SendSteps
  <2> HIDE DEF c, m
  <2> QED  BY <2>1, <2>2 DEF Sendable
<1>3. /\ awaiting' = awaiting \cup ({b} \ {NULL}) /\ callback' = callback
      /\ b \notin awaiting
  BY <1>0 DEF CallFD_Inner, CallSent, NewCaller
<1>4. /\ \A u \in Thread \ {t} : call'[u] = call[u]
      /\ call'[t].caller = NULL
      /\ \A n \in Extra : n # m => message'[n] = message[n]
  BY <1>1, SentCaller
<1>5. /\ \A u \in Thread : Opens(u, a)' <=> Opens(u, a)
      /\ \A p \in Process : Posted(p, a)' <=> Posted(p, a)
      /\ \A n \in Extra : n # m => (Carries(n, a)' <=> Carries(n, a))
  BY <1>0, <1>1, <1>3, <1>4, Nothing DEF Opens, Posted, Carries
<1>6. CASE b = NULL
  <2>1. m \notin Extra
    BY <1>1, <1>6, ExtraFacts
  <2> QED  BY <1>3, <1>5, <1>6, <2>1 DEF HolderStep, Kept
<1>7. CASE b # NULL
  <2>1. ~ Carries(m, a)
    BY <1>1, <1>7 DEF Busy, Carries
  <2>2. message'[m].inQueue /\ message'[m].caller = b
    <3>1. MessageFor(t, i, command, b).inQueue = (b # NULL)
          /\ MessageFor(t, i, command, b).caller = b
      BY DEF MessageFor
    <3> QED  BY <1>1, <1>7, <3>1
  <2>3. Carries(m, a)' <=> a = b
    BY <1>1, <1>7, <2>2 DEF Carries
  <2>4. CASE a = b
    <3>1. a \notin awaiting /\ a \in awaiting'
      BY <1>3, <1>7, <2>4
    <3>2. /\ \A u \in Thread : ~ Opens(u, a)'
          /\ \A p \in Process : ~ Posted(p, a)'
          /\ \A n \in Extra : Carries(n, a)' <=> n = m
      BY <1>0, <1>5, <2>3, <2>4, <3>1 DEF OneHolder
    <3> QED  BY <1>1, <1>7, <3>1, <3>2 DEF HolderStep, Begun
  <2>5. CASE a # b
    BY <1>3, <1>5, <2>1, <2>3, <2>5 DEF HolderStep, Kept
  <2> QED  BY <2>4, <2>5
<1> QED  BY <1>6, <1>7

LEMMA HolderEnds ==
  ASSUME Typed, Located, Answers, NEW a \in App, NEW t \in Thread,
         OpenRefused(t) \/ OpenFailed(t) \/ Opened(t) \/ CallReceives(t) \/ SendResumes(t)
  PROVE  HolderStep(a)
<1>0. OneHolder(a) /\ a # NULL /\ CallOK(t) /\ TypeOK
  BY NamesAssumption DEF Answers, Typed
<1>1. CASE SendResumes(t)
  <2>1. Sends(t, call[t]) /\ call[t] \in BlockedCall /\ UNCHANGED <<message, callback, awaiting>>
    BY <1>0, <1>1, SendSteps DEF SendResumes, TypeOK
  <2>2. \A u \in Thread : call'[u].caller = call[u].caller
    BY <2>1, SentCaller
  <2> QED  BY <2>1, <2>2, KeptMessages DEF HolderStep
<1>2. CASE ~ SendResumes(t)
  <2>1. /\ call'[t] = NoCall /\ \A u \in Thread \ {t} : call'[u] = call[u]
        /\ \A m \in Extra : message'[m] = message[m]
    BY <1>0, <1>2, DoneSteps, ExtraFacts DEF Done, Ends, TypeOK
  <2>2. /\ \A u \in Thread : Opens(u, a)' <=> Opens(u, a) /\ u # t
        /\ \A m \in Extra : Carries(m, a)' <=> Carries(m, a)
    BY <1>0, <2>1, Nothing DEF Opens, Carries
  <2>3. ASSUME UNCHANGED <<callback, awaiting>>, call[t].caller = NULL PROVE HolderStep(a)
    BY <1>0, <2>2, <2>3 DEF HolderStep, Kept, Posted, Opens
  <2>4. CASE OpenRefused(t)
    BY <2>3, <2>4, Nothing DEF OpenRefused
  <2>5. CASE CallReceives(t)
    <3>1. call[t].caller = NULL
      BY <1>0, <2>5, Nothing DEF CallReceives, CallOK
    <3> QED  BY <2>3, <2>5, <3>1 DEF CallReceives
  <2>6. ASSUME callback' = callback, awaiting' = awaiting \ {call[t].caller} PROVE HolderStep(a)
    <3>1. \A p \in Process : Posted(p, a)' <=> Posted(p, a)
      BY <2>6 DEF Posted
    <3>2. CASE call[t].caller = a
      <4>1. ~ Held(a)'
        BY <1>0, <2>2, <3>1, <3>2 DEF OneHolder, Opens, Held
      <4> QED  BY <2>6, <3>2, <4>1 DEF HolderStep, Dropped
    <3>3. CASE call[t].caller # a
      <4>1. a \in awaiting' <=> a \in awaiting
        BY <2>6, <3>3
      <4>2. \A u \in Thread : Opens(u, a)' <=> Opens(u, a)
        BY <2>2, <3>3 DEF Opens
      <4> QED  BY <2>2, <3>1, <4>1, <4>2 DEF HolderStep, Kept
    <3> QED  BY <3>2, <3>3
  <2>7. CASE OpenFailed(t)
    BY <2>6, <2>7 DEF OpenFailed
  <2>8. CASE Opened(t)
    <3>1. PICK p \in Process, b \in App \cup {NULL} : p = ProcessOf[t] /\ b = call[t].caller
      BY CallerOfCall DEF Process
    <3>2. CASE b # NULL /\ Len(callback[p]) < CallbackSize
      <4>1. callback' = [callback EXCEPT ![p] = Append(callback[p], b)] /\ awaiting' = awaiting
        BY <2>8, <3>1, <3>2 DEF Opened, OpenSucceeds
      <4>2. callback \in [Process -> Seq(App)] /\ b \in App
        BY <1>0, <3>2 DEF TypeOK
      <4>3. Elements(Append(callback[p], b)) = Elements(callback[p]) \cup {b}
        BY <4>2, AppendElements
      <4>4. \A r \in Process : Posted(r, a)' <=> Posted(r, a) \/ (r = p /\ a = b)
        BY <4>1, <4>2, <4>3 DEF Posted
      <4>5. CASE a = b
        <5>1. Opens(t, a)
          BY <3>1, <4>5 DEF Opens
        <5>2. /\ a \in awaiting'
              /\ \A m \in Extra : ~ Carries(m, a)'
              /\ \A u \in Thread : ~ Opens(u, a)'
              /\ \A r \in Process : Posted(r, a)' <=> r = p
          BY <1>0, <2>2, <4>1, <4>4, <4>5, <5>1 DEF OneHolder
        <5> QED  BY <3>2, <4>1, <4>5, <5>2 DEF HolderStep, PostedTo
      <4>6. CASE a # b
        <5>1. \A u \in Thread : Opens(u, a)' <=> Opens(u, a)
          BY <2>2, <3>1, <4>6 DEF Opens
        <5> QED  BY <2>2, <4>1, <4>4, <4>6, <5>1 DEF HolderStep, Kept
      <4> QED  BY <4>5, <4>6
    <3>3. CASE ~ (b # NULL /\ Len(callback[p]) < CallbackSize)
      BY <2>6, <2>8, <3>1, <3>3 DEF Opened, OpenSucceeds
    <3> QED  BY <3>2, <3>3
  <2> QED  BY <1>2, <2>4, <2>5, <2>7, <2>8
<1> QED  BY <1>1, <1>2

LEMMA HolderSteps ==
  ASSUME Typed, Located, Counted, Answers, NEW a \in App, Step
  PROVE  HolderStep(a)
<1>1. ASSUME UNCHANGED <<message, call, callback, awaiting>> PROVE HolderStep(a)
  BY <1>1, KeptMessages DEF HolderStep
<1>2. ASSUME NEW d \in Device, RegisterResourceManager(d) \/ TakeRequest(d) PROVE HolderStep(a)
  BY <1>1, <1>2 DEF RegisterResourceManager, TakeRequest
<1>3. ASSUME UNCHANGED vars PROVE HolderStep(a)
  BY <1>1, <1>3 DEF vars, kernelVars
<1>4. ASSUME NEW t \in Thread, ThreadStep(t) PROVE HolderStep(a)
  BY <1>4, HolderOpens, HolderCalls, HolderEnds DEF ThreadStep
<1> QED  BY <1>2, <1>3, <1>4, HolderAnswer, HolderTake DEF Step
(* The queues for replies hold each message once.                          *)
LEMMA CallbackStep ==
  ASSUME Typed, Located, Counted, Answers, Step
  PROVE  \A p \in Process : Distinct(callback'[p])
<1> DEFINE OK == \A p \in Process : Distinct(callback'[p])
<1>0. /\ callback \in [Process -> Seq(App)]
      /\ \A p \in Process : Distinct(callback[p])
  BY DEF Typed, TypeOK, Answers
<1>1. ASSUME NEW p \in Process, TakeCallback(p) PROVE OK
  <2>1. callback[p] \in Seq(App) /\ callback[p] # << >> /\ Distinct(callback[p])
    BY <1>0, <1>1 DEF TakeCallback
  <2>2. Distinct(Tail(callback[p]))
    BY <2>1, TailElements
  <2> QED  BY <1>0, <1>1, <2>2 DEF TakeCallback
<1>2. ASSUME NEW a \in App, NEW p \in Process, a \notin Elements(callback[p]),
             callback' = [callback EXCEPT ![p] = Append(callback[p], a)]
      PROVE  OK
  <2>1. Distinct(Append(callback[p], a))
    BY <1>0, <1>2, AppendElements
  <2> QED  BY <1>0, <1>2, <2>1
<1>3. ASSUME UNCHANGED callback PROVE OK
  BY <1>0, <1>3
<1> HIDE DEF OK
<1>4. ASSUME NEW d \in Device, NEW m \in Message, Answered(d, m) PROVE OK
  <2>1. CASE \E result \in Results : AnswersThread(d, m, result)
    BY <1>3, <2>1 DEF AnswersThread, ReplyToThread
  <2>2. CASE AnswersCallback(d, m)
    <3>1. m \in Extra
      BY <2>2 DEF AnswersCallback
    <3>2. PICK t \in Thread, b \in App :
            t = message[m].user /\ b = message[m].caller /\ m \in InUse(t)
      BY <2>2, <3>1, FreedUser
    <3>3. PICK p \in Process : p = ProcessOf[t]
      BY DEF Process
    <3>4. b \notin Elements(callback[p])
      BY <3>1, <3>2 DEF Answers, OneHolder, Carries, InUse, Posted
    <3>5. callback' = IF Len(callback[p]) < CallbackSize
                      THEN [callback EXCEPT ![p] = Append(callback[p], b)] ELSE callback
      BY <2>2, <3>2, <3>3 DEF AnswersCallback, ReplyToCallback
    <3> QED  BY <1>2, <1>3, <3>4, <3>5
  <2> QED  BY <1>4, <2>1, <2>2 DEF Answered
<1>5. ASSUME NEW t \in Thread, Opened(t) PROVE OK
  <2>1. PICK p \in Process, b \in App \cup {NULL} : p = ProcessOf[t] /\ b = call[t].caller
    BY CallerOfCall DEF Process
  <2>2. b # NULL => b \in App /\ b \notin Elements(callback[p])
    BY <2>1 DEF Answers, OneHolder, Opens, Posted
  <2>3. callback' = IF b # NULL /\ Len(callback[p]) < CallbackSize
                    THEN [callback EXCEPT ![p] = Append(callback[p], b)] ELSE callback
    BY <1>5, <2>1 DEF Opened, OpenSucceeds
  <2> QED  BY <1>2, <1>3, <2>2, <2>3
<1>6. ASSUME NEW t \in Thread, ThreadStep(t) PROVE OK
  BY <1>3, <1>5, <1>6
  DEF ThreadStep, OpenBegins, OpenGoesOn, Asks, OpenRefused, OpenFailed, CallSent, CallFD_Inner,
      SendResumes, CallReceives
<1>7. ASSUME NEW d \in Device, RegisterResourceManager(d) \/ TakeRequest(d) PROVE OK
  BY <1>3, <1>7 DEF RegisterResourceManager, TakeRequest
<1>8. ASSUME UNCHANGED vars PROVE OK
  BY <1>3, <1>8 DEF vars, kernelVars
<1>9. OK
  BY <1>1, <1>4, <1>6, <1>7, <1>8 DEF Step
<1> QED  BY <1>9 DEF OK

LEMMA AnswersStep ==
  ASSUME Typed, Located, Counted, Answers, Step
  PROVE  Answers'
<1>1. ASSUME NEW a \in App PROVE OneHolder(a)'
  <2>0. OneHolder(a) /\ HolderStep(a)
    BY HolderSteps DEF Answers
  <2>1. CASE Kept(a)
    BY <2>0, <2>1 DEF OneHolder, Kept
  <2>2. CASE ~ Held(a)'
    BY <2>2 DEF OneHolder, Held
  <2>3. CASE Begun(a)
    BY <2>3 DEF OneHolder, Begun
  <2>4. CASE \E p \in Process : PostedTo(a, p)
    BY <2>4 DEF OneHolder, PostedTo
  <2> QED  BY <2>0, <2>1, <2>2, <2>3, <2>4 DEF HolderStep, Dropped, Lost
<1> QED  BY <1>1, CallbackStep DEF Answers

(* Queues that hold each message once have room when there are not more    *)
(* messages than places.                                                   *)
LEMMA DistinctLength ==
  ASSUME NEW S, IsFiniteSet(S), NEW s \in Seq(S), Distinct(s)
  PROVE  Cardinality(Elements(s)) = Len(s) /\ Elements(s) \subseteq S
<1>1. /\ DOMAIN s = 1 .. Len(s) /\ Len(s) \in Nat
      /\ \A i \in 1 .. Len(s) : s[i] \in S
  BY LenProperties
<1>2. IsFiniteSet(1 .. Len(s)) /\ Cardinality(1 .. Len(s)) = Len(s)
  <2> DEFINE n == Len(s)
  <2>1. n \in Nat
    BY <1>1
  <2> HIDE DEF n
  <2>2. IsFiniteSet(1 .. n) /\ Cardinality(1 .. n) = IF 1 > n THEN 0 ELSE n - 1 + 1
    BY <2>1, FS_Interval
  <2>3. Cardinality(1 .. n) = n
    BY <2>1, <2>2
  <2> QED  BY <2>2, <2>3 DEF n
<1>3. Elements(s) \subseteq S
  BY <1>1 DEF Elements
<1>4. s \in Bijection(1 .. Len(s), Elements(s))
  <2>1. s \in [1 .. Len(s) -> Elements(s)]
    BY <1>1 DEF Elements
  <2>2. \A i, j \in 1 .. Len(s) : s[i] = s[j] => i = j
    BY <1>1 DEF Distinct
  <2>3. \A x \in Elements(s) : \E i \in 1 .. Len(s) : s[i] = x
    BY <1>1 DEF Elements
  <2> QED  BY <2>1, <2>2, <2>3, Fun_IsBij
<1>5. ExistsBijection(1 .. Len(s), Elements(s))
  BY <1>4 DEF ExistsBijection
<1> QED  BY <1>2, <1>3, <1>5, FS_Bijection

(* With room for every message that is passed, none is lost.               *)
LEMMA CarriedStep ==
  ASSUME IsFiniteSet(App), Cardinality(App) <= CallbackSize,
         Typed, Located, Counted, Answers, AllCarried, Step
  PROVE  AllCarried'
<1>0. awaiting' \subseteq App
  BY SmallTyped DEF SmallTypes
<1>1. ASSUME NEW a \in App, a \in awaiting' PROVE Held(a)'
  <2>0. HolderStep(a)
    BY HolderSteps
  <2>1. CASE Kept(a)
    <3>1. a \in awaiting /\ Held(a)
      BY <1>1, <2>1 DEF Kept, AllCarried
    <3> QED  BY <2>1, <3>1 DEF Kept, Held
  <2>2. CASE Begun(a)
    BY <2>2 DEF Begun, Held
  <2>3. ASSUME NEW p \in Process, PostedTo(a, p) PROVE Held(a)'
    BY <2>3 DEF PostedTo, Held
  <2>4. ASSUME NEW p \in Process, Lost(a, p) PROVE FALSE
    <3> DEFINE S == Elements(callback[p])
    <3>1. callback[p] \in Seq(App) /\ Distinct(callback[p]) /\ Len(callback[p]) \in Nat
      BY LenProperties DEF Typed, TypeOK, Answers
    <3>2. Cardinality(S) = Len(callback[p]) /\ S \subseteq App
      BY <3>1, DistinctLength
    <3>3. a \notin S /\ ~ (Len(callback[p]) < CallbackSize)
      BY <2>4 DEF Lost
    <3> HIDE DEF S
    <3>4. IsFiniteSet(S) /\ IsFiniteSet(S \cup {a}) /\ S \cup {a} \subseteq App
      BY <3>2, FS_Subset, FS_AddElement
    <3>5. Cardinality(S \cup {a}) = Cardinality(S) + 1
      BY <3>3, <3>4, FS_AddElement
    <3>6. Cardinality(S \cup {a}) <= Cardinality(App) /\ Cardinality(App) \in Nat
      BY <3>4, FS_Subset, FS_CardinalityType
    <3> QED  BY <3>1, <3>2, <3>3, <3>5, <3>6, LimitsAssumption
  <2> QED  BY <1>1, <2>0, <2>1, <2>2, <2>3, <2>4 DEF HolderStep, Dropped
<1> QED  BY <1>0, <1>1 DEF AllCarried

LEMMA CountOfDistinct ==
  ASSUME NEW s, NEW x, Distinct(s)
  PROVE  Count(s, x) = One(x \in Elements(s))
<1> DEFINE S == {i \in DOMAIN s : s[i] = x}
<1>1. \A i, j \in S : i = j
  BY DEF Distinct
<1>2. S # {} <=> x \in Elements(s)
  BY DEF Elements
<1> HIDE DEF S
<1>3. Cardinality(S) = One(x \in Elements(s))
  BY <1>1, <1>2, AtMostOne DEF One
<1> QED  BY <1>3 DEF Count, S

LEMMA HeldOnce == ASSUME Answers, AllCarried, awaiting \subseteq App PROVE AnsweredOnce
<1>1. ASSUME NEW a \in App
      PROVE    Cardinality({m \in Extra : message[m].inQueue /\ message[m].caller = a})
             + Cardinality({t \in Thread : call[t].caller = a})
             + Cardinality({p \in Process : Count(callback[p], a) = 1})
             + 2 * Cardinality({p \in Process : Count(callback[p], a) > 1})
             = One(a \in awaiting)
  <2> DEFINE M == {m \in Extra : message[m].inQueue /\ message[m].caller = a}
             T == {t \in Thread : call[t].caller = a}
             P == {p \in Process : Count(callback[p], a) = 1}
             Q == {p \in Process : Count(callback[p], a) > 1}
  <2>0. OneHolder(a) /\ (a \in awaiting => Held(a))
    BY DEF Answers, AllCarried
  <2>1. \A p \in Process : Count(callback[p], a) = One(Posted(p, a))
    BY CountOfDistinct DEF Answers, Posted
  <2>2. /\ \A p \in Process : (Count(callback[p], a) = 1) <=> Posted(p, a)
        /\ \A p \in Process : ~ (Count(callback[p], a) > 1)
    BY <2>1 DEF One
  <2>3. Q = {}
    BY <2>2
  <2>4. P = {p \in Process : Posted(p, a)}
    BY <2>2
  <2>5. /\ \A x, y \in M : x = y
        /\ \A x, y \in T : x = y
        /\ \A x, y \in P : x = y
    BY <2>0, <2>4 DEF OneHolder, Carries, Opens
  <2>6. /\ M # {} => a \in awaiting /\ T = {} /\ P = {}
        /\ T # {} => a \in awaiting /\ P = {}
        /\ P # {} => a \in awaiting
        /\ a \in awaiting => M # {} \/ T # {} \/ P # {}
    BY <2>0, <2>4 DEF OneHolder, Carries, Opens, Held
  <2> HIDE DEF M, T, P, Q
  <2>7. /\ Cardinality(M) = One(M # {}) /\ Cardinality(T) = One(T # {})
        /\ Cardinality(P) = One(P # {}) /\ Cardinality(Q) = 0
    BY <2>3, <2>5, AtMostOne, FS_EmptySet
  <2>8. Cardinality(M) + Cardinality(T) + Cardinality(P) + 2 * Cardinality(Q) = One(a \in awaiting)
    BY <2>6, <2>7 DEF One
  <2> QED  BY <2>8 DEF M, T, P, Q
<1> QED  BY <1>1 DEF AnsweredOnce

(* An asynchronous call that was accepted is answered once, if the queue   *)
(* that a program has its replies sent to has room for all of them.        *)
THEOREM AnsweredOnceHolds ==
  ASSUME IsFiniteSet(App), Cardinality(App) <= CallbackSize
  PROVE  Spec => []AnsweredOnce
<1> DEFINE Inv == Typed /\ Located /\ Counted /\ Answers /\ AllCarried
<1>1. Init => Inv
  <2> SUFFICES ASSUME Init PROVE Answers /\ AllCarried
    BY PoolInit
  <2>1. /\ \A t \in Thread : call[t] = NoCall
        /\ \A m \in Message : message[m] = NoMessage
        /\ \A p \in Process : callback[p] = << >>
        /\ awaiting = {}
    BY DEF Init
  <2>2. \A p \in Process : Distinct(callback[p]) /\ Elements(callback[p]) = {}
    BY <2>1 DEF Distinct, Elements
  <2>3. \A a \in App : /\ \A m \in Extra : ~ Carries(m, a)
                       /\ \A t \in Thread : ~ Opens(t, a)
                       /\ \A p \in Process : ~ Posted(p, a)
    BY <2>1, <2>2, Nothing, NamesAssumption, ExtraFacts, SMTT(40) DEF Carries, Opens, Posted
  <2> QED  BY <2>1, <2>2, <2>3 DEF Answers, OneHolder, AllCarried
<1>2. Inv /\ [Next]_vars => Inv'
  BY StepCases, TypedStep, LocatedStep, CountedStep, AnswersStep, CarriedStep
<1>3. Inv => AnsweredOnce
  BY HeldOnce DEF Typed, TypeOK
<1> HIDE DEF Inv
<1> QED  BY <1>1, <1>2, <1>3, PTL DEF Spec

-----------------------------------------------------------------------------
(* Descriptors name open handles, and requests are in time for theirs.     *)
InTime(d) ==
  \A j \in DOMAIN queue[d] : message[queue[d][j]].command \in {"close", "use"} =>
    /\ message[queue[d][j]].handle \in handles[d]
    /\ \A i \in 1 .. j - 1 :
         message[queue[d][i]].command = "close" =>
           message[queue[d][i]].handle # message[queue[d][j]].handle

LEMMA InTimeAll == RequestsAreInTime <=> \A d \in Device : InTime(d)
BY DEF RequestsAreInTime, InTime

LEMMA QueueFacts ==
  ASSUME Typed, NEW d \in Device
  PROVE  /\ queue[d] \in Seq(Message) /\ Len(queue[d]) \in Nat
         /\ DOMAIN queue[d] = 1 .. Len(queue[d])
         /\ \A j \in 1 .. Len(queue[d]) : queue[d][j] \in Message /\ queue[d][j] \in Queued(d)
         /\ \A m \in Queued(d) : m \in Message /\ \E j \in 1 .. Len(queue[d]) : queue[d][j] = m
<1>1. queue[d] \in Seq(Message)
  BY DEF Typed, TypeOK
<1>2. /\ Len(queue[d]) \in Nat /\ DOMAIN queue[d] = 1 .. Len(queue[d])
      /\ \A j \in 1 .. Len(queue[d]) : queue[d][j] \in Message
  BY <1>1, LenProperties
<1> QED  BY <1>1, <1>2 DEF Queued, Elements

LEMMA UnmovedSame ==
  ASSUME NEW m, Unmoved(m), NEW d \in Device, NEW h
  PROVE  /\ Pending(m, d, h)' <=> Pending(m, d, h)
         /\ ClosePending(m, d, h)' <=> ClosePending(m, d, h)
         /\ Told(m, d, h)' <=> Told(m, d, h)
<1> HIDE DEF Busy, Waits, Replied, Queued
<1> QED  BY DEF Unmoved, Pending, ClosePending, Told, OnHandle

LEMMA FewerHandles ==
  ASSUME NEW d \in Device, NEW h \in Handle, HandleOwned(d, h),
         \A p \in Process, i \in Fd : Live(p, i, d, h)' => Live(p, i, d, h),
         \A m \in Message : Pending(m, d, h)' => Pending(m, d, h),
         \A m \in Message : ClosePending(m, d, h)' => ClosePending(m, d, h),
         \A t \in Thread : Told(t, d, h)' => Told(t, d, h),
         h \in handles[d] => h \in handles'[d]
  PROVE  HandleOwned(d, h)'
<1> HIDE DEF Live, Pending, ClosePending, Told
<1> QED  BY DEF HandleOwned

LEMMA SameInTime ==
  ASSUME Typed, NEW d \in Device, InTime(d), queue'[d] = queue[d],
         \A m \in Queued(d) : message'[m] = message[m],
         handles[d] \subseteq handles'[d]
  PROVE  InTime(d)'
<1>1. /\ DOMAIN queue[d] = 1 .. Len(queue[d]) /\ Len(queue[d]) \in Nat
      /\ \A j \in 1 .. Len(queue[d]) : message'[queue[d][j]] = message[queue[d][j]]
  BY QueueFacts
<1>2. \A j \in DOMAIN queue[d] : \A i \in 1 .. j - 1 : i \in 1 .. Len(queue[d])
  BY <1>1
<1> QED  BY <1>1, <1>2, SMTT(40) DEF InTime

LEMMA AppendInTime ==
  ASSUME Typed, NEW d \in Device, InTime(d), NEW m \in Message,
         queue'[d] = Append(queue[d], m), handles'[d] = handles[d],
         \A n \in Queued(d) : message'[n] = message[n],
         message'[m].command \in {"close", "use"} =>
           /\ message'[m].handle \in handles[d]
           /\ \A n \in Queued(d) :
                message[n].command = "close" => message[n].handle # message'[m].handle
  PROVE  InTime(d)'
<1> DEFINE n == Len(queue[d])
<1>1. /\ n \in Nat /\ DOMAIN queue[d] = 1 .. n
      /\ \A j \in 1 .. n : queue[d][j] \in Queued(d) /\ message'[queue[d][j]] = message[queue[d][j]]
  BY QueueFacts
<1>2. /\ DOMAIN queue'[d] = 1 .. n + 1 /\ queue'[d][n + 1] = m
      /\ \A j \in 1 .. n : queue'[d][j] = queue[d][j]
  BY QueueFacts, AppendProperties, LenProperties
<1> HIDE DEF n
<1>3. ASSUME NEW j \in 1 .. n + 1, message'[queue'[d][j]].command \in {"close", "use"}
      PROVE  /\ message'[queue'[d][j]].handle \in handles'[d]
             /\ \A i \in 1 .. j - 1 : message'[queue'[d][i]].command = "close" =>
                  message'[queue'[d][i]].handle # message'[queue'[d][j]].handle
  <2>1. CASE j \in 1 .. n
    <3>1. \A i \in 1 .. j - 1 : i \in 1 .. n
      BY <1>1, <2>1
    <3>2. message'[queue'[d][j]] = message[queue[d][j]]
      BY <1>1, <1>2, <2>1
    <3>3. \A i \in 1 .. j - 1 : message'[queue'[d][i]] = message[queue[d][i]]
      BY <1>1, <1>2, <3>1
    <3>4. /\ message[queue[d][j]].handle \in handles[d]
          /\ \A i \in 1 .. j - 1 : message[queue[d][i]].command = "close" =>
               message[queue[d][i]].handle # message[queue[d][j]].handle
      BY <1>1, <1>3, <2>1, <3>2 DEF InTime
    <3> QED  BY <3>2, <3>3, <3>4
  <2>2. CASE j = n + 1
    <3>1. \A i \in 1 .. j - 1 : i \in 1 .. n
      BY <1>1, <2>2
    <3>2. queue'[d][j] = m
      BY <1>2, <2>2
    <3>3. \A i \in 1 .. j - 1 :
            /\ queue[d][i] \in Queued(d) /\ queue'[d][i] = queue[d][i]
            /\ message'[queue[d][i]] = message[queue[d][i]]
      BY <1>1, <1>2, <3>1
    <3>4. /\ message'[m].handle \in handles[d]
          /\ \A q \in Queued(d) :
               message[q].command = "close" => message[q].handle # message'[m].handle
      BY <1>3, <3>2
    <3>5. ASSUME NEW i \in 1 .. j - 1, message'[queue'[d][i]].command = "close"
          PROVE  message'[queue'[d][i]].handle # message'[queue'[d][j]].handle
      BY <3>2, <3>3, <3>4, <3>5
    <3> QED  BY <3>2, <3>4, <3>5
  <2> QED  BY <1>1, <2>1, <2>2, SMTT(40)
<1> QED  BY <1>2, <1>3 DEF InTime

LEMMA CallsChange ==
  ASSUME CallsOwn, NEW t \in Thread,
         \A u \in Thread \ {t} : call'[u] = call[u],
         \A u \in Thread \ {t} : Blocked(u) =>
           /\ fds'[ProcessOf[u]][call[u].fd] = fds[ProcessOf[u]][call[u].fd]
           /\ message'[call[u].message] = message[call[u].message],
         Blocked(t)' =>
           /\ fds'[ProcessOf[t]][call'[t].fd].device = call'[t].device
           /\ call'[t].op = "send" =>
                fds'[ProcessOf[t]][call'[t].fd].handle = message'[call'[t].message].handle
           /\ \A u \in Thread \ {t} :
                Blocked(u) /\ ProcessOf[u] = ProcessOf[t] /\ call[u].fd = call'[t].fd =>
                  "close" \notin {call'[t].command, call[u].command}
  PROVE  CallsOwn'
<1>1. \A u \in Thread \ {t} : Blocked(u)' <=> Blocked(u)
  BY DEF Blocked
<1> HIDE DEF Blocked
<1> QED  BY <1>1, SMTT(40) DEF CallsOwn

LEMMA CallsSame ==
  ASSUME CallsOwn, UNCHANGED <<call, fds>>,
         \A t \in Thread : call[t].op = "send" =>
           message'[call[t].message].handle = message[call[t].message].handle
  PROVE  CallsOwn'
BY DEF CallsOwn, Blocked

LEMMA LiveIs ==
  ASSUME Typed, NEW p \in Process, NEW i \in Fd, fds[p][i].device # NULL, ~ Closing(p, i)
  PROVE  Live(p, i, fds[p][i].device, fds[p][i].handle)
<1>1. fds[p][i] \in FileDescriptor
  BY DEF Typed, TypeOK
<1> QED  BY <1>1 DEF Live, FileDescriptor

(* A thread that waits to use a descriptor does so before it is closed.    *)
LEMMA WaiterLive ==
  ASSUME Typed, CallsOwn, NEW t \in Thread, call[t].op = "send", call[t].command = "use"
  PROVE  Live(ProcessOf[t], call[t].fd, call[t].device, message[call[t].message].handle)
<1>1. CallOK(t) /\ call[t] # NoCall /\ Blocked(t)
  BY Nothing DEF Typed, Blocked
<1>2. call[t].fd \in Fd /\ call[t].device \in Device /\ ProcessOf[t] \in Process
  BY <1>1 DEF CallOK, Process
<1>3. /\ fds[ProcessOf[t]][call[t].fd].device = call[t].device
      /\ fds[ProcessOf[t]][call[t].fd].handle = message[call[t].message].handle
  BY <1>1 DEF CallsOwn
<1>4. ASSUME NEW u \in Thread, ProcessOf[u] = ProcessOf[t], call[u].fd = call[t].fd,
             call[u].command = "close"
      PROVE  FALSE
  <2>1. Blocked(u) /\ u # t
    BY <1>4, Nothing DEF Typed, CallOK, Blocked
  <2> QED  BY <1>1, <1>4, <2>1 DEF CallsOwn
<1>5. ~ Closing(ProcessOf[t], call[t].fd)
  BY <1>4 DEF Closing
<1>6. call[t].device # NULL
  BY <1>2, NamesAssumption
<1> QED  BY <1>2, <1>3, <1>5, <1>6, LiveIs

LEMMA OwnedTake ==
  ASSUME Typed, Located, Owned, NEW d \in Device, TakeRequest(d)
  PROVE  Owned'
<1>0. PICK m \in Message :
        /\ m = Head(queue[d]) /\ m \in Queued(d) /\ queue[d] # << >>
        /\ queue'[d] = Tail(queue[d]) /\ \A e \in Device \ {d} : queue'[e] = queue[e]
        /\ handles' = IF message[m].command # "close" THEN handles
                      ELSE [handles EXCEPT ![d] = @ \ {message[m].handle}]
        /\ UNCHANGED <<fds, message, call, reply>>
  BY TakeLocated DEF TakeRequest, Typed, TypeOK
<1>1. /\ Busy(m) /\ Server(m) = d /\ MessageOK(m) /\ ~ Waits(m)
  BY <1>0 DEF Located, Placed, Typed
<1>2. /\ \A e \in Device \ {d} : handles'[e] = handles[e]
      /\ handles'[d] = IF message[m].command = "close" THEN handles[d] \ {message[m].handle}
                       ELSE handles[d]
  BY <1>0 DEF Typed, TypeOK
<1>3. /\ queue[d] \in Seq(Message) /\ Queued(d) = Queued(d)' \cup {m} /\ m \notin Queued(d)'
      /\ \A e \in Device \ {d} : Queued(e)' = Queued(e)
  BY <1>0, TailElements DEF Queued, Located, Typed, TypeOK
<1>4. /\ \A n \in Message : Busy(n)' = Busy(n) /\ Waits(n)' = Waits(n) /\ Replied(n)' = Replied(n)
      /\ \A p \in Process, i \in Fd, e \in Device, h \in Handle : Live(p, i, e, h)' <=> Live(p, i, e, h)
  BY <1>0 DEF Busy, Waits, Replied, Live, Closing
<1>5. \A n \in Message, e \in Device, h \in Handle :
        /\ Pending(n, e, h)' => Pending(n, e, h) /\ ~ (n = m)
        /\ ClosePending(n, e, h)' => ClosePending(n, e, h)
  <2>1. ASSUME NEW e \in Device PROVE m \notin Queued(e)' /\ Queued(e)' \subseteq Queued(e)
    <3>1. e # d => m \notin Queued(e)
      BY <1>0, <1>1 DEF Located, Placed
    <3> HIDE DEF Queued
    <3> QED  BY <1>3, <3>1
  <2>2. ASSUME NEW n \in Message, NEW e \in Device, NEW h \in Handle, Pending(n, e, h)'
        PROVE  Pending(n, e, h) /\ n # m
    <3>1. /\ Busy(n)' = Busy(n) /\ Waits(n)' = Waits(n) /\ message' = message
          /\ m \notin Queued(e)' /\ Queued(e)' \subseteq Queued(e) /\ ~ Waits(m)
      BY <1>0, <1>1, <1>4, <2>1
    <3> HIDE DEF Busy, Waits, Queued
    <3> QED  BY <2>2, <3>1 DEF Pending, OnHandle
  <2> QED  BY <1>0, <2>2 DEF ClosePending
<1>6. \A t \in Thread, e \in Device, h \in Handle : Told(t, e, h)' => Told(t, e, h)
  BY <1>0, <1>4, ExtraFacts DEF Told
<1>7. CallsOwn'
  BY <1>0, CallsSame DEF Owned
<1>8. ASSUME NEW e \in Device, NEW h \in Handle PROVE HandleOwned(e, h)'
  <2>0. HandleOwned(e, h)
    BY DEF Owned
  <2>1. CASE h \in handles[e] => h \in handles'[e]
    BY <1>4, <1>5, <1>6, <2>0, <2>1, FewerHandles
  <2>2. CASE ~ (h \in handles[e] => h \in handles'[e])
    <3>1. e = d /\ message[m].command = "close" /\ message[m].handle = h
      BY <1>2, <2>2
    <3>2. ClosePending(m, d, h)
      BY <1>0, <1>1, <3>1 DEF ClosePending, Pending, OnHandle, Server
    <3>3. \A p \in Process, i \in Fd : ~ Live(p, i, d, h)
      BY <2>0, <3>1, <3>2 DEF HandleOwned
    <3>4. \A t \in Thread : ~ Told(t, d, h)
      BY <2>0, <3>1, <3>2 DEF HandleOwned, ClosePending
    <3>5. ASSUME NEW n \in Message, Pending(n, d, h)' PROVE FALSE
      <4>1. Pending(n, d, h) /\ n # m /\ ~ ClosePending(n, d, h)
        <5>1. Pending(n, d, h) /\ n # m
          BY <1>5, <3>5
        <5> QED  BY <2>0, <3>1, <3>2, <5>1 DEF HandleOwned
      <4>2. message[n].handle = h /\ message[n].command \in {"close", "use"} /\ Busy(n)
        BY <4>1 DEF Pending, OnHandle, Typed, MessageOK
      <4>3. message[n].command = "use"
        BY <4>1, <4>2 DEF ClosePending
      <4>4. CASE n \in Queued(d)
        <5>1. PICK j \in 1 .. Len(queue[d]) : queue[d][j] = n
          BY <4>4, QueueFacts
        <5>2. queue[d][1] = m /\ Len(queue[d]) \in Nat
          BY <1>0, QueueFacts, HeadTailProperties
        <5>3. 1 \in 1 .. j - 1
          BY <4>1, <5>1, <5>2
        <5>4. InTime(d) /\ j \in DOMAIN queue[d]
          BY <5>1, QueueFacts, InTimeAll DEF Owned
        <5> QED  BY <3>1, <4>2, <5>1, <5>2, <5>3, <5>4 DEF InTime
      <4>5. CASE Waits(n)
        <5>1. PICK t \in Thread : call[t].op = "send" /\ call[t].message = n
          BY <4>5 DEF Waits
        <5>2. CallOK(t) /\ call[t] # NoCall
          BY <5>1, Nothing DEF Typed
        <5>3. call[t].command = "use" /\ call[t].device = d
          BY <4>1, <4>3, <5>1, <5>2 DEF CallOK, Pending, OnHandle
        <5>4. Live(ProcessOf[t], call[t].fd, d, h)
          BY <4>2, <5>1, <5>3, WaiterLive DEF Owned
        <5>5. ProcessOf[t] \in Process /\ call[t].fd \in Fd
          BY <5>2, <5>3 DEF Process, CallOK
        <5> QED  BY <3>3, <5>4, <5>5
      <4> QED  BY <4>1, <4>4, <4>5 DEF Pending
    <3>6. \A n \in Message : ~ Pending(n, d, h)' /\ ~ ClosePending(n, d, h)'
      <4>1. \A n \in Message : ClosePending(n, d, h)' => Pending(n, d, h)'
        BY DEF ClosePending
      <4> QED  BY <3>5, <4>1
    <3>7. /\ \A p \in Process, i \in Fd : ~ Live(p, i, d, h)'
          /\ \A t \in Thread : ~ Told(t, d, h)'
      BY <1>4, <1>6, <3>3, <3>4
    <3> HIDE DEF Live, Told, Pending, ClosePending
    <3> QED  BY <3>1, <3>6, <3>7 DEF HandleOwned
  <2> QED  BY <2>1, <2>2
<1>9. ASSUME NEW e \in Device PROVE InTime(e)'
  <2>1. InTime(e)
    BY InTimeAll DEF Owned
  <2>2. CASE e # d
    BY <1>0, <1>2, <2>1, <2>2, SameInTime
  <2>3. CASE e = d
    <3> DEFINE n == Len(queue[d])
    <3>1. /\ n \in Nat /\ n > 0 /\ DOMAIN queue[d] = 1 .. n /\ queue[d][1] = m
          /\ DOMAIN queue'[d] = 1 .. n - 1
          /\ \A j \in 1 .. n - 1 : queue'[d][j] = queue[d][j + 1]
      BY <1>0, <1>3, QueueFacts, HeadTailProperties, LenProperties, EmptySeq
    <3> HIDE DEF n
    <3>2. ASSUME NEW j \in 1 .. n - 1, message[queue'[d][j]].command \in {"close", "use"}
          PROVE  /\ message[queue'[d][j]].handle \in handles'[d]
                 /\ \A i \in 1 .. j - 1 : message[queue'[d][i]].command = "close" =>
                      message[queue'[d][i]].handle # message[queue'[d][j]].handle
      <4>1. j + 1 \in 1 .. n /\ queue'[d][j] = queue[d][j + 1] /\ 1 \in 1 .. (j + 1) - 1
        BY <3>1
      <4>2. \A i \in 1 .. j - 1 : i + 1 \in 1 .. (j + 1) - 1 /\ queue'[d][i] = queue[d][i + 1]
        BY <3>1
      <4>3. /\ message[queue[d][j + 1]].handle \in handles[d]
            /\ \A i \in 1 .. (j + 1) - 1 : message[queue[d][i]].command = "close" =>
                 message[queue[d][i]].handle # message[queue[d][j + 1]].handle
        BY <2>1, <2>3, <3>1, <3>2, <4>1 DEF InTime
      <4>4. message[m].command = "close" => message[m].handle # message[queue[d][j + 1]].handle
        BY <3>1, <4>1, <4>3
      <4> QED  BY <1>2, <4>1, <4>2, <4>3, <4>4
    <3> QED  BY <1>0, <2>3, <3>1, <3>2, ZenonT(60) DEF InTime
  <2> QED  BY <2>2, <2>3
<1>10. RequestsAreInTime'
  BY <1>9 DEF RequestsAreInTime, InTime
<1> QED  BY <1>7, <1>8, <1>10 DEF Owned

LEMMA OwnedAnswer ==
  ASSUME Typed, Located, Owned, NEW d \in Device, NEW m \in Message, Answered(d, m)
  PROVE  Owned'
<1>0. /\ \A n \in Message \ {m} : Unmoved(n)
      /\ \A e \in Device : m \notin Queued(e) /\ m \notin Queued(e)'
      /\ ~ Waits(m) /\ ~ Waits(m)' /\ ~ Replied(m) /\ Server(m) = d
      /\ UNCHANGED <<fds, queue, call>>
  BY AnswerLocated DEF Answered, AnswersCallback, AnswersThread
<1>1. CallsOwn'
  <2>1. ASSUME NEW t \in Thread, call[t].op = "send"
        PROVE  message'[call[t].message] = message[call[t].message]
    <3>1. CallOK(t) /\ call[t] # NoCall
      BY <2>1, Nothing DEF Typed
    <3>2. call[t].message # m /\ call[t].message \in Message
      BY <1>0, <2>1, <3>1 DEF Waits, CallOK
    <3> QED  BY <1>0, <3>2 DEF Unmoved
  <2> QED  BY <1>0, <2>1, CallsSame DEF Owned
<1>2. \A n \in Message, e \in Device, h \in Handle :
        /\ Pending(n, e, h)' => Pending(n, e, h)
        /\ ClosePending(n, e, h)' => ClosePending(n, e, h)
  <2>1. ASSUME NEW e \in Device, NEW h \in Handle PROVE ~ Pending(m, e, h)' /\ ~ ClosePending(m, e, h)'
    BY <1>0 DEF Pending, ClosePending
  <2> QED  BY <1>0, <2>1, UnmovedSame
<1>3. \A p \in Process, i \in Fd, e \in Device, h \in Handle : Live(p, i, e, h)' => Live(p, i, e, h)
  BY <1>0 DEF Live, Closing
<1>4. \A t \in Thread \ {m}, e \in Device, h \in Handle : Told(t, e, h)' => Told(t, e, h)
  BY <1>0, UnmovedSame, ExtraFacts
<1>5. ASSUME NEW e \in Device PROVE InTime(e)' \/ ~ (handles[e] \subseteq handles'[e])
  <2>1. InTime(e)
    BY InTimeAll DEF Owned
  <2>2. \A n \in Queued(e) : message'[n] = message[n]
    BY <1>0, QueueFacts DEF Unmoved
  <2> QED  BY <1>0, <2>1, <2>2, SameInTime
<1>6. CASE AnswersCallback(d, m)
  <2>1. handles' = handles /\ m \notin Thread
    BY <1>6, ExtraFacts DEF AnswersCallback
  <2>2. ASSUME NEW e \in Device, NEW h \in Handle PROVE HandleOwned(e, h)'
    BY <1>2, <1>3, <1>4, <2>1, FewerHandles DEF Owned
  <2> QED  BY <1>1, <1>5, <2>1, <2>2 DEF Owned, RequestsAreInTime, InTime
<1>7. ASSUME NEW result \in Results, AnswersThread(d, m, result) PROVE Owned'
  <2>0. /\ m \in Thread /\ message' = [message EXCEPT ![m].result = result]
        /\ message'[m].result = result /\ message'[m].command = message[m].command
        /\ message'[m].server = d
    BY <1>0, <1>7 DEF AnswersThread, ReplyToThread, Typed, TypeOK, Server
  <2>1. \A e \in Device : handles[e] \subseteq handles'[e]
    BY <1>7 DEF AnswersThread, Typed, TypeOK
  <2>2. ASSUME NEW e \in Device, NEW h \in Handle PROVE HandleOwned(e, h)'
    <3>0. HandleOwned(e, h)
      BY DEF Owned
    <3>1. CASE ~ Told(m, e, h)'
      BY <1>2, <1>3, <1>4, <2>1, <3>0, <3>1, FewerHandles
    <3>2. CASE Told(m, e, h)'
      <4>1. e = d /\ h = result /\ message[m].command = "open"
        BY <2>0, <3>2 DEF Told
      <4>2. h \in Handle \ handles[d] /\ handles' = [handles EXCEPT ![d] = @ \cup {h}]
        BY <1>7, <4>1, NamesAssumption DEF AnswersThread
      <4>3. h \in handles'[d]
        BY <4>2 DEF Typed, TypeOK
      <4>4. /\ \A p \in Process, i \in Fd : ~ Live(p, i, d, h)
            /\ \A n \in Message : ~ Pending(n, d, h)
            /\ \A t \in Thread : ~ Told(t, d, h)
        BY <3>0, <4>1, <4>2 DEF HandleOwned
      <4>5. /\ \A p \in Process, i \in Fd : ~ Live(p, i, d, h)'
            /\ \A n \in Message : ~ Pending(n, d, h)' /\ ~ ClosePending(n, d, h)'
            /\ \A t \in Thread : Told(t, d, h)' => t = m
        <5>1. \A n \in Message : ClosePending(n, d, h)' => Pending(n, d, h)'
          BY DEF ClosePending
        <5> QED  BY <1>2, <1>3, <1>4, <4>4, <5>1
      <4> HIDE DEF Live, Told, Pending, ClosePending
      <4> QED  BY <4>1, <4>3, <4>5 DEF HandleOwned
    <3> QED  BY <3>1, <3>2
  <2> QED  BY <1>1, <1>5, <2>1, <2>2 DEF Owned, RequestsAreInTime, InTime
<1> QED  BY <1>6, <1>7 DEF Answered

(* While a thread is blocked in a close of a descriptor, or begins one, it *)
(* is the only one that is at work on it.                                  *)
LEMMA ClosedFds ==
  ASSUME Typed, CallsOwn, NEW t \in Thread, NEW i \in Fd, NEW command,
         fds' = [fds EXCEPT ![ProcessOf[t]][i] = NoFd],
         \A u \in Thread \ {t} : ~ (Blocked(u) /\ ProcessOf[u] = ProcessOf[t] /\ call[u].fd = i)
  PROVE  /\ \A u \in Thread \ {t} : Blocked(u) =>
              fds'[ProcessOf[u]][call[u].fd] = fds[ProcessOf[u]][call[u].fd]
         /\ fds'[ProcessOf[t]][i] = NoFd
         /\ \A p \in Process, j \in Fd : fds'[p][j] # NoFd => fds'[p][j] = fds[p][j]
<1>1. fds \in [Process -> [Fd -> FileDescriptor]] /\ \A u \in Thread : ProcessOf[u] \in Process
  BY DEF Typed, TypeOK, Process
<1>2. \A p \in Process, j \in Fd :
        fds'[p][j] = IF p = ProcessOf[t] /\ j = i THEN NoFd ELSE fds[p][j]
  BY <1>1
<1>3. \A u \in Thread : Blocked(u) => call[u].fd \in Fd
  BY Nothing DEF Typed, CallOK, Blocked
<1> QED  BY <1>1, <1>2, <1>3

LEMMA DoneCalls ==
  ASSUME Typed, Located, Owned, NEW t \in Thread, Done(t),
         \A u \in Thread \ {t} : Blocked(u) =>
           fds'[ProcessOf[u]][call[u].fd] = fds[ProcessOf[u]][call[u].fd]
  PROVE  /\ CallsOwn' /\ RequestsAreInTime' /\ handles' = handles
         /\ \A d \in Device, h \in Handle :
              /\ \A m \in Message : Pending(m, d, h)' => Pending(m, d, h)
              /\ \A m \in Message : ClosePending(m, d, h)' => ClosePending(m, d, h)
              /\ \A u \in Thread : Told(u, d, h)' => Told(u, d, h) /\ u # t
         /\ call'[t] = NoCall /\ \A u \in Thread \ {t} : call'[u] = call[u]
<1>0. /\ \A n \in Message \ {t} : Unmoved(n)
      /\ ~ Busy(t)' /\ ~ Replied(t)' /\ (\A d \in Device : t \notin Queued(d))
      /\ handles' = handles /\ queue' = queue
      /\ call'[t] = NoCall /\ \A u \in Thread \ {t} : call'[u] = call[u]
  BY DoneLocated DEF Done, Ends, Typed, TypeOK
<1>1. CallsOwn'
  <2>1. ASSUME NEW u \in Thread \ {t}, Blocked(u)
        PROVE  message'[call[u].message] = message[call[u].message]
    <3>1. call[u].message \in Message /\ call[u].message # t
      BY <2>1, Nothing, ExtraFacts DEF Typed, CallOK, Blocked, Caller
    <3> QED  BY <1>0, <3>1 DEF Unmoved
  <2>2. ~ Blocked(t)'
    BY <1>0, Nothing DEF Blocked
  <2> QED  BY <1>0, <2>1, <2>2, CallsChange DEF Owned
<1>2. ASSUME NEW d \in Device PROVE InTime(d)'
  <2>1. InTime(d) /\ \A n \in Queued(d) : message'[n] = message[n]
    BY <1>0, QueueFacts, InTimeAll DEF Unmoved, Owned
  <2> QED  BY <1>0, <2>1, SameInTime
<1>3. ASSUME NEW d \in Device, NEW h \in Handle
      PROVE  /\ \A m \in Message : Pending(m, d, h)' => Pending(m, d, h)
             /\ \A m \in Message : ClosePending(m, d, h)' => ClosePending(m, d, h)
             /\ \A u \in Thread : Told(u, d, h)' => Told(u, d, h) /\ u # t
  <2>1. ~ Pending(t, d, h)' /\ ~ ClosePending(t, d, h)' /\ ~ Told(t, d, h)'
    BY <1>0 DEF Pending, ClosePending, Told, OnHandle
  <2> QED  BY <1>0, <2>1, UnmovedSame, ExtraFacts
<1> QED  BY <1>0, <1>1, <1>2, <1>3 DEF RequestsAreInTime, InTime

LEMMA OwnedDone ==
  ASSUME Typed, Located, Owned, NEW t \in Thread,
         OpenRefused(t) \/ OpenFailed(t) \/ CallReceives(t)
  PROVE  Owned'
<1>0. Done(t)
  BY DoneSteps
<1>1. CASE fds' = fds /\ call[t].command # "close"
  <2>1. call'[t] = NoCall /\ \A u \in Thread \ {t} : call'[u] = call[u]
    BY <1>0, <1>1, DoneCalls
  <2>2. \A p \in Process, i \in Fd, d \in Device, h \in Handle : Live(p, i, d, h)' => Live(p, i, d, h)
    BY <1>1, <2>1 DEF Live, Closing
  <2>3. \A d \in Device, h \in Handle : HandleOwned(d, h)'
    BY <1>0, <1>1, <2>2, DoneCalls, FewerHandles DEF Owned
  <2> QED  BY <1>0, <1>1, <2>3, DoneCalls DEF Owned
<1>2. CASE CallReceives(t) /\ call[t].command = "close"
  <2> DEFINE i == call[t].fd
  <2>0. i \in Fd /\ Blocked(t) /\ fds' = [fds EXCEPT ![ProcessOf[t]][i] = NoFd]
    BY <1>2, Nothing DEF CallReceives, Closed, Typed, CallOK, Blocked
  <2>1. \A u \in Thread \ {t} : ~ (Blocked(u) /\ ProcessOf[u] = ProcessOf[t] /\ call[u].fd = i)
    BY <1>2, <2>0 DEF Owned, CallsOwn
  <2>2. /\ \A u \in Thread \ {t} : Blocked(u) =>
             fds'[ProcessOf[u]][call[u].fd] = fds[ProcessOf[u]][call[u].fd]
        /\ fds'[ProcessOf[t]][i] = NoFd
        /\ \A p \in Process, j \in Fd : fds'[p][j] # NoFd => fds'[p][j] = fds[p][j]
    BY <2>0, <2>1, ClosedFds DEF Owned
  <2>3. call'[t] = NoCall /\ \A u \in Thread \ {t} : call'[u] = call[u]
    BY <1>0, <2>2, DoneCalls
  <2>4. ASSUME NEW p \in Process, NEW j \in Fd, NEW d \in Device, NEW h \in Handle, Live(p, j, d, h)'
        PROVE  Live(p, j, d, h)
    <3>1. fds'[p][j] # NoFd
      <4>1. [device |-> d, handle |-> h].device # NoFd.device
        BY Nothing, NamesAssumption
      <4> QED  BY <2>4, <4>1 DEF Live
    <3>2. fds[p][j] = [device |-> d, handle |-> h] /\ ~ (p = ProcessOf[t] /\ j = i)
      BY <2>2, <2>4, <3>1 DEF Live
    <3>3. ~ Closing(p, j)
      BY <2>3, <2>4, <3>2 DEF Live, Closing
    <3> QED  BY <3>2, <3>3 DEF Live
  <2>5. \A d \in Device, h \in Handle : HandleOwned(d, h)'
    BY <1>0, <2>2, <2>4, DoneCalls, FewerHandles DEF Owned
  <2> QED  BY <1>0, <2>2, <2>5, DoneCalls DEF Owned
<1> QED
  <2>1. OpenRefused(t) \/ OpenFailed(t) => fds' = fds /\ call[t].command # "close"
    BY Nothing DEF OpenRefused, OpenFailed
  <2>2. CallReceives(t) /\ call[t].command # "close" => fds' = fds
    BY DEF CallReceives, Closed
  <2> QED  BY <1>1, <1>2, <2>1, <2>2

LEMMA OwnedOpened ==
  ASSUME Typed, Located, Owned, NEW t \in Thread, Opened(t)
  PROVE  Owned'
<1> DEFINE p == ProcessOf[t]
<1>0. Done(t) /\ Received(t) /\ call[t].command = "open" /\ call[t].op = "receive" /\ p \in Process
  BY DoneSteps DEF Opened, Received, Process
<1>1. PICK d \in Device, h \in Handle :
        /\ d = call[t].device /\ h = message[t].result
        /\ Told(t, d, h)
  <2>1. CallOK(t) /\ call[t] # NoCall /\ call[t].message = t /\ Replied(t)
    BY <1>0, OneReply, Nothing DEF Typed, Received
  <2>2. /\ call[t].device \in Device /\ message[t].server = call[t].device
        /\ message[t].command = "open"
    BY <1>0, <2>1 DEF CallOK
  <2>3. message[t].result \in Handle
    BY DEF Opened
  <2> QED  BY <2>1, <2>2, <2>3 DEF Told
<1>2. PICK i \in Fd :
        /\ fds[p][i].device = NULL
        /\ fds' = [fds EXCEPT ![p] = [j \in Fd |-> IF j = i THEN [device |-> d, handle |-> h] ELSE @[j]]]
  <2>1. FreeFds(p) # {} /\ NewFd(p) = {FirstOf(FreeFds(p))}
    BY DEF Opened, NewFd
  <2>2. FreeFds(p) \subseteq Nat
    BY LimitsAssumption DEF FreeFds, Fd
  <2>3. FirstOf(FreeFds(p)) \in FreeFds(p)
    BY <2>1, <2>2, First
  <2>4. PICK i \in Fd : fds[p][i].device = NULL /\ NewFd(p) = {i}
    BY <2>1, <2>3 DEF FreeFds
  <2>5. \A j : j \in {i} <=> j = i
    OBVIOUS
  <2>6. fds' = [fds EXCEPT ![p] = [j \in Fd |-> IF j \in NewFd(p)
                  THEN [device |-> call[t].device, handle |-> message[t].result] ELSE @[j]]]
    BY DEF Opened, OpenSucceeds
  <2> QED  BY <1>1, <2>4, <2>6
<1> HIDE DEF p
<1>3. \A q \in Process, j \in Fd :
        fds'[q][j] = IF q = p /\ j = i THEN [device |-> d, handle |-> h] ELSE fds[q][j]
  BY <1>0, <1>2 DEF Typed, TypeOK
<1>4. /\ \A u \in Thread : Blocked(u) =>
           /\ ProcessOf[u] \in Process /\ call[u].fd \in Fd
           /\ fds[ProcessOf[u]][call[u].fd].device # NULL
  BY Nothing, NamesAssumption DEF Blocked, Typed, CallOK, Owned, CallsOwn, Process
<1>5. \A u \in Thread \ {t} : Blocked(u) =>
           fds'[ProcessOf[u]][call[u].fd] = fds[ProcessOf[u]][call[u].fd]
  BY <1>2, <1>3, <1>4
<1>6. call'[t] = NoCall /\ \A u \in Thread \ {t} : call'[u] = call[u]
  BY <1>0, <1>5, DoneCalls
<1>7. ASSUME NEW q \in Process, NEW j \in Fd, NEW e \in Device, NEW g \in Handle, Live(q, j, e, g)'
      PROVE  Live(q, j, e, g) \/ (q = p /\ j = i /\ e = d /\ g = h)
  <2>1. CASE q = p /\ j = i
    <3>1. [device |-> d, handle |-> h] = [device |-> e, handle |-> g]
      BY <1>3, <1>7, <2>1 DEF Live
    <3>2. d = e /\ h = g
      BY <3>1
    <3> QED  BY <2>1, <3>2
  <2>2. CASE ~ (q = p /\ j = i)
    <3>1. fds[q][j] = [device |-> e, handle |-> g]
      BY <1>3, <1>7, <2>2 DEF Live
    <3>2. ~ Closing(q, j)
      BY <1>0, <1>6, <1>7 DEF Live, Closing
    <3> QED  BY <3>1, <3>2 DEF Live
  <2> QED  BY <2>1, <2>2
<1>8. ASSUME NEW e \in Device, NEW g \in Handle PROVE HandleOwned(e, g)'
  <2>0. HandleOwned(e, g)
    BY DEF Owned
  <2>1. /\ \A m \in Message : Pending(m, e, g)' => Pending(m, e, g)
        /\ \A m \in Message : ClosePending(m, e, g)' => ClosePending(m, e, g)
        /\ \A u \in Thread : Told(u, e, g)' => Told(u, e, g) /\ u # t
        /\ handles' = handles
    BY <1>0, <1>5, DoneCalls
  <2>2. CASE ~ (e = d /\ g = h)
    BY <1>7, <2>0, <2>1, <2>2, FewerHandles
  <2>3. CASE e = d /\ g = h
    <3>1. /\ h \in handles[d]
          /\ \A u \in Thread : ~ Told(u, d, h)'
          /\ \A m \in Message : ~ Pending(m, d, h)
          /\ \A q \in Process, j \in Fd : ~ Live(q, j, d, h)
      BY <1>1, <2>0, <2>1, <2>3 DEF HandleOwned
    <3>2. \A m \in Message : ~ Pending(m, d, h)' /\ ~ ClosePending(m, d, h)'
      BY <2>1, <2>3, <3>1 DEF ClosePending
    <3>3. \A q \in Process, j \in Fd : Live(q, j, d, h)' => q = p /\ j = i
      BY <1>7, <3>1
    <3> HIDE DEF Live, Told, Pending, ClosePending
    <3> QED  BY <2>1, <2>3, <3>1, <3>2, <3>3 DEF HandleOwned
  <2> QED  BY <2>2, <2>3
<1> QED  BY <1>0, <1>5, <1>8, DoneCalls DEF Owned

LEMMA SendFacts ==
  ASSUME Typed, Located, NEW t \in Thread, NEW c \in BlockedCall, Sends(t, c)
  PROVE  /\ \A n \in Message : n # c.message => Unmoved(n)
         /\ \A d \in Device : c.message \notin Queued(d) /\ ~ Replied(c.message)'
         /\ c.message \in Message /\ c.device \in Device /\ handles' = handles
         /\ \A u \in Thread \ {t} : call'[u] = call[u]
         /\ \A u \in Thread \ {t} : call[u] # NoCall =>
              call[u].message \in Message /\ message'[call[u].message] = message[call[u].message]
         /\ \A d \in Device :
              queue'[d] = queue[d] \/ (d = c.device /\ queue'[d] = Append(queue[d], c.message))
<1>1. /\ \A n \in Message : n # c.message => Unmoved(n)
      /\ \A d \in Device : c.message \notin Queued(d) /\ ~ Replied(c.message)'
      /\ c.message \in Message /\ c.device \in Device /\ handles' = handles
      /\ \A u \in Thread \ {t} : call'[u] = call[u]
  BY SendLocated, SentCaller, ExtraFacts DEF Sends, Sendable
<1>2. ASSUME NEW u \in Thread \ {t}, call[u] # NoCall
      PROVE  call[u].message \in Message /\ message'[call[u].message] = message[call[u].message]
  <2>1. call[u].message \in Message
    BY <1>2 DEF Typed, CallOK
  <2>2. call[u].message # c.message
    BY <1>2 DEF Sends, Sendable
  <2> QED  BY <1>1, <2>1, <2>2 DEF Unmoved
<1>3. \A d \in Device :
        queue'[d] = queue[d] \/ (d = c.device /\ queue'[d] = Append(queue[d], c.message))
  <2>1. queue' = queue \/ queue' = [queue EXCEPT ![c.device] = Append(queue[c.device], c.message)]
    BY SendCases DEF Sends, SendWaits, SendAwaits, SendReturns, Enqueued
  <2> QED  BY <2>1 DEF Typed, TypeOK
<1> QED  BY <1>1, <1>2, <1>3

LEMMA OwnedSendOpen ==
  ASSUME Typed, Located, Owned, NEW t \in Thread, NEW c \in BlockedCall, Sends(t, c),
         c.command = "open", call[t].command \in {"none", "open"}
  PROVE  Owned'
<1>0. /\ c.message = t /\ t \notin Extra /\ message'[t].command = "open"
      /\ SendWaits(t, c) \/ SendAwaits(t, c)
  BY SendCases, ExtraFacts DEF Sends, Sendable, Written, SendReturns
<1>1. /\ fds' = fds /\ \A u \in Thread \ {t} : call'[u] = call[u]
      /\ call'[t].command = "open" /\ handles' = handles
  BY <1>0, SendFacts DEF SendWaits, SendAwaits, Typed, TypeOK, With
<1>2. CallsOwn'
  <2>1. \A u \in Thread \ {t} : Blocked(u) => message'[call[u].message] = message[call[u].message]
    BY SendFacts, Nothing DEF Blocked
  <2>2. ~ Blocked(t)'
    BY <1>1 DEF Blocked
  <2> QED  BY <1>1, <2>1, <2>2, CallsChange DEF Owned
<1>3. \A p \in Process, i \in Fd, d \in Device, h \in Handle : Live(p, i, d, h)' => Live(p, i, d, h)
  BY <1>1 DEF Live, Closing
<1>4. \A u \in Thread, d \in Device, h \in Handle : Told(u, d, h)' => Told(u, d, h)
  <2>1. \A d \in Device, h \in Handle : ~ Told(t, d, h)'
    BY <1>0, SendFacts DEF Told
  <2> QED  BY <1>0, <2>1, SendFacts, UnmovedSame, ExtraFacts
<1>5. \A n \in Message, d \in Device, h \in Handle :
        /\ Pending(n, d, h)' => Pending(n, d, h)
        /\ ClosePending(n, d, h)' => ClosePending(n, d, h)
  <2>1. \A d \in Device, h \in Handle : ~ Pending(t, d, h)' /\ ~ ClosePending(t, d, h)'
    BY <1>0 DEF Pending, ClosePending, OnHandle
  <2> QED  BY <1>0, <2>1, SendFacts, UnmovedSame
<1>6. ASSUME NEW d \in Device PROVE InTime(d)'
  <2>1. InTime(d) /\ \A n \in Queued(d) : message'[n] = message[n]
    BY SendFacts, QueueFacts, InTimeAll DEF Owned, Unmoved
  <2>2. queue'[d] = queue[d] \/ queue'[d] = Append(queue[d], t)
    BY <1>0, SendFacts
  <2> QED  BY <1>0, <1>1, <2>1, <2>2, SameInTime, AppendInTime, ExtraFacts
<1>7. \A d \in Device, h \in Handle : HandleOwned(d, h)'
  BY <1>1, <1>3, <1>4, <1>5, FewerHandles DEF Owned
<1> QED  BY <1>2, <1>6, <1>7 DEF Owned, RequestsAreInTime, InTime

LEMMA OwnedSendCall ==
  ASSUME Typed, Located, Owned, NEW t \in Thread, NEW c \in BlockedCall, Sends(t, c),
         NEW d \in Device, NEW h \in Handle,
         c.command \in {"close", "use"}, c.fd \in Fd, c.device = d,
         fds[ProcessOf[t]][c.fd].device = d, fds[ProcessOf[t]][c.fd].handle = h,
         message'[c.message].handle = h,
         call[t] = NoCall \/ (call[t].command = c.command /\ call[t].fd = c.fd),
         \A u \in Thread \ {t} :
           Blocked(u) /\ ProcessOf[u] = ProcessOf[t] /\ call[u].fd = c.fd =>
             "close" \notin {c.command, call[u].command},
         \A n \in Message : ClosePending(n, d, h) => n = c.message,
         h \in handles[d], \A u \in Thread : ~ Told(u, d, h),
         c.command = "close" =>
           \A p \in Process, i \in Fd : Live(p, i, d, h) => p = ProcessOf[t] /\ i = c.fd
  PROVE  Owned'
<1> DEFINE m == c.message
<1>0. /\ m \in Message /\ handles' = handles
      /\ \A n \in Message : n # m => Unmoved(n)
      /\ \A e \in Device : m \notin Queued(e) /\ ~ Replied(m)'
      /\ \A u \in Thread \ {t} : call'[u] = call[u]
      /\ ProcessOf[t] \in Process
  BY SendFacts DEF Process
<1>1. SendWaits(t, c) \/ SendAwaits(t, c) \/ SendReturns(t, c)
  BY SendCases DEF Sends
<1>2. /\ message'[m].command = c.command /\ message'[m].server = d
      /\ message' \in [Message -> IpcMessage]
  BY DEF Sends, Written
<1>3. \/ /\ fds' = fds /\ call'[t].op \in {"send", "receive"}
         /\ call'[t].command = c.command /\ call'[t].fd = c.fd /\ call'[t].device = d
         /\ call'[t].message = m
      \/ fds' = Closed(t, c) /\ call'[t] = NoCall
  BY <1>1 DEF SendWaits, SendAwaits, SendReturns, With, Typed, TypeOK
<1>4. c.command = "close" =>
        \A u \in Thread \ {t} : ~ (Blocked(u) /\ ProcessOf[u] = ProcessOf[t] /\ call[u].fd = c.fd)
  OBVIOUS
<1>5. /\ \A u \in Thread \ {t} : Blocked(u) =>
           fds'[ProcessOf[u]][call[u].fd] = fds[ProcessOf[u]][call[u].fd]
      /\ fds' # fds => c.command = "close"
      /\ \A p \in Process, j \in Fd : fds'[p][j] # NoFd => fds'[p][j] = fds[p][j]
      /\ call'[t] = NoCall /\ c.command = "close" => fds'[ProcessOf[t]][c.fd] = NoFd
  <2>1. CASE fds' = fds /\ call'[t].op \in {"send", "receive"}
    BY <2>1, Nothing
  <2>2. CASE fds' = Closed(t, c) /\ c.command # "close"
    BY <2>2 DEF Closed
  <2>3. CASE fds' = Closed(t, c) /\ c.command = "close"
    <3>1. fds' = [fds EXCEPT ![ProcessOf[t]][c.fd] = NoFd]
      BY <2>3 DEF Closed
    <3> QED  BY <1>4, <2>3, <3>1, ClosedFds DEF Owned
  <2> QED  BY <1>3, <2>1, <2>2, <2>3
<1>6. CallsOwn'
  <2>1. \A u \in Thread \ {t} : Blocked(u) => message'[call[u].message] = message[call[u].message]
    BY SendFacts, Nothing DEF Blocked
  <2>2. ASSUME Blocked(t)'
        PROVE  /\ fds' = fds /\ call'[t].fd = c.fd /\ call'[t].device = d /\ call'[t].message = m
               /\ call'[t].command = c.command
    BY <1>3, <2>2, Nothing DEF Blocked
  <2> QED  BY <1>0, <1>5, <2>1, <2>2, CallsChange DEF Owned
<1>7. ASSUME NEW p \in Process, NEW i \in Fd, NEW e \in Device, NEW g \in Handle, Live(p, i, e, g)'
      PROVE  /\ Live(p, i, e, g)
             /\ ~ (c.command = "close" /\ p = ProcessOf[t] /\ i = c.fd)
  <2>1. fds'[p][i] # NoFd
    <3>1. [device |-> e, handle |-> g].device # NoFd.device
      BY Nothing, NamesAssumption
    <3> QED  BY <1>7, <3>1 DEF Live
  <2>2. fds[p][i] = [device |-> e, handle |-> g] /\ ~ Closing(p, i)'
    BY <1>5, <1>7, <2>1 DEF Live
  <2>3. ~ (c.command = "close" /\ p = ProcessOf[t] /\ i = c.fd)
    BY <1>3, <1>5, <2>1, <2>2 DEF Closing
  <2>4. ASSUME Closing(p, i) PROVE FALSE
    <3>1. PICK u \in Thread : ProcessOf[u] = p /\ call[u].fd = i /\ call[u].command = "close"
      BY <2>4 DEF Closing
    <3>2. CASE u = t
      BY <2>3, <3>1, <3>2, Nothing
    <3>3. CASE u # t
      BY <1>0, <2>2, <3>1, <3>3 DEF Closing
    <3> QED  BY <3>2, <3>3
  <2> QED  BY <2>2, <2>3, <2>4 DEF Live
<1>8. \A u \in Thread, e \in Device, g \in Handle : Told(u, e, g)' => Told(u, e, g)
  <2>1. \A e \in Device, g \in Handle : ~ Told(m, e, g)'
    BY <1>0 DEF Told
  <2> HIDE DEF m
  <2> QED  BY <1>0, <2>1, UnmovedSame, ExtraFacts
<1>9. \A n \in Message, e \in Device, g \in Handle :
        /\ n # m => (Pending(n, e, g)' => Pending(n, e, g))
        /\ n # m => (ClosePending(n, e, g)' => ClosePending(n, e, g))
  BY <1>0, UnmovedSame
<1>10. \A e \in Device, g \in Handle :
         /\ Pending(m, e, g)' => e = d /\ g = h
         /\ ClosePending(m, e, g)' => e = d /\ g = h /\ c.command = "close"
  BY <1>2 DEF Pending, ClosePending, OnHandle
<1>11. ASSUME NEW e \in Device, NEW g \in Handle PROVE HandleOwned(e, g)'
  <2>0. HandleOwned(e, g)
    BY DEF Owned
  <2>1. CASE ~ (e = d /\ g = h)
    <3>1. ~ Pending(m, e, g)' /\ ~ ClosePending(m, e, g)'
      BY <1>10, <2>1
    <3>2. /\ \A n \in Message : Pending(n, e, g)' => Pending(n, e, g)
          /\ \A n \in Message : ClosePending(n, e, g)' => ClosePending(n, e, g)
      BY <1>9, <3>1
    <3> QED  BY <1>0, <1>7, <1>8, <2>0, <3>2, FewerHandles
  <2>2. CASE e = d /\ g = h
    <3>1. /\ \A n \in Message : ClosePending(n, d, h)' => n = m
          /\ \A u \in Thread : ~ Told(u, d, h)'
      BY <1>8, <1>9
    <3>2. ASSUME NEW p \in Process, NEW i \in Fd, Live(p, i, d, h)'
          PROVE  \A n \in Message : ~ ClosePending(n, d, h)'
      <4>1. Live(p, i, d, h) /\ c.command # "close"
        BY <1>7, <3>2
      <4>2. \A n \in Message : ~ ClosePending(n, d, h)
        BY <2>0, <2>2, <4>1 DEF HandleOwned
      <4> QED  BY <1>9, <1>10, <4>1, <4>2
    <3>3. ASSUME NEW p \in Process, NEW i \in Fd, Live(p, i, d, h)',
                 NEW r \in Process, NEW j \in Fd, Live(r, j, d, h)'
          PROVE  r = p /\ j = i
      BY <1>7, <2>0, <2>2, <3>3 DEF HandleOwned
    <3> HIDE DEF Live, Told, Pending, ClosePending, m
    <3> QED  BY <1>0, <2>2, <3>1, <3>2, <3>3 DEF HandleOwned
  <2> QED  BY <2>1, <2>2
<1>12. ASSUME NEW e \in Device PROVE InTime(e)'
  <2>1. InTime(e) /\ \A n \in Queued(e) : message'[n] = message[n]
    BY <1>0, QueueFacts, InTimeAll DEF Owned, Unmoved
  <2>2. CASE queue'[e] = queue[e]
    BY <1>0, <2>1, <2>2, SameInTime
  <2>3. CASE e = d /\ queue'[e] = Append(queue[e], m)
    <3>1. ASSUME NEW n \in Queued(d), message[n].command = "close", message[n].handle = h PROVE FALSE
      <4>1. n \in Message /\ Placed(n) /\ n # m
        BY <1>0, QueueFacts DEF Located
      <4>2. Busy(n) /\ message[n].server = d
        BY <4>1 DEF Placed, Server
      <4>3. ClosePending(n, d, h)
        BY <3>1, <4>2 DEF ClosePending, Pending, OnHandle
      <4> QED  BY <4>1, <4>3
    <3> HIDE DEF m
    <3> QED  BY <1>0, <2>1, <2>3, <3>1, AppendInTime DEF m
  <2> QED  BY <2>2, <2>3, SendFacts
<1> QED  BY <1>6, <1>11, <1>12 DEF Owned, RequestsAreInTime, InTime

LEMMA OwnedCallSent ==
  ASSUME Typed, Located, Owned, NEW t \in Thread, NEW i \in Fd, NEW command \in {"close", "use"},
         NEW a \in App \cup {NULL}, CallSent(t, i, command, a)
  PROVE  Owned'
<1> DEFINE p == ProcessOf[t]
<1>1. PICK m \in Message, c \in BlockedCall, d \in Device :
        /\ Sends(t, c) /\ call[t] = NoCall
        /\ c.command = command /\ c.message = m /\ c.fd = i /\ c.device = d
        /\ fds[p][i].device = d /\ message'[m] = MessageFor(t, i, command, a)
  <2> DEFINE n == IF a = NULL THEN t ELSE FirstOf(FreeExtra)
             b == CallOf(i, command, n, fds[p][i].device)
  <2>1. /\ Sendable(t, b) /\ n \in Message /\ b.device \in Device
        /\ b.command = command /\ b.message = n /\ b.fd = i /\ b.device = fds[p][i].device
        /\ message'[n] = MessageFor(t, i, command, a)
        /\ call[t] = NoCall
    BY CallSendable DEF CallSent
  <2>2. Sends(t, b)
    BY SendSteps
  <2> HIDE DEF n, b, p
  <2> QED  BY <2>1, <2>2 DEF Sendable
<1>2. PICK h \in Handle : fds[p][i].handle = h
  <2>1. p \in Process /\ d # NULL
    BY NamesAssumption DEF Process
  <2>2. fds[p][i] \in FileDescriptor /\ FdOK(p, i)
    BY <2>1 DEF Typed, TypeOK
  <2> QED  BY <1>1, <2>1, <2>2 DEF FdOK, FileDescriptor
<1>3. message'[m].handle = h
  BY <1>1, <1>2 DEF MessageFor
<1>4. \A u \in Thread \ {t} : ProcessOf[u] = ProcessOf[t] /\ call[u].fd = i =>
        "close" \notin {command, call[u].command}
  BY DEF CallSent, Undisturbed
<1>5. Live(p, i, d, h)
  <2>1. ~ Closing(p, i)
    BY <1>1, <1>4, Nothing DEF Closing
  <2>2. p \in Process /\ d # NULL
    BY NamesAssumption DEF Process
  <2> QED  BY <1>1, <1>2, <2>1, <2>2, LiveIs
<1>6. /\ h \in handles[d]
      /\ \A r \in Process, j \in Fd : Live(r, j, d, h) => r = p /\ j = i
      /\ \A n \in Message : ~ ClosePending(n, d, h)
      /\ \A u \in Thread : ~ Told(u, d, h)
  <2>1. HandleOwned(d, h) /\ p \in Process
    BY DEF Owned, Process
  <2> HIDE DEF p
  <2> QED  BY <1>5, <2>1 DEF HandleOwned
<1>7. \A u \in Thread \ {t} :
        Blocked(u) /\ ProcessOf[u] = ProcessOf[t] /\ call[u].fd = c.fd =>
          "close" \notin {c.command, call[u].command}
  BY <1>1, <1>4
<1> QED  BY <1>1, <1>2, <1>3, <1>6, <1>7, OwnedSendCall

LEMMA OwnedResumes ==
  ASSUME Typed, Located, Owned, NEW t \in Thread, SendResumes(t)
  PROVE  Owned'
<1>1. /\ Sends(t, call[t]) /\ call[t] \in BlockedCall /\ CallOK(t) /\ call[t] # NoCall
      /\ call[t].op = "send" /\ message' = message
  BY SendSteps, Nothing DEF SendResumes, Typed, TypeOK
<1>2. CASE call[t].command = "open"
  BY <1>1, <1>2, OwnedSendOpen
<1>3. CASE call[t].command # "open"
  <2>1. PICK m \in Message, d \in Device :
          /\ call[t].message = m /\ call[t].device = d /\ Busy(m) /\ Waits(m)
          /\ message[m].command = call[t].command /\ message[m].server = d
          /\ call[t].command \in {"close", "use"} /\ call[t].fd \in Fd
    BY <1>1, <1>3 DEF CallOK, Waits
  <2>2. PICK h \in Handle : message[m].handle = h
    BY <1>3, <2>1 DEF Typed, MessageOK
  <2>3. Pending(m, d, h) /\ Blocked(t)
    BY <1>1, <2>1, <2>2 DEF Pending, OnHandle, Blocked
  <2>4. HandleOwned(d, h) /\ CallsOwn
    BY DEF Owned
  <2>5. h \in handles[d] /\ \A u \in Thread : ~ Told(u, d, h)
    BY <2>3, <2>4 DEF HandleOwned
  <2>6. /\ fds[ProcessOf[t]][call[t].fd].device = d /\ fds[ProcessOf[t]][call[t].fd].handle = h
        /\ ProcessOf[t] \in Process
    BY <1>1, <2>1, <2>2, <2>3, <2>4 DEF CallsOwn, Process
  <2>7. \A u \in Thread \ {t} :
          Blocked(u) /\ ProcessOf[u] = ProcessOf[t] /\ call[u].fd = call[t].fd =>
            "close" \notin {call[t].command, call[u].command}
    BY <2>3, <2>4 DEF CallsOwn
  <2>8. CASE call[t].command = "use"
    <3>1. Live(ProcessOf[t], call[t].fd, d, h)
      BY <1>1, <2>1, <2>2, <2>4, <2>8, WaiterLive
    <3>2. \A n \in Message : ~ ClosePending(n, d, h)
      BY <2>1, <2>4, <2>6, <3>1 DEF HandleOwned
    <3> QED  BY <1>1, <2>1, <2>2, <2>5, <2>6, <2>7, <2>8, <3>2, OwnedSendCall
  <2>9. CASE call[t].command = "close"
    <3>1. ClosePending(m, d, h)
      BY <2>1, <2>3, <2>9 DEF ClosePending
    <3>2. /\ \A n \in Message : ClosePending(n, d, h) => n = m
          /\ \A p \in Process, i \in Fd : ~ Live(p, i, d, h)
      BY <2>4, <3>1 DEF HandleOwned
    <3> QED  BY <1>1, <2>1, <2>2, <2>5, <2>6, <2>7, <3>2, OwnedSendCall
  <2> QED  BY <2>1, <2>8, <2>9
<1> QED  BY <1>2, <1>3

LEMMA OwnedSame ==
  ASSUME Owned, UNCHANGED <<fds, message, queue, reply, call, handles>>
  PROVE  Owned'
<1>1. CallsOwn'
  BY DEF Owned, CallsOwn, Blocked
<1>2. RequestsAreInTime'
  BY DEF Owned, RequestsAreInTime
<1>3. ASSUME NEW d \in Device, NEW h \in Handle PROVE HandleOwned(d, h)'
  <2>1. \A p \in Process, i \in Fd : Live(p, i, d, h)' <=> Live(p, i, d, h)
    BY DEF Live, Closing
  <2>2. /\ \A m \in Message : Pending(m, d, h)' <=> Pending(m, d, h)
        /\ \A m \in Message : ClosePending(m, d, h)' <=> ClosePending(m, d, h)
        /\ \A t \in Thread : Told(t, d, h)' <=> Told(t, d, h)
    BY DEF Pending, ClosePending, Told, OnHandle, Busy, Waits, Queued, Replied
  <2> QED  BY <2>1, <2>2, FewerHandles DEF Owned
<1> QED  BY <1>1, <1>2, <1>3 DEF Owned

LEMMA OwnedStep == ASSUME Typed, Located, Owned, Step PROVE Owned'
<1>1. ASSUME NEW t \in Thread, ThreadStep(t) PROVE Owned'
  <2>1. ASSUME NEW path \in Path, NEW j \in Nat, NEW a \in App \cup {NULL}, OpenBegins(t, path, j, a)
        PROVE  Owned'
    <3>1. /\ OpenOf(t, path, j, a) \in BlockedCall /\ OpenOf(t, path, j, a).command = "open"
          /\ call[t].command = "none"
      BY <2>1, Nothing DEF OpenBegins, Asks, OpenOf
    <3> QED  BY <2>1, <3>1, SendSteps, OwnedSendOpen
  <2>2. ASSUME NEW j \in Nat, OpenGoesOn(t, j) PROVE Owned'
    <3> DEFINE c == OpenOf(t, call[t].path, j, call[t].caller)
    <3>1. c \in BlockedCall /\ c.command = "open" /\ call[t].command = "open" /\ Sends(t, c)
      BY <2>2, SendSteps DEF OpenGoesOn, Asks, OpenOf
    <3> HIDE DEF c
    <3> QED  BY <3>1, OwnedSendOpen
  <2> QED  BY <1>1, <2>1, <2>2, OwnedDone, OwnedOpened, OwnedCallSent, OwnedResumes DEF ThreadStep
<1>2. ASSUME NEW d \in Device, RegisterResourceManager(d) PROVE Owned'
  BY <1>2, OwnedSame DEF RegisterResourceManager
<1>3. ASSUME NEW p \in Process, TakeCallback(p) PROVE Owned'
  BY <1>3, OwnedSame DEF TakeCallback
<1>4. CASE UNCHANGED vars
  BY <1>4, OwnedSame DEF vars, kernelVars
<1> QED  BY <1>1, <1>2, <1>3, <1>4, OwnedTake, OwnedAnswer DEF Step

(* Every descriptor names a handle that its manager has open, and no two   *)
(* name the same, unless a close of it is under way; and no request is     *)
(* taken by a manager after the close of its handle.                       *)
THEOREM HandlesAreOpen == Spec => []HandlesOpen
<1> DEFINE Inv == Typed /\ Located /\ Counted /\ Owned
<1>1. Init => Inv
  <2> SUFFICES ASSUME Init PROVE Owned
    BY PoolInit
  <2>1. /\ \A t \in Thread : call[t] = NoCall /\ reply[t] = << >>
        /\ \A m \in Message : message[m] = NoMessage
        /\ \A d \in Device : queue[d] = << >>
        /\ \A p \in Process, i \in Fd : fds[p][i] = NoFd
    BY DEF Init
  <2>2. \A t \in Thread : ~ Blocked(t) /\ \A d \in Device, h \in Handle : ~ Told(t, d, h)
    BY <2>1, Nothing DEF Blocked, Told, Replied
  <2>3. \A m \in Message, d \in Device, h \in Handle : ~ Pending(m, d, h) /\ ~ ClosePending(m, d, h)
    BY <2>1, Nothing, NamesAssumption DEF Pending, ClosePending, OnHandle
  <2>4. \A p \in Process, i \in Fd, d \in Device, h \in Handle : ~ Live(p, i, d, h)
    <3>1. ASSUME NEW d \in Device, NEW h \in Handle PROVE NoFd.device # [device |-> d, handle |-> h].device
      BY Nothing, NamesAssumption
    <3> QED  BY <2>1, <3>1 DEF Live
  <2>5. RequestsAreInTime
    BY <2>1 DEF RequestsAreInTime
  <2>6. CallsOwn
    BY <2>2 DEF CallsOwn
  <2>7. \A d \in Device, h \in Handle : HandleOwned(d, h)
    BY <2>2, <2>3, <2>4 DEF HandleOwned
  <2> QED  BY <2>5, <2>6, <2>7 DEF Owned
<1>2. Inv /\ [Next]_vars => Inv'
  BY StepCases, TypedStep, LocatedStep, CountedStep, OwnedStep
<1>3. Inv => HandlesOpen
  <2> SUFFICES ASSUME Typed, Owned PROVE DescriptorsAreOpen
    BY DEF HandlesOpen, Owned
  <2>1. ASSUME NEW p \in Process, NEW i \in Fd, fds[p][i].device # NULL, ~ Closing(p, i)
        PROVE  /\ fds[p][i].handle \in handles[fds[p][i].device]
               /\ \A r \in Process, j \in Fd :
                    fds[r][j] = fds[p][i] /\ ~ Closing(r, j) => <<r, j>> = <<p, i>>
    <3>1. PICK d \in Device, h \in Handle : fds[p][i].device = d /\ fds[p][i].handle = h
      <4>1. fds[p][i] \in FileDescriptor /\ FdOK(p, i)
        BY DEF Typed, TypeOK
      <4> QED  BY <2>1, <4>1 DEF FileDescriptor, FdOK
    <3>2. Live(p, i, d, h)
      BY <2>1, <3>1, LiveIs
    <3>3. h \in handles[d] /\ \A r \in Process, j \in Fd : Live(r, j, d, h) => r = p /\ j = i
      BY <3>2 DEF Owned, HandleOwned
    <3>4. \A r \in Process, j \in Fd :
            fds[r][j] = fds[p][i] /\ ~ Closing(r, j) => Live(r, j, d, h)
      BY <3>2 DEF Live
    <3> QED  BY <3>1, <3>3, <3>4
  <2> QED  BY <2>1 DEF DescriptorsAreOpen
<1> HIDE DEF Inv
<1> QED  BY <1>1, <1>2, <1>3, PTL DEF Spec
=============================================================================
