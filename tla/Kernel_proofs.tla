---------------------------- MODULE Kernel_proofs ----------------------------
(***************************************************************************)
(* Theorems about the kernel, for every number of threads and queues, every *)
(* program and every set of devices.                                        *)
(***************************************************************************)
EXTENDS KernelProperties, FiniteSetTheorems, SequenceTheorems, TLAPS

-----------------------------------------------------------------------------
(* The scheduler primitives take a scheduler state to a scheduler state.   *)

LEMMA ListFacts ==
  /\ SchedulerQueue \in ThreadList
  /\ \A q \in QueueId : RecvQ(q) \in ThreadList /\ SendQ(q) \in ThreadList
BY DEF ThreadList, SchedulerQueue, RecvQ, SendQ

LEMMA StopType ==
  ASSUME NEW k \in Sched, NEW why \in Statuses
  PROVE  Stop(k, why) \in Sched
BY DEF Stop, Sched

LEMMA RelinkType ==
  ASSUME NEW k \in Sched, NEW l \in ThreadList, NEW C, NEW x \in Link, NEW v \in Link
  PROVE  Relink(k, l, C, x, v) \in Sched
<1> DEFINE p == CHOOSE p \in Walk(k, l, C) \cap C : k.next[p] = x
<1>1. [k EXCEPT !.head[l] = v] \in Sched
  BY DEF Sched
<1>2. [k EXCEPT !.next[p] = v] \in Sched
  <2> HIDE DEF p
  <2> QED BY DEF Sched
<1> QED BY <1>1, <1>2 DEF Relink

LEMMA PushType ==
  ASSUME NEW k \in Sched, NEW l \in ThreadList \cup {NULL}, NEW t \in Link
  PROVE  Push(k, l, t) \in Sched
<1> DEFINE found == Walk(k, l, Passed(k, t)) \ Passed(k, t)
           x == CHOOSE x \in found : TRUE
           r == Relink(k, l, Passed(k, t), x, t)
<1>1. CASE l = NULL \/ t = NULL
  BY <1>1 DEF Push
<1>2. CASE ~ (l = NULL \/ t = NULL) /\ found = {}
  BY <1>2, StopType DEF Push, Statuses
<1>3. CASE ~ (l = NULL \/ t = NULL) /\ found # {}
  <2>1. l \in ThreadList
    BY <1>3
  <2>2. x \in Link
    BY <1>3 DEF Walk
  <2>3. r \in Sched
    BY <2>1, <2>2, RelinkType
  <2>4. Push(k, l, t) = [r EXCEPT !.on[t] = l, !.next[t] = x]
    BY <1>3 DEF Push
  <2>5. [r EXCEPT !.on[t] = l, !.next[t] = x] \in Sched
    <3> HIDE DEF r, x
    <3> QED BY <2>2, <2>3 DEF Sched
  <2> QED BY <2>4, <2>5
<1> QED BY <1>1, <1>2, <1>3

LEMMA PopType ==
  ASSUME NEW k \in Sched, NEW l \in ThreadList
  PROVE  /\ HeadOf(k, l) \in Link
         /\ Pop(k, l) \in Sched
BY DEF HeadOf, Pop, Sched

LEMMA RemoveType ==
  ASSUME NEW k \in Sched, NEW l \in ThreadList \cup {NULL}, NEW t \in Link
  PROVE  Remove(k, l, t) \in Sched
<1> DEFINE others == Link \ {t, NULL}
           found  == Walk(k, l, others) \ others
<1>1. k.next[t] \in Link
  BY DEF Sched
<1>2. l \in ThreadList => Relink(k, l, others, t, k.next[t]) \in Sched
  BY <1>1, RelinkType
<1>3. Stop(k, "fault") \in Sched /\ Stop(k, "hung") \in Sched
  BY StopType DEF Statuses
<1> QED BY <1>2, <1>3 DEF Remove

LEMMA ScheduleYieldType ==
  ASSUME NEW k \in Sched
  PROVE  ScheduleYield(k) \in Sched
<1> DEFINE t  == HeadOf(k, SchedulerQueue)
           k0 == Pop(k, SchedulerQueue)
           k1 == [k0 EXCEPT !.current = t, !.state[t] = Running]
<1>1. t \in Link /\ k0 \in Sched
  BY PopType, ListFacts
<1>2. k1 \in Sched
  <2> HIDE DEF t, k0
  <2> QED BY <1>1 DEF Sched, States
<1>3. Stop(k1, "lost") \in Sched
  BY <1>2, StopType DEF Statuses
<1> QED BY <1>2, <1>3 DEF ScheduleYield

LEMMA YieldCurrentThreadType ==
  ASSUME NEW k \in Sched, NEW l \in ThreadList \cup {NULL}
  PROVE  YieldCurrentThread(k, l) \in Sched
<1> DEFINE saved == [k EXCEPT !.r0[k.current] = IF l = NULL THEN Success ELSE ListPointer]
<1>1. saved \in Sched /\ k.current \in Link
  BY DEF Sched, Returns
<1>2. Push(saved, l, k.current) \in Sched
  BY <1>1, PushType
<1> QED BY <1>2, ScheduleYieldType DEF YieldCurrentThread

LEMMA PreemptType ==
  ASSUME NEW k \in Sched
  PROVE  Preempt(k) \in Sched
<1>1. [k EXCEPT !.state[k.current] = Ready] \in Sched
  BY DEF Sched, States
<1>2. YieldCurrentThread([k EXCEPT !.state[k.current] = Ready], SchedulerQueue) \in Sched
  BY <1>1, YieldCurrentThreadType, ListFacts
<1> QED BY <1>2 DEF Preempt

LEMMA WakeHeadType ==
  ASSUME NEW k \in Sched, NEW l \in ThreadList, NEW ret \in Returns
  PROVE  WakeHead(k, l, ret) \in Sched
<1> DEFINE t  == HeadOf(k, l)
           k0 == Pop(k, l)
           k1 == [k0 EXCEPT !.r0[t] = ret, !.state[t] = Ready]
<1>1. t \in Link /\ k0 \in Sched
  BY PopType
<1>2. k1 \in Sched
  <2> HIDE DEF t, k0
  <2> QED BY <1>1 DEF Sched, States
<1>3. Push(k1, SchedulerQueue, t) \in Sched
  BY <1>1, <1>2, PushType, ListFacts
<1> QED BY <1>3 DEF WakeHead

LEMMA UnblockThreadType ==
  ASSUME NEW k \in Sched, NEW l \in ThreadList, NEW ret \in Returns
  PROVE  UnblockThread(k, l, ret) \in Sched
BY WakeHeadType, PreemptType DEF UnblockThread

-----------------------------------------------------------------------------
(* What the calls of the other modules build from them.                    *)

LEMMA CreatedType ==
  ASSUME NEW k \in Sched, NEW u \in Thread, NEW p \in Int,
         NEW detached \in BOOLEAN, NEW pid \in Nat
  PROVE  Created(k, u, p, detached, pid) \in Sched
<1>1. u \in Link /\ NULL \in Link
  BY DEF Link
<1> QED BY <1>1 DEF Created, Sched, States

LEMMA StartedType ==
  ASSUME NEW k \in Sched, NEW u \in Thread
  PROVE  Started(k, u) \in Sched
<1>1. u \in Link /\ k.on[u] \in ThreadList \cup {NULL}
  BY DEF Link, Sched
<1>2. /\ [k EXCEPT !.state[u] = Ready] \in Sched
      /\ [k EXCEPT !.state[u] = Waiting] \in Sched
  BY <1>1 DEF Sched, States
<1>3. /\ Push([k EXCEPT !.state[u] = Ready], SchedulerQueue, u) \in Sched
      /\ Push([k EXCEPT !.state[u] = Waiting], k.on[u], u) \in Sched
  BY <1>1, <1>2, PushType, ListFacts
<1> QED BY <1>3, PreemptType DEF Started

LEMMA ReprioritisedType ==
  ASSUME NEW k \in Sched, NEW u \in Thread, NEW p \in Int
  PROVE  Reprioritised(k, u, p) \in Sched
<1> DEFINE k1 == [k EXCEPT !.prio[u] = p]
<1>1. u \in Link /\ k.on[u] \in ThreadList \cup {NULL}
  BY DEF Link, Sched
<1>2. k1 \in Sched
  BY <1>1 DEF Sched
<1>3. Push(Remove(k1, k.on[u], u), k.on[u], u) \in Sched
  BY <1>1, <1>2, RemoveType, PushType
<1> QED BY <1>2, <1>3, PreemptType DEF Reprioritised

LEMMA WakersType ==
  ASSUME NEW k \in Sched, NEW q \in QueueId
  PROVE  WakeReceiver(k, q) \in Sched /\ WakeSender(k, q) \in Sched
BY UnblockThreadType, ListFacts DEF WakeReceiver, WakeSender, Returns

-----------------------------------------------------------------------------
(* Type correctness, one lemma for the actions of each module.             *)

LEMMA UserType == User \in Continuation
BY DEF User, Cont, Continuation, ContOps

LEMMA ThreadCallType ==
  ASSUME TypeOK, NEW t \in Thread, ThreadCall(t)
  PROVE  sched' \in Sched /\ cont' \in [Thread -> Continuation]
<1>1. t \in Link /\ \A id \in Thread : Target(t, id) \in Thread
  BY DEF Target, Link
<1>2. sched \in Sched /\ cont \in [Thread -> Continuation]
  BY DEF TypeOK
<1>3. ASSUME YieldThread(t) PROVE sched' \in Sched /\ cont' = cont
  <2>1. [sched EXCEPT !.state[t] = Ready] \in Sched
    BY <1>1, <1>2 DEF Sched, States
  <2> QED BY <1>3, <2>1, YieldCurrentThreadType, ListFacts DEF YieldThread
<1>4. ASSUME NEW p \in Priorities, NEW d \in BOOLEAN, CreateThread(t, p, d)
      PROVE  sched' \in Sched /\ cont' \in [Thread -> Continuation]
  <2>1. p \in Int /\ sched.proc[t] \in Nat
    BY <1>1, <1>2, PrioritiesAssumption DEF Sched
  <2> QED BY <1>2, <1>4, <2>1, CreatedType, UserType DEF CreateThread
<1>5. ASSUME NEW id \in Thread, StartThread(t, id)
      PROVE  sched' \in Sched /\ cont' = cont
  BY <1>1, <1>2, <1>5, StartedType DEF StartThread
<1>6. ASSUME NEW id \in Thread, CancelThread(t, id)
      PROVE  sched' \in Sched /\ cont' = cont
  <2> DEFINE u  == Target(t, id)
             k1 == IF sched.state[u] = Stopped THEN sched
                   ELSE Remove(sched, SchedulerQueue, u)
             k2 == [k1 EXCEPT !.state[u] = IF k1.detached[u] THEN Unset ELSE Dead,
                              !.r0[t] = Success]
  <2>1. u \in Link
    BY <1>1 DEF Link
  <2>2. k1 \in Sched
    BY <1>2, <2>1, RemoveType, ListFacts
  <2>3. k2 \in Sched
    <3> HIDE DEF k1, u
    <3> QED BY <1>1, <2>1, <2>2 DEF Sched, States, Returns
  <2>4. ScheduleYield(k2) \in Sched /\ Preempt(k2) \in Sched
    BY <2>3, ScheduleYieldType, PreemptType
  <2> QED BY <1>6, <2>4 DEF CancelThread
<1>7. ASSUME NEW id \in Thread, JoinThread(t, id)
      PROVE  sched' \in Sched /\ cont' \in [Thread -> Continuation]
  <2>1. [sched EXCEPT !.state[t] = Waiting] \in Sched
    BY <1>1, <1>2 DEF Sched, States
  <2>2. YieldCurrentThread([sched EXCEPT !.state[t] = Waiting], NULL) \in Sched
    BY <2>1, YieldCurrentThreadType
  <2>3. [sched EXCEPT !.state[Target(t, id)] = Unset] \in Sched
    BY <1>1, <1>2 DEF Sched, States
  <2>4. Cont("join", NULL, NULL, Target(t, id)) \in Continuation
    BY <1>1 DEF Cont, Continuation, ContOps
  <2> QED BY <1>2, <1>7, <2>2, <2>3, <2>4 DEF JoinThread
<1>8. ASSUME NEW id \in Thread, SuspendThread(t, id)
      PROVE  sched' \in Sched /\ cont' = cont
  <2> DEFINE u == Target(t, id)
             k1 == [sched EXCEPT !.state[u] = Stopped]
  <2>1. u \in Link /\ k1 \in Sched /\ sched.on[u] \in ThreadList \cup {NULL}
    BY <1>1, <1>2 DEF Sched, States, Link
  <2>2. YieldCurrentThread(k1, NULL) \in Sched /\ Remove(k1, sched.on[u], u) \in Sched
    BY <2>1, YieldCurrentThreadType, RemoveType
  <2> QED BY <1>8, <2>2 DEF SuspendThread
<1>9. ASSUME NEW id \in Thread, NEW p \in Priorities, SetThreadPriority(t, id, p)
      PROVE  sched' \in Sched /\ cont' = cont
  <2>1. p \in Int
    BY PrioritiesAssumption
  <2> QED BY <1>1, <1>2, <1>9, <2>1, ReprioritisedType DEF SetThreadPriority
<1> QED BY <1>2, <1>3, <1>4, <1>5, <1>6, <1>7, <1>8, <1>9 DEF ThreadCall

(* The rings: a take needs a message, a put needs room.                    *)
Delivery == [queue : QueueId \cup {NULL}, msg : Msg \cup {NULL}]

LEMMA StoredType ==
  ASSUME NEW r \in Ring, NEW m \in Msg \cup {NULL}, NEW i
  PROVE  Stored(r, i, m) \in Ring
<1>1. r.used + 1 \in Nat
  BY DEF Ring
<1>2. [r.heap EXCEPT ![i] = m] \in [0 .. MaxQueueSize - 1 -> Msg \cup {NULL}]
  <2>1. r.heap \in [0 .. MaxQueueSize - 1 -> Msg \cup {NULL}]
    BY DEF Ring
  <2> QED BY <2>1, Zenon
<1>3. Stored(r, i, m) = [r EXCEPT !.heap = [r.heap EXCEPT ![i] = m], !.used = r.used + 1]
  BY DEF Stored
<1> DEFINE h == [r.heap EXCEPT ![i] = m]
           u == r.used + 1
<1>4. [r EXCEPT !.heap = h, !.used = u] \in Ring
  <2>1. h \in [0 .. MaxQueueSize - 1 -> Msg \cup {NULL}] /\ u \in Nat
    BY <1>1, <1>2
  <2> HIDE DEF h, u
  <2> QED BY <2>1 DEF Ring
<1> QED BY <1>3, <1>4

LEMMA RingType ==
  ASSUME NEW r \in Ring, NEW m \in Msg \cup {NULL}
  PROVE  /\ Appended(r, m) \in Ring
         /\ ~ Full(r) => Jammed(r, m) \in Ring
         /\ r.used # 0 => Taken(r) \in Ring
         /\ FirstMessage(r) \subseteq Msg \cup {NULL}
<1>1. \A i : Stored(r, i, m) \in Ring
  BY StoredType
<1>2. ASSUME NEW i \in Nat PROVE Wrap(r, i) \in Nat
  BY DEF Wrap, Ring
<1>3. r.first + r.used \in Nat /\ r.first + 1 \in Nat
  BY DEF Ring
<1>4. Appended(r, m) \in Ring
  BY <1>1, <1>2, <1>3 DEF Appended
<1>5. ASSUME ~ Full(r) PROVE Jammed(r, m) \in Ring
  <2> DEFINE f == IF r.first = 0 THEN r.size - 1 ELSE r.first - 1
  <2>1. f \in Nat
    BY <1>5, MaxQueueSizeAssumption DEF Full, Ring
  <2>2. [r EXCEPT !.first = f] \in Ring
    <3> HIDE DEF f
    <3> QED BY <2>1 DEF Ring
  <2>3. Stored([r EXCEPT !.first = f], f, m) \in Ring
    BY <2>2, StoredType
  <2> QED BY <2>3 DEF Jammed
<1>6. ASSUME r.used # 0 PROVE Taken(r) \in Ring
  <2> DEFINE f == Wrap(r, r.first + 1)
             u == r.used - 1
  <2>1. f \in Nat
    BY <1>2, <1>3
  <2>2. u \in Nat
    BY <1>6 DEF Ring
  <2>3. Taken(r) = [r EXCEPT !.first = f, !.used = u]
    BY DEF Taken
  <2>4. [r EXCEPT !.first = f, !.used = u] \in Ring
    <3> HIDE DEF f, u
    <3> QED BY <2>1, <2>2 DEF Ring
  <2> QED BY <2>3, <2>4
<1>7. FirstMessage(r) \subseteq Msg \cup {NULL}
  BY DEF FirstMessage, Ring
<1> QED BY <1>4, <1>5, <1>6, <1>7

(* What a step that only touches threads, rings and the delivery keeps.    *)
MessageTypes ==
  /\ sched' \in Sched
  /\ cont' \in [Thread -> Continuation]
  /\ mq' \in [QueueId -> Ring]

LEMMA WaitOnType ==
  ASSUME TypeOK, NEW t \in Thread, NEW l \in ThreadList, NEW c \in Continuation,
         WaitOn(t, l, c)
  PROVE  MessageTypes
<1>1. [sched EXCEPT !.state[t] = Waiting] \in Sched
  BY DEF TypeOK, Sched, States, Link
<1>2. YieldCurrentThread([sched EXCEPT !.state[t] = Waiting], l) \in Sched
  BY <1>1, YieldCurrentThreadType
<1> QED BY <1>2 DEF TypeOK, WaitOn, MessageTypes

LEMMA ReturnType ==
  ASSUME TypeOK, NEW t \in Thread, Return(t)
  PROVE  MessageTypes
BY UserType DEF TypeOK, Return, MessageTypes

LEMMA NoDeliveryType == NoDelivery \in Delivery
BY DEF NoDelivery, Delivery

LEMMA PutLoopType ==
  ASSUME TypeOK, NEW t \in Thread, NEW op \in {"send", "jam"}, NEW q \in QueueId,
         NEW m \in Msg \cup {NULL}, PutLoop(t, op, q, m)
  PROVE  MessageTypes /\ delivered' \in Delivery
<1>1. Cont(op, q, m, NULL) \in Continuation
  BY DEF Cont, Continuation, ContOps
<1>2. CASE Full(mq[q])
  BY <1>1, <1>2, WaitOnType, ListFacts, NoDeliveryType DEF PutLoop
<1>3. CASE ~ Full(mq[q])
  <2>1. mq[q] \in Ring
    BY DEF TypeOK
  <2>2. Appended(mq[q], m) \in Ring /\ Jammed(mq[q], m) \in Ring
    BY <1>3, <2>1, RingType
  <2>3. mq' \in [QueueId -> Ring]
    BY <1>3, <2>2 DEF PutLoop, TypeOK
  <2>4. sched' \in Sched
    BY <1>3, WakersType DEF PutLoop, TypeOK
  <2>5. cont' \in [Thread -> Continuation]
    BY <1>3, UserType DEF PutLoop, TypeOK
  <2> QED BY <2>3, <2>4, <2>5, NoDeliveryType DEF PutLoop, MessageTypes
<1> QED BY <1>2, <1>3

LEMMA TakeLoopType ==
  ASSUME TypeOK, NEW t \in Thread, NEW op \in {"recv", "begin"}, NEW q \in QueueId,
         TakeLoop(t, op, q)
  PROVE  MessageTypes /\ delivered' \in Delivery
<1>1. Cont(op, q, NULL, NULL) \in Continuation
  BY DEF Cont, Continuation, ContOps
<1>2. CASE mq[q].used = 0
  BY <1>1, <1>2, WaitOnType, ListFacts, NoDeliveryType DEF TakeLoop
<1>3. CASE mq[q].used # 0
  <2>1. mq[q] \in Ring
    BY DEF TypeOK
  <2>2. Taken(mq[q]) \in Ring /\ FirstMessage(mq[q]) \subseteq Msg \cup {NULL}
    BY <1>3, <2>1, RingType
  <2>3. mq' \in [QueueId -> Ring] /\ delivered' \in Delivery
    BY <1>3, <2>2 DEF TakeLoop, TypeOK, Delivery
  <2>4. sched' \in Sched
    BY <1>3, WakersType DEF TakeLoop, TypeOK
  <2>5. cont' \in [Thread -> Continuation]
    BY <1>3, UserType DEF TakeLoop, TypeOK
  <2> QED BY <2>3, <2>4, <2>5 DEF MessageTypes
<1> QED BY <1>2, <1>3

LEMMA DestroyLoopType ==
  ASSUME TypeOK, NEW t \in Thread, NEW q \in QueueId, DestroyLoop(t, q)
  PROVE  MessageTypes
<1> DEFINE l  == IF HeadOf(sched, SendQ(q)) # NULL THEN SendQ(q) ELSE RecvQ(q)
           k1 == UnblockThread(sched, l, Interrupted)
<1>1. k1 \in Sched
  BY UnblockThreadType, ListFacts DEF TypeOK, Returns
<1>2. Stop(k1, "hung") \in Sched
  BY <1>1, StopType DEF Statuses
<1>3. Cont("destroy", q, NULL, NULL) \in Continuation
  BY DEF Cont, Continuation, ContOps
<1>4. CASE HeadOf(sched, l) # NULL
  BY <1>1, <1>2, <1>3, <1>4 DEF DestroyLoop, TypeOK, MessageTypes
<1>5. CASE HeadOf(sched, l) = NULL
  <2>1. mq[q] \in Ring /\ 0 \in 0 .. MaxQueueSize
    BY MaxQueueSizeAssumption DEF TypeOK
  <2>2. [mq[q] EXCEPT !.size = 0] \in Ring
    BY <2>1 DEF Ring
  <2>3. mq' = [mq EXCEPT ![q].size = 0] /\ UNCHANGED sched
        /\ cont' = [cont EXCEPT ![t] = User]
    BY <1>5 DEF DestroyLoop
  <2> QED BY <2>2, <2>3, UserType DEF TypeOK, MessageTypes
<1> QED BY <1>4, <1>5

LEMMA MessageCallType ==
  ASSUME TypeOK, NEW t \in Thread, MessageCall(t)
  PROVE  MessageTypes /\ delivered' \in Delivery
<1>1. ASSUME NEW n \in 1 .. MaxQueueSize, CreateMessageQueue(t, n)
      PROVE  MessageTypes /\ delivered' \in Delivery
  <2>1. PICK q \in QueueId :
          /\ mq' = [mq EXCEPT ![q] = [@ EXCEPT !.proc = sched.proc[t], !.used = 0,
                                                !.first = 0, !.size = n]]
          /\ sched' = [sched EXCEPT !.head[RecvQ(q)] = Sentinel,
                                    !.head[SendQ(q)] = Sentinel]
    BY <1>1 DEF CreateMessageQueue
  <2>2. sched' \in Sched
    BY <2>1 DEF TypeOK, Sched, Link
  <2>3. mq[q] \in Ring /\ sched.proc[t] \in Nat /\ n \in 0 .. MaxQueueSize
    BY DEF TypeOK, Sched, Link
  <2>4. [mq[q] EXCEPT !.proc = sched.proc[t], !.used = 0, !.first = 0, !.size = n] \in Ring
    BY <2>3 DEF Ring
  <2>5. mq' \in [QueueId -> Ring]
    BY <2>1, <2>4 DEF TypeOK
  <2> QED BY <1>1, <2>2, <2>5, NoDeliveryType DEF CreateMessageQueue, MessageTypes, TypeOK
<1>2. ASSUME NEW q \in QueueId, NEW m \in Msg,
             SendMessage(t, q, m) \/ SendMessageNonblocking(t, q, m) \/ JamMessage(t, q, m)
      PROVE  MessageTypes /\ delivered' \in Delivery
  BY <1>2, PutLoopType DEF SendMessage, SendMessageNonblocking, JamMessage
<1>3. ASSUME NEW q \in QueueId, ReceiveMessage(t, q) \/ ReceiveMessageNonblocking(t, q)
      PROVE  MessageTypes /\ delivered' \in Delivery
  BY <1>3, TakeLoopType DEF ReceiveMessage, ReceiveMessageNonblocking
<1>4. ASSUME NEW q \in QueueId, DestroyMessageQueue(t, q)
      PROVE  MessageTypes /\ delivered' \in Delivery
  BY <1>4, DestroyLoopType, NoDeliveryType DEF DestroyMessageQueue
<1>5. cont[t] \in Continuation
  BY DEF TypeOK
<1>6. ASSUME PutResumes(t) PROVE MessageTypes /\ delivered' \in Delivery
  <2>1. PICK op \in {"send", "jam"} :
          /\ cont[t].op = op
          /\ IF sched.r0[t] # Success
             THEN Return(t) /\ delivered' = NoDelivery
             ELSE PutLoop(t, op, cont[t].queue, cont[t].msg)
    BY <1>6 DEF PutResumes, Resumes
  <2>2. cont[t].queue \in QueueId /\ cont[t].msg \in Msg \cup {NULL}
    BY <1>5, <2>1 DEF Continuation
  <2> QED BY <2>1, <2>2, PutLoopType, ReturnType, NoDeliveryType
<1>7. ASSUME TakeResumes(t) PROVE MessageTypes /\ delivered' \in Delivery
  <2>1. cont[t].queue \in QueueId
    BY <1>5, <1>7 DEF Continuation, TakeResumes, Resumes
  <2> QED BY <1>7, <2>1, TakeLoopType, ReturnType, NoDeliveryType DEF TakeResumes
<1>8. ASSUME DestroyResumes(t) PROVE MessageTypes /\ delivered' \in Delivery
  <2>1. cont[t].queue \in QueueId
    BY <1>5, <1>8 DEF Continuation, DestroyResumes, Resumes
  <2> QED BY <1>8, <2>1, DestroyLoopType, NoDeliveryType DEF DestroyResumes
<1> QED BY <1>1, <1>2, <1>3, <1>4, <1>6, <1>7, <1>8 DEF MessageCall

(* An interrupt's effect on the lists and rings together.                  *)
Both == [rings : [QueueId -> Ring], threads : Sched]

LEMMA EnqueuedType ==
  ASSUME NEW s \in Both, NEW d \in Device, eventHandlers \in [Device -> EventHandler]
  PROVE  Enqueued(s, d) \in Both
<1> DEFINE h == eventHandlers[d]
           q == h.queue
<1>1. h \in EventHandler /\ s.rings \in [QueueId -> Ring] /\ s.threads \in Sched
  BY DEF Both
<1>2. CASE q = NULL \/ Full(s.rings[q])
  BY <1>2 DEF Enqueued
<1>3. CASE q # NULL /\ ~ Full(s.rings[q])
  <2> DEFINE rings   == [s.rings EXCEPT ![q] = Appended(@, h.msg)]
             threads == IF s.threads.next[HeadOf(s.threads, RecvQ(q))] # NULL
                        THEN WakeHead(s.threads, RecvQ(q), Success) ELSE s.threads
  <2>1. q \in QueueId /\ h.msg \in Msg \cup {NULL}
    BY <1>1, <1>3 DEF EventHandler
  <2>2. Appended(s.rings[q], h.msg) \in Ring
    BY <1>1, <2>1, RingType
  <2>3. rings \in [QueueId -> Ring]
    BY <1>1, <2>2
  <2>4. threads \in Sched
    BY <1>1, <2>1, WakeHeadType, ListFacts DEF Returns
  <2>5. Enqueued(s, d) = [rings |-> rings, threads |-> threads]
    BY <1>3 DEF Enqueued
  <2> QED BY <2>3, <2>4, <2>5 DEF Both
<1> QED BY <1>2, <1>3

LEMMA IrqHandlerType ==
  ASSUME TypeOK, IrqHandler
  PROVE  /\ sched' \in Sched
         /\ mq' \in [QueueId -> Ring]
         /\ irqFlag' \subseteq Device /\ irqMask' \subseteq Device
<1> DEFINE raised == irqFlag \cap irqMask
           k0 == [sched EXCEPT !.state[current] = Ready]
           s0 == [ rings |-> mq, threads |-> Push(k0, SchedulerQueue, current) ]
<1>1. raised \subseteq Device /\ eventHandlers \in [Device -> EventHandler]
  BY DEF TypeOK
<1>2. \A s \in Both : \A d : EnqueuedIf(s, d, raised) \in Both
  BY <1>1, EnqueuedType DEF EnqueuedIf
<1>3. k0 \in Sched /\ current \in Link
  BY DEF TypeOK, Sched, States, current
<1>4. Push(k0, SchedulerQueue, current) \in Sched
  BY <1>3, PushType, ListFacts
<1>5. s0 \in Both
  BY <1>4 DEF TypeOK, Both
<1> HIDE DEF s0
<1>6. EnqueuedIf(s0, "TIMER", raised) \in Both
  BY <1>2, <1>5
<1>7. EnqueuedIf(EnqueuedIf(s0, "TIMER", raised), "OHCI1", raised) \in Both
  BY <1>2, <1>6
<1>8. EnqueuedIf(EnqueuedIf(EnqueuedIf(s0, "TIMER", raised), "OHCI1", raised),
                 "IPC", raised) \in Both
  BY <1>2, <1>7
<1>9. EnqueuedIf(EnqueuedIf(EnqueuedIf(EnqueuedIf(s0, "TIMER", raised), "OHCI1", raised),
                            "IPC", raised), "SHA1", raised) \in Both
  BY <1>2, <1>8
<1> DEFINE s5 == EnqueuedIf(EnqueuedIf(EnqueuedIf(EnqueuedIf(EnqueuedIf(
                   s0, "TIMER", raised), "OHCI1", raised), "IPC", raised),
                   "SHA1", raised), "AES", raised)
<1>10. s5 \in Both
  BY <1>2, <1>9
<1>11. mq' = s5.rings /\ sched' = ScheduleYield(s5.threads)
  BY DEF IrqHandler, s0
<1>12. irqFlag' \subseteq Device /\ irqMask' \subseteq Device
  BY DEF IrqHandler, TypeOK
<1> HIDE DEF s5
<1>13. ScheduleYield(s5.threads) \in Sched /\ s5.rings \in [QueueId -> Ring]
  BY <1>10, ScheduleYieldType DEF Both
<1> QED BY <1>11, <1>12, <1>13

LEMMA EventCallType ==
  ASSUME TypeOK, NEW t \in Thread, EventCall(t)
  PROVE  /\ UNCHANGED <<sched, cont, mq>>
         /\ delivered' \in Delivery
         /\ eventHandlers' \in [Device -> EventHandler]
         /\ irqFlag' \subseteq Device /\ irqMask' \subseteq Device
<1>1. ASSUME NEW d \in Device, ClearAndEnableEvent(t, d)
      PROVE  /\ UNCHANGED <<sched, cont, mq, eventHandlers>>
             /\ irqFlag' \subseteq Device /\ irqMask' \subseteq Device
  BY <1>1 DEF ClearAndEnableEvent, TypeOK
<1>2. ASSUME NEW d \in Device, NEW q \in QueueId, NEW m \in Msg \cup {NULL},
             RegisterEventHandler(t, d, q, m)
      PROVE  /\ UNCHANGED <<sched, cont, mq, irqFlag, irqMask>>
             /\ eventHandlers' \in [Device -> EventHandler]
  <2>1. sched.proc[t] \in Nat
    BY DEF TypeOK, Sched, Link
  <2>2. [queue |-> q, msg |-> m, proc |-> sched.proc[t]] \in EventHandler
    BY <2>1 DEF EventHandler
  <2> QED BY <1>2, <2>2 DEF RegisterEventHandler, TypeOK
<1>3. ASSUME NEW d \in Device, UnregisterEventHandler(t, d)
      PROVE  /\ UNCHANGED <<sched, cont, mq, irqFlag, irqMask>>
             /\ eventHandlers' \in [Device -> EventHandler]
  <2>1. [eventHandlers[d] EXCEPT !.queue = NULL, !.msg = NULL] \in EventHandler
    BY DEF TypeOK, EventHandler
  <2>2. eventHandlers' = [eventHandlers EXCEPT ![d] =
                            [eventHandlers[d] EXCEPT !.queue = NULL, !.msg = NULL]]
    BY <1>3 DEF UnregisterEventHandler, TypeOK
  <2> QED BY <1>3, <2>1, <2>2 DEF UnregisterEventHandler, TypeOK
<1>4. delivered' \in Delivery
  BY NoDeliveryType DEF EventCall, ClearAndEnableEvent, RegisterEventHandler,
     UnregisterEventHandler
<1> QED BY <1>1, <1>2, <1>3, <1>4 DEF EventCall, TypeOK

LEMMA BeginLoopType ==
  ASSUME TypeOK, NEW t \in Thread, BeginLoop(t)
  PROVE  MessageTypes /\ delivered' \in Delivery /\ holding' \subseteq Thread
<1>1. Token \in QueueId
  BY SizesAssumption DEF Token, QueueId
<1> QED BY <1>1, TakeLoopType DEF BeginLoop, ReceiveMessageUnsafe, TypeOK

LEMMA IoscType ==
  ASSUME TypeOK, NEW t \in Thread, IoscBegin(t) \/ BeginResumes(t) \/ IoscEnd(t)
  PROVE  MessageTypes /\ delivered' \in Delivery /\ holding' \subseteq Thread
<1>1. Token \in QueueId
  BY SizesAssumption DEF Token, QueueId
<1>2. CASE IoscBegin(t)
  BY <1>2, BeginLoopType DEF IoscBegin
<1>3. CASE BeginResumes(t)
  BY <1>3, BeginLoopType, ReturnType, NoDeliveryType DEF BeginResumes, TypeOK
<1>4. CASE IoscEnd(t)
  BY <1>1, <1>4, PutLoopType, ReturnType, NoDeliveryType DEF IoscEnd, SendMessageUnsafe, TypeOK
<1> QED BY <1>2, <1>3, <1>4

LEMMA KernelMainType ==
  ASSUME TypeOK, KernelMain
  PROVE  /\ sched' \in Sched
         /\ mq' \in [QueueId -> Ring]
         /\ delivered' \in Delivery
         /\ boot' \in {"iosc", "threads", "idle"}
         /\ UNCHANGED <<cont, irqVars, holding>>
<1>1. Token \in QueueId /\ KernelThread \in Thread
  BY SizesAssumption DEF Token, QueueId, KernelThread, Thread
<1>2. CASE BootIosc
  <2> DEFINE k == [sched EXCEPT !.head[RecvQ(Token)] = Sentinel,
                                !.head[SendQ(Token)] = Sentinel]
  <2>1. k \in Sched
    BY DEF TypeOK, Sched, Link
  <2>2. WakeReceiver(k, Token) \in Sched
    BY <1>1, <2>1, WakersType
  <2> DEFINE r == [mq[Token] EXCEPT !.proc = sched.proc[KernelThread], !.used = 0,
                                    !.first = 0, !.size = 1]
  <2>3. mq[Token] \in Ring /\ 1 \in 0 .. MaxQueueSize /\ sched.proc[KernelThread] \in Nat
    BY <1>1, MaxQueueSizeAssumption DEF TypeOK, Sched, Link
  <2>4. r \in Ring
    BY <2>3 DEF Ring
  <2>5. Appended(r, NULL) \in Ring
    BY <2>4, RingType
  <2>6. mq' \in [QueueId -> Ring]
    BY <1>2, <2>5 DEF BootIosc, TypeOK
  <2> QED BY <1>2, <2>2, <2>6, NoDeliveryType DEF BootIosc
<1>3. CASE BootThread
  <2>1. PICK u \in DOMAIN Programs :
          sched' = Started(Created(sched, u, Programs[u].prio, Programs[u].detached,
                                   Programs[u].proc), u)
    BY <1>3 DEF BootThread
  <2>2. u \in Thread /\ Programs[u].prio \in Int /\ Programs[u].proc \in Nat
        /\ Programs[u].detached \in BOOLEAN
    BY ProgramsAssumption
  <2>3. sched' \in Sched
    BY <2>1, <2>2, CreatedType, StartedType DEF TypeOK
  <2> QED BY <1>3, <2>3, NoDeliveryType DEF BootThread, TypeOK
<1>4. CASE BootLower
  BY <1>1, <1>4, ReprioritisedType, NoDeliveryType DEF BootLower, TypeOK
<1> QED BY <1>2, <1>3, <1>4 DEF KernelMain

LEMMA TypeInit == Init => TypeOK
<1> SUFFICES ASSUME Init PROVE TypeOK
  OBVIOUS
<1>1. KernelThread \in Link /\ KernelThread \in Thread /\ Sentinel \in Link /\ NULL \in Link
  BY SizesAssumption DEF KernelThread, Link, Thread
<1>2. sched \in Sched
  BY <1>1, ListFacts, LowMemAssumption
     DEF Init, Sched, States, Returns, Statuses, KernelPriority
<1>3. mq \in [QueueId -> Ring]
  BY MaxQueueSizeAssumption DEF Init, Ring
<1>4. eventHandlers \in [Device -> EventHandler] /\ irqFlag \subseteq Device
      /\ irqMask \subseteq Device
  BY DEF Init, IrqInit, EventHandler
<1> QED BY <1>2, <1>3, <1>4, UserType, NoDeliveryType DEF Init, TypeOK, Delivery

LEMMA TypeStep == TypeOK /\ [Next]_vars => TypeOK'
<1> SUFFICES ASSUME TypeOK, [Next]_vars PROVE TypeOK'
  OBVIOUS
<1>1. CASE UNCHANGED vars
  BY <1>1 DEF vars, TypeOK
<1>2. CASE KernelMain
  BY <1>2, KernelMainType DEF TypeOK, Delivery, irqVars
<1>3. CASE \E t \in Thread : Call(t)
  <2>1. PICK t \in Thread : Call(t)
    BY <1>3
  <2>2. CASE ThreadCall(t) /\ delivered' = NoDelivery /\ UNCHANGED <<mq, irqVars, boot, holding>>
    BY <2>2, ThreadCallType, NoDeliveryType DEF TypeOK, Delivery, irqVars
  <2>3. CASE MessageCall(t) /\ UNCHANGED <<irqVars, boot, holding>>
    BY <2>3, MessageCallType DEF TypeOK, Delivery, irqVars, MessageTypes
  <2>4. CASE EventCall(t) /\ UNCHANGED <<boot, holding>>
    BY <2>4, EventCallType DEF TypeOK, Delivery
  <2>5. CASE (IoscBegin(t) \/ IoscEnd(t) \/ BeginResumes(t)) /\ UNCHANGED <<irqVars, boot>>
    BY <2>5, IoscType DEF TypeOK, Delivery, irqVars, MessageTypes
  <2> QED BY <2>1, <2>2, <2>3, <2>4, <2>5 DEF Call
<1>4. CASE IrqStep /\ UNCHANGED <<boot, holding>>
  <2>1. ASSUME NEW d \in Device, Raise(d) PROVE TypeOK'
    BY <1>4, <2>1, NoDeliveryType DEF Raise, TypeOK, Delivery
  <2>2. CASE IrqHandler
    <3>1. UNCHANGED <<cont, eventHandlers>> /\ delivered' = NoDelivery
      BY <2>2 DEF IrqHandler
    <3> QED BY <1>4, <2>2, <3>1, IrqHandlerType, NoDeliveryType DEF TypeOK, Delivery
  <2> QED BY <1>4, <2>1, <2>2 DEF IrqStep
<1> QED BY <1>1, <1>2, <1>3, <1>4 DEF Next

(* Every variable of the kernel keeps its type, whatever the programs call *)
(* and the devices raise: in particular no operation leaves a list or a    *)
(* ThreadQueue field pointing at something that is not a thread, the       *)
(* sentinel or NULL, no ring counter goes below zero (threads.c,           *)
(* messageQueue.c, irq.c).                                                 *)
THEOREM TypeCorrect == Spec => []TypeOK
BY TypeInit, TypeStep, PTL DEF Spec

-----------------------------------------------------------------------------
(* The rings stay within their cells.                                      *)

InBounds(r) == r.size > 0 => r.first < r.size /\ r.used <= r.size

LEMMA RingKeepsBounds ==
  ASSUME NEW r \in Ring, InBounds(r), NEW m
  PROVE  /\ ~ Full(r) => InBounds(Appended(r, m))
         /\ ~ Full(r) => InBounds(Jammed(r, m))
         /\ r.used # 0 => InBounds(Taken(r))
<1>1. /\ r.used \in Nat /\ r.first \in Nat /\ r.size \in Nat
      /\ r.size > 0 => r.first < r.size /\ r.used <= r.size
  BY MaxQueueSizeAssumption DEF Ring, InBounds
<1>2. ASSUME NEW x \in Ring, NEW i
      PROVE  /\ Stored(x, i, m).used = x.used + 1
             /\ Stored(x, i, m).first = x.first
             /\ Stored(x, i, m).size = x.size
  BY DEF Stored, Ring
<1>3. ASSUME ~ Full(r) PROVE InBounds(Appended(r, m))
  BY <1>1, <1>2, <1>3 DEF Appended, InBounds, Full
<1>4. ASSUME ~ Full(r) PROVE InBounds(Jammed(r, m))
  <2> DEFINE f == IF r.first = 0 THEN r.size - 1 ELSE r.first - 1
             x == [r EXCEPT !.first = f]
  <2>1. f \in Nat /\ f < r.size
    BY <1>1, <1>4 DEF Full
  <2>2. x \in Ring /\ x.first = f /\ x.used = r.used /\ x.size = r.size
    <3> HIDE DEF f
    <3> QED BY <2>1 DEF Ring
  <2>3. InBounds(Stored(x, f, m))
    <3> HIDE DEF f, x
    <3> QED BY <1>1, <1>2, <1>4, <2>1, <2>2 DEF InBounds, Full
  <2> QED BY <2>3 DEF Jammed
<1>5. ASSUME r.used # 0 PROVE InBounds(Taken(r))
  <2> DEFINE f == Wrap(r, r.first + 1)
  <2>1. Taken(r).used = r.used - 1 /\ Taken(r).first = f /\ Taken(r).size = r.size
    BY DEF Taken, Ring
  <2>2. r.size > 0 => f < r.size
    BY <1>1 DEF Wrap
  <2> HIDE DEF f
  <2> QED BY <1>1, <1>5, <2>1, <2>2 DEF InBounds
<1> QED BY <1>3, <1>4, <1>5

LEMMA PutKeepsBounds ==
  ASSUME TypeOK, RingInBounds, NEW t \in Thread, NEW op \in {"send", "jam"},
         NEW q \in QueueId, NEW m \in Msg \cup {NULL}, PutLoop(t, op, q, m)
  PROVE  RingInBounds'
<1>1. mq \in [QueueId -> Ring] /\ \A p \in QueueId : InBounds(mq[p])
  BY DEF TypeOK, RingInBounds, InBounds
<1>2. mq' = mq \/ (~ Full(mq[q]) /\ \E r \in {Appended(mq[q], m), Jammed(mq[q], m)} :
                                       mq' = [mq EXCEPT ![q] = r])
  BY DEF PutLoop, WaitOn
<1>3. \A p \in QueueId : InBounds(mq'[p])
  BY <1>1, <1>2, RingKeepsBounds
<1> QED BY <1>3 DEF RingInBounds, InBounds

LEMMA TakeKeepsBounds ==
  ASSUME TypeOK, RingInBounds, NEW t \in Thread, NEW op \in {"recv", "begin"},
         NEW q \in QueueId, TakeLoop(t, op, q)
  PROVE  RingInBounds'
<1>1. mq \in [QueueId -> Ring] /\ \A p \in QueueId : InBounds(mq[p])
  BY DEF TypeOK, RingInBounds, InBounds
<1>2. mq' = mq \/ (mq[q].used # 0 /\ mq' = [mq EXCEPT ![q] = Taken(mq[q])])
  BY DEF TakeLoop, WaitOn
<1>3. \A p \in QueueId : InBounds(mq'[p])
  BY <1>1, <1>2, RingKeepsBounds
<1> QED BY <1>3 DEF RingInBounds, InBounds

LEMMA DestroyKeepsBounds ==
  ASSUME TypeOK, RingInBounds, NEW t \in Thread, NEW q \in QueueId, DestroyLoop(t, q)
  PROVE  RingInBounds'
<1>1. mq' = mq \/ mq' = [mq EXCEPT ![q] = [mq[q] EXCEPT !.size = 0]]
  BY DEF DestroyLoop, TypeOK
<1>2. [mq[q] EXCEPT !.size = 0].size = 0
  BY DEF TypeOK, Ring
<1>3. mq \in [QueueId -> Ring]
  BY DEF TypeOK
<1>4. \A p \in QueueId : mq'[p] = mq[p] \/ mq'[p].size = 0
  BY <1>1, <1>2, <1>3
<1> QED BY <1>4 DEF RingInBounds

LEMMA MessageCallKeepsBounds ==
  ASSUME TypeOK, RingInBounds, NEW t \in Thread, MessageCall(t)
  PROVE  RingInBounds'
<1>1. cont[t] \in Continuation
  BY DEF TypeOK
<1>2. ASSUME NEW n \in 1 .. MaxQueueSize, CreateMessageQueue(t, n) PROVE RingInBounds'
  <2>1. PICK q \in QueueId :
          mq' = [mq EXCEPT ![q] = [@ EXCEPT !.proc = sched.proc[t], !.used = 0,
                                            !.first = 0, !.size = n]]
    BY <1>2 DEF CreateMessageQueue
  <2>2. mq'[q].first = 0 /\ mq'[q].used = 0 /\ mq'[q].size = n
    BY <2>1 DEF TypeOK, Ring
  <2>3. n \in Nat
    BY MaxQueueSizeAssumption
  <2> QED BY <2>1, <2>2, <2>3 DEF RingInBounds, TypeOK
<1>3. ASSUME NEW q \in QueueId, NEW m \in Msg,
             SendMessage(t, q, m) \/ SendMessageNonblocking(t, q, m) \/ JamMessage(t, q, m)
      PROVE  RingInBounds'
  BY <1>3, PutKeepsBounds DEF SendMessage, SendMessageNonblocking, JamMessage
<1>4. ASSUME NEW q \in QueueId, ReceiveMessage(t, q) \/ ReceiveMessageNonblocking(t, q)
      PROVE  RingInBounds'
  BY <1>4, TakeKeepsBounds DEF ReceiveMessage, ReceiveMessageNonblocking
<1>5. ASSUME NEW q \in QueueId, DestroyMessageQueue(t, q) PROVE RingInBounds'
  BY <1>5, DestroyKeepsBounds DEF DestroyMessageQueue
<1>6. ASSUME PutResumes(t) PROVE RingInBounds'
  <2>1. cont[t].queue \in QueueId /\ cont[t].msg \in Msg \cup {NULL}
    BY <1>1, <1>6 DEF Continuation, PutResumes, Resumes
  <2> QED BY <1>6, <2>1, PutKeepsBounds DEF PutResumes, Return, RingInBounds
<1>7. ASSUME TakeResumes(t) PROVE RingInBounds'
  <2>1. cont[t].queue \in QueueId
    BY <1>1, <1>7 DEF Continuation, TakeResumes, Resumes
  <2> QED BY <1>7, <2>1, TakeKeepsBounds DEF TakeResumes, Return, RingInBounds
<1>8. ASSUME DestroyResumes(t) PROVE RingInBounds'
  <2>1. cont[t].queue \in QueueId
    BY <1>1, <1>8 DEF Continuation, DestroyResumes, Resumes
  <2> QED BY <1>8, <2>1, DestroyKeepsBounds DEF DestroyResumes
<1> QED BY <1>2, <1>3, <1>4, <1>5, <1>6, <1>7, <1>8 DEF MessageCall

(* EnqueueEventHandler appends at most once per device, to a queue with room. *)
LEMMA EnqueuedKeepsBounds ==
  ASSUME NEW s \in Both, NEW d \in Device, eventHandlers \in [Device -> EventHandler],
         \A q \in QueueId : InBounds(s.rings[q])
  PROVE  \A q \in QueueId : InBounds(Enqueued(s, d).rings[q])
<1> DEFINE h == eventHandlers[d]
<1>1. h \in EventHandler /\ s.rings \in [QueueId -> Ring]
  BY DEF Both
<1>2. Enqueued(s, d).rings = s.rings
      \/ (h.queue # NULL /\ ~ Full(s.rings[h.queue]) /\
          Enqueued(s, d).rings = [s.rings EXCEPT ![h.queue] = Appended(@, h.msg)])
  BY DEF Enqueued
<1>3. CASE h.queue # NULL /\ ~ Full(s.rings[h.queue])
  <2>1. h.queue \in QueueId
    BY <1>1, <1>3 DEF EventHandler
  <2>2. InBounds(Appended(s.rings[h.queue], h.msg))
    BY <1>1, <1>3, <2>1, RingKeepsBounds
  <2> QED BY <1>1, <1>2, <2>1, <2>2
<1> QED BY <1>2, <1>3

LEMMA IrqHandlerKeepsBounds ==
  ASSUME TypeOK, RingInBounds, IrqHandler
  PROVE  RingInBounds'
<1> DEFINE raised == irqFlag \cap irqMask
           k0 == [sched EXCEPT !.state[current] = Ready]
           s0 == [ rings |-> mq, threads |-> Push(k0, SchedulerQueue, current) ]
           Good(s) == s \in Both /\ \A q \in QueueId : InBounds(s.rings[q])
<1>1. raised \subseteq Device /\ eventHandlers \in [Device -> EventHandler]
  BY DEF TypeOK
<1>2. ASSUME NEW s, Good(s), NEW d PROVE Good(EnqueuedIf(s, d, raised))
  BY <1>1, <1>2, EnqueuedType, EnqueuedKeepsBounds DEF EnqueuedIf
<1>3. k0 \in Sched /\ current \in Link
  BY DEF TypeOK, Sched, States, current
<1>4. Push(k0, SchedulerQueue, current) \in Sched
  BY <1>3, PushType, ListFacts
<1>5. Good(s0)
  BY <1>4 DEF TypeOK, Both, RingInBounds, InBounds
<1> DEFINE s1 == EnqueuedIf(s0, "TIMER", raised)
           s2 == EnqueuedIf(s1, "OHCI1", raised)
           s3 == EnqueuedIf(s2, "IPC", raised)
           s4 == EnqueuedIf(s3, "SHA1", raised)
           s5 == EnqueuedIf(s4, "AES", raised)
<1>6. mq' = s5.rings
  BY DEF IrqHandler
<1> HIDE DEF s0, Good
<1>7. Good(s1)
  BY <1>2, <1>5
<1> HIDE DEF s1
<1>8. Good(s2)
  BY <1>2, <1>7
<1> HIDE DEF s2
<1>9. Good(s3)
  BY <1>2, <1>8
<1> HIDE DEF s3
<1>10. Good(s4)
  BY <1>2, <1>9
<1> HIDE DEF s4
<1>11. Good(s5)
  BY <1>2, <1>10
<1> QED BY <1>6, <1>11 DEF Good, RingInBounds, InBounds

LEMMA BoundsStep == TypeOK /\ RingInBounds /\ [Next]_vars => RingInBounds'
<1> SUFFICES ASSUME TypeOK, RingInBounds, [Next]_vars PROVE RingInBounds'
  OBVIOUS
<1>1. Token \in QueueId /\ KernelThread \in Thread
  BY SizesAssumption DEF Token, QueueId, KernelThread, Thread
<1>2. CASE UNCHANGED mq
  BY <1>2 DEF RingInBounds
<1>3. CASE BootIosc
  <2> DEFINE r == [mq[Token] EXCEPT !.proc = sched.proc[KernelThread], !.used = 0,
                                    !.first = 0, !.size = 1]
  <2>1. mq[Token] \in Ring /\ 1 \in 0 .. MaxQueueSize /\ sched.proc[KernelThread] \in Nat
    BY <1>1, MaxQueueSizeAssumption DEF TypeOK, Sched, Link
  <2>2. r.used = 0 /\ r.first = 0 /\ r.size = 1 /\ r \in Ring
    BY <2>1 DEF Ring
  <2>3. InBounds(r) /\ ~ Full(r)
    <3> HIDE DEF r
    <3> QED BY <2>2 DEF InBounds, Full
  <2>4. InBounds(Appended(r, NULL))
    <3> HIDE DEF r
    <3> QED BY <2>2, <2>3, RingKeepsBounds
  <2>5. mq' = [mq EXCEPT ![Token] = Appended(r, NULL)]
    BY <1>1, <1>3 DEF BootIosc, TypeOK
  <2> QED BY <2>4, <2>5 DEF RingInBounds, InBounds, TypeOK
<1>4. ASSUME NEW t \in Thread, MessageCall(t) PROVE RingInBounds'
  BY <1>4, MessageCallKeepsBounds
<1>5. ASSUME NEW t \in Thread, IoscBegin(t) \/ BeginResumes(t) PROVE RingInBounds'
  BY <1>1, <1>5, TakeKeepsBounds
     DEF IoscBegin, BeginResumes, BeginLoop, ReceiveMessageUnsafe, Return, RingInBounds
<1>6. ASSUME NEW t \in Thread, IoscEnd(t) PROVE RingInBounds'
  BY <1>1, <1>6, PutKeepsBounds DEF IoscEnd, SendMessageUnsafe, Return, RingInBounds
<1>7. CASE IrqHandler
  BY <1>7, IrqHandlerKeepsBounds
<1>8. ASSUME NEW t \in Thread, EventCall(t) PROVE UNCHANGED mq
  BY <1>8, EventCallType
<1> QED BY <1>2, <1>3, <1>4, <1>5, <1>6, <1>7, <1>8
        DEF Next, Call, KernelMain, BootThread, BootLower, IrqStep, Raise, vars

LEMMA BoundsInit == Init => RingInBounds
BY DEF Init, RingInBounds

(* No send, jam, receive, destroy or event, in any interleaving of threads *)
(* and interrupts and for queues of any size, leaves First or Used outside *)
(* the ring of a live queue: QueueHeap is never overrun (messageQueue.c,   *)
(* EnqueueEventHandler of irq.c).                                          *)
THEOREM RingsStayInBounds == Spec => []RingInBounds
BY TypeInit, TypeStep, BoundsInit, BoundsStep, PTL DEF Spec

-----------------------------------------------------------------------------
(* The thread lists.  A walk is a least set: it holds the head, is closed   *)
(* under the links of the entries it steps past, and lies in every set that *)
(* is.  Everything about lists is proved from these three facts.            *)

Ends == {Sentinel, NULL}
Reach(k, l) == Walk(k, l, Thread)
Listed(k, l) == Reach(k, l) \cap Thread

LEMMA LinkFacts ==
  /\ Thread \subseteq Link /\ Ends \subseteq Link /\ Link = Thread \cup Ends
  /\ Thread \cap Ends = {} /\ Sentinel # NULL
  /\ Sentinel \notin Thread /\ NULL \notin Thread
  /\ Sentinel \in Ends /\ NULL \in Ends
BY PointersAssumption, SizesAssumption DEF Link, Ends, Thread

LEMMA WalkFacts ==
  ASSUME NEW k \in Sched, NEW l \in ThreadList, NEW C
  PROVE  /\ Walk(k, l, C) \subseteq Link
         /\ k.head[l] \in Walk(k, l, C)
         /\ \A y \in Walk(k, l, C) : y \in C => k.next[y] \in Walk(k, l, C)
<1>1. k.head[l] \in Link /\ \A y \in Link : k.next[y] \in Link
  BY DEF Sched
<1> QED BY <1>1, Zenon DEF Walk

LEMMA WalkWithin ==
  ASSUME NEW k \in Sched, NEW l \in ThreadList, NEW C, NEW X, X \subseteq Link,
         k.head[l] \in X, \A y \in X : y \in C => k.next[y] \in X
  PROVE  Walk(k, l, C) \subseteq X
<1>1. X \in SUBSET Link /\ \A y \in X \cap C : k.next[y] \in X
  OBVIOUS
<1> QED BY <1>1, Zenon DEF Walk

LEMMA ReachFacts ==
  ASSUME NEW k \in Sched, NEW l \in ThreadList
  PROVE  /\ Reach(k, l) \subseteq Link /\ Listed(k, l) \subseteq Thread
         /\ Listed(k, l) \subseteq Reach(k, l)
         /\ k.head[l] \in Reach(k, l)
         /\ \A y \in Listed(k, l) : k.next[y] \in Reach(k, l)
         /\ \A y \in Reach(k, l) : y \notin Listed(k, l) => y \in Ends
BY WalkFacts, LinkFacts DEF Reach, Listed

LEMMA ReachWithin ==
  ASSUME NEW k \in Sched, NEW l \in ThreadList, NEW X, X \subseteq Link,
         k.head[l] \in X, \A y \in X : y \in Thread => k.next[y] \in X
  PROVE  Reach(k, l) \subseteq X
BY WalkWithin DEF Reach

(* A list whose head and links are untouched keeps its entries.            *)
LEMMA SameReach ==
  ASSUME NEW k \in Sched, NEW r \in Sched, NEW l \in ThreadList,
         r.head[l] = k.head[l],
         \A y \in Listed(k, l) : r.next[y] = k.next[y]
  PROVE  Reach(r, l) = Reach(k, l) /\ Listed(r, l) = Listed(k, l)
<1>1. Reach(r, l) \subseteq Reach(k, l)
  <2>1. \A y \in Reach(k, l) : y \in Thread => r.next[y] \in Reach(k, l)
    BY ReachFacts DEF Listed
  <2> QED BY <2>1, ReachFacts, ReachWithin
<1>2. Reach(k, l) \subseteq Reach(r, l)
  <2> DEFINE X == Reach(k, l) \cap Reach(r, l)
  <2>1. k.head[l] \in X /\ X \subseteq Link
    BY ReachFacts
  <2>2. ASSUME NEW y \in X, y \in Thread PROVE k.next[y] \in X
    <3>1. y \in Listed(k, l) /\ y \in Listed(r, l)
      BY <2>2 DEF Listed
    <3> QED BY <3>1, ReachFacts
  <2>3. Reach(k, l) \subseteq X
    <3> HIDE DEF X
    <3> QED BY <2>1, <2>2, ReachWithin
  <2> QED BY <2>3
<1> QED BY <1>1, <1>2 DEF Listed

LEMMA EmptyReach ==
  ASSUME NEW k \in Sched, NEW l \in ThreadList, k.head[l] \in Ends
  PROVE  Reach(k, l) = {k.head[l]} /\ Listed(k, l) = {}
<1> DEFINE X == {k.head[l]}
<1>1. X \subseteq Link /\ k.head[l] \in X /\ \A y \in X : y \in Thread => k.next[y] \in X
  BY LinkFacts
<1>2. Reach(k, l) \subseteq X
  <2> HIDE DEF X
  <2> QED BY <1>1, ReachWithin
<1> QED BY <1>2, ReachFacts, LinkFacts DEF Listed

(* The entry t put in front of the entry x, at the head or behind p.       *)
InsertedAt(k, r, l, t, x, p) ==
  /\ r.next[t] = x
  /\ \/ /\ k.head[l] = x /\ r.head[l] = t
        /\ \A y \in Listed(k, l) : r.next[y] = k.next[y]
     \/ /\ k.head[l] # x /\ r.head[l] = k.head[l]
        /\ p \in Listed(k, l) /\ k.next[p] = x /\ r.next[p] = t
        /\ \A y \in Listed(k, l) : y # p => r.next[y] = k.next[y]

LEMMA InsertReach ==
  ASSUME NEW k \in Sched, NEW r \in Sched, NEW l \in ThreadList, NEW t \in Thread,
         NEW x \in Reach(k, l), NEW p, t \notin Reach(k, l), InsertedAt(k, r, l, t, x, p)
  PROVE  Reach(r, l) = Reach(k, l) \cup {t} /\ Listed(r, l) = Listed(k, l) \cup {t}
<1> DEFINE W == Reach(k, l)
           V == Reach(r, l)
<1>1. /\ W \subseteq Link /\ k.head[l] \in W /\ t \in Link
      /\ \A y \in W : y \in Thread => k.next[y] \in W
      /\ V \subseteq Link /\ r.head[l] \in V
      /\ \A y \in V : y \in Thread => r.next[y] \in V
      /\ \A y : y \in Listed(k, l) <=> y \in W /\ y \in Thread
  BY ReachFacts, LinkFacts DEF Listed
<1>2. V \subseteq W \cup {t}
  <2> DEFINE X == W \cup {t}
  <2>1. X \subseteq Link /\ r.head[l] \in X
    BY <1>1 DEF InsertedAt
  <2>2. \A y \in X : y \in Thread => r.next[y] \in X
    BY <1>1 DEF InsertedAt
  <2> HIDE DEF X
  <2>3. V \subseteq X
    BY <2>1, <2>2, ReachWithin
  <2> QED BY <2>3 DEF X
<1>3. W \subseteq V
  <2> DEFINE X == W \cap V
  <2>1. k.head[l] \in X
    BY <1>1 DEF InsertedAt
  <2>2. ASSUME NEW y \in X, y \in Thread PROVE k.next[y] \in X
    BY <1>1, <2>2 DEF InsertedAt
  <2>3. W \subseteq X
    <3>1. X \subseteq Link
      BY <1>1
    <3> HIDE DEF X
    <3> QED BY <3>1, <2>1, <2>2, ReachWithin
  <2> QED BY <2>3
<1>4. t \in V
  BY <1>1, <1>3 DEF InsertedAt
<1> QED BY <1>2, <1>3, <1>4, LinkFacts DEF Listed

(* A list is well formed when it ends at one terminator, no entry links back *)
(* to the head or to another's successor, and priorities never rise.         *)
Chain(k, l) ==
  /\ \E e \in Ends : Reach(k, l) \cap Ends = {e}
  /\ \A x \in Listed(k, l) : k.next[x] # k.head[l]
  /\ \A x, y \in Listed(k, l) : k.next[x] = k.next[y] /\ k.next[x] \in Thread => x = y
  /\ \A x \in Listed(k, l) : k.next[x] \in Thread => k.prio[k.next[x]] <= k.prio[x]

LEMMA SameChain ==
  ASSUME NEW k \in Sched, NEW r \in Sched, NEW l \in ThreadList, Chain(k, l),
         r.head[l] = k.head[l],
         \A y \in Listed(k, l) : r.next[y] = k.next[y] /\ r.prio[y] = k.prio[y]
  PROVE  Chain(r, l) /\ Reach(r, l) = Reach(k, l) /\ Listed(r, l) = Listed(k, l)
<1>1. Reach(r, l) = Reach(k, l) /\ Listed(r, l) = Listed(k, l)
  BY SameReach
<1>2. \A x \in Listed(k, l) : k.next[x] \in Thread => k.next[x] \in Listed(k, l)
  BY ReachFacts DEF Listed
<1> QED BY <1>1, <1>2 DEF Chain

LEMMA InsertChain ==
  ASSUME NEW k \in Sched, NEW r \in Sched, NEW l \in ThreadList, NEW t \in Thread,
         NEW x \in Reach(k, l), NEW p, t \notin Reach(k, l), InsertedAt(k, r, l, t, x, p),
         Chain(k, l), r.prio = k.prio,
         x \in Thread => k.prio[x] <= k.prio[t],
         k.head[l] # x => k.prio[t] <= k.prio[p]
  PROVE  Chain(r, l)
<1> DEFINE W == Listed(k, l)
<1>1. /\ Reach(r, l) = Reach(k, l) \cup {t} /\ Listed(r, l) = W \cup {t}
      /\ k.head[l] \in Reach(k, l) /\ \A y \in W : k.next[y] \in Reach(k, l)
  BY InsertReach, ReachFacts
<1>2. \E e \in Ends : Reach(r, l) \cap Ends = {e}
  <2>1. t \notin Ends
    BY LinkFacts
  <2> QED BY <1>1, <2>1 DEF Chain
<1>3. \A y \in W \cup {t} : r.next[y] # r.head[l]
  BY <1>1 DEF Chain, InsertedAt
<1>4. \A y, z \in W \cup {t} : r.next[y] = r.next[z] /\ r.next[y] \in Thread => y = z
  <2>1. \A y \in W : k.next[y] # t /\ t \notin W
    BY <1>1, ReachFacts
  <2>2. CASE k.head[l] = x
    BY <1>1, <2>1, <2>2 DEF Chain, InsertedAt
  <2>3. CASE k.head[l] # x
    BY <1>1, <2>1, <2>3 DEF Chain, InsertedAt
  <2> QED BY <2>2, <2>3
<1>5. \A y \in W \cup {t} : r.next[y] \in Thread => r.prio[r.next[y]] <= r.prio[y]
  BY DEF Chain, InsertedAt
<1> QED BY <1>1, <1>2, <1>3, <1>4, <1>5 DEF Chain

(* The entry t taken off, by its cell being linked to the entry after it.   *)
RemovedAt(k, r, l, t, p) ==
  \/ /\ k.head[l] = t /\ r.head[l] = k.next[t]
     /\ \A y \in Listed(k, l) : y # t => r.next[y] = k.next[y]
  \/ /\ k.head[l] # t /\ r.head[l] = k.head[l]
     /\ p \in Listed(k, l) /\ p # t /\ k.next[p] = t /\ r.next[p] = k.next[t]
     /\ p \in Walk(k, l, Link \ {t, NULL})
     /\ \A y \in Listed(k, l) : y # p => r.next[y] = k.next[y]

LEMMA RemoveReach ==
  ASSUME NEW k \in Sched, NEW r \in Sched, NEW l \in ThreadList, NEW t \in Listed(k, l),
         NEW p, Chain(k, l), k.next[Sentinel] \in Ends, RemovedAt(k, r, l, t, p)
  PROVE  Reach(r, l) = Reach(k, l) \ {t} /\ Listed(r, l) = Listed(k, l) \ {t}
<1> DEFINE W == Reach(k, l)
           V == Reach(r, l)
<1>1. /\ W \subseteq Link /\ k.head[l] \in W /\ t \in W /\ t \in Thread /\ t \in Link
      /\ \A y \in W : y \in Thread => k.next[y] \in W
      /\ V \subseteq Link /\ r.head[l] \in V
      /\ \A y \in V : y \in Thread => r.next[y] \in V
      /\ \A y : y \in Listed(k, l) <=> y \in W /\ y \in Thread
  BY ReachFacts, LinkFacts DEF Listed
<1>2. V \subseteq W \ {t}
  <2> DEFINE X == W \ {t}
  <2>1. X \subseteq Link /\ r.head[l] \in X
    BY <1>1 DEF RemovedAt, Chain
  <2>2. \A y \in X : y \in Thread => r.next[y] \in X
    BY <1>1 DEF RemovedAt, Chain
  <2> HIDE DEF X
  <2>3. V \subseteq X
    BY <2>1, <2>2, ReachWithin
  <2> QED BY <2>3 DEF X
<1>3. CASE k.head[l] = t
  <2> DEFINE X == V \cup {t}
  <2>1. X \subseteq Link /\ k.head[l] \in X
    BY <1>1, <1>3
  <2>2. \A y \in X : y \in Thread => k.next[y] \in X
    BY <1>1, <1>2, <1>3 DEF RemovedAt
  <2> HIDE DEF X
  <2>3. W \subseteq X
    BY <2>1, <2>2, ReachWithin
  <2> QED BY <1>1, <1>2, <2>3 DEF X, Listed
<1>4. CASE k.head[l] # t
  <2> DEFINE C == Link \ {t, NULL}
             Y == V \cup {t} \cup Ends
             X == V \cup {t}
  <2>1. Y \subseteq Link /\ k.head[l] \in Y
    BY <1>1, <1>4, LinkFacts DEF RemovedAt
  <2>2. \A y \in Y : y \in C => k.next[y] \in Y
    BY <1>1, <1>2, <1>4, LinkFacts DEF RemovedAt, Ends
  <2>3. Walk(k, l, C) \subseteq Y
    <3> HIDE DEF Y, C
    <3> QED BY <2>1, <2>2, WalkWithin
  <2>4. p \in V
    BY <1>1, <1>4, <2>3, LinkFacts DEF RemovedAt
  <2>5. X \subseteq Link /\ k.head[l] \in X
    BY <1>1, <1>4 DEF RemovedAt
  <2>6. \A y \in X : y \in Thread => k.next[y] \in X
    BY <1>1, <1>2, <1>4, <2>4 DEF RemovedAt
  <2>7. W \subseteq X
    <3> HIDE DEF X
    <3> QED BY <2>5, <2>6, ReachWithin
  <2> QED BY <1>1, <1>2, <2>7 DEF Listed
<1> QED BY <1>3, <1>4

LEMMA RemoveChain ==
  ASSUME NEW k \in Sched, NEW r \in Sched, NEW l \in ThreadList, NEW t \in Listed(k, l),
         NEW p, Chain(k, l), k.next[Sentinel] \in Ends, RemovedAt(k, r, l, t, p),
         \A y \in Listed(k, l) : y # t => r.prio[y] = k.prio[y],
         \A y \in Listed(k, l) : k.prio[y] \in Int
  PROVE  Chain(r, l)
<1> DEFINE W == Listed(k, l)
<1>1. /\ Reach(r, l) = Reach(k, l) \ {t} /\ Listed(r, l) = W \ {t}
      /\ k.head[l] \in Reach(k, l) /\ \A y \in W : k.next[y] \in Reach(k, l)
      /\ W \subseteq Thread
  BY RemoveReach, ReachFacts
<1>2. \E e \in Ends : Reach(r, l) \cap Ends = {e}
  <2>1. t \notin Ends
    BY <1>1, LinkFacts
  <2> QED BY <1>1, <2>1 DEF Chain
<1>3. \A y \in W \ {t} : r.next[y] # r.head[l]
  <2>1. CASE k.head[l] = t
    <3>1. CASE k.next[t] \in Thread
      BY <1>1, <2>1, <3>1 DEF Chain, RemovedAt
    <3>2. CASE k.next[t] \notin Thread
      <4>1. r.head[l] \in Ends
        BY <1>1, <2>1, <3>2, ReachFacts DEF RemovedAt, Listed
      <4> QED BY <1>1, <4>1, EmptyReach
    <3> QED BY <3>1, <3>2
  <2>2. CASE k.head[l] # t
    BY <1>1, <2>2 DEF Chain, RemovedAt
  <2> QED BY <2>1, <2>2
<1>4. \A y, z \in W \ {t} : r.next[y] = r.next[z] /\ r.next[y] \in Thread => y = z
  BY <1>1 DEF Chain, RemovedAt
<1>5. \A y \in W \ {t} : r.next[y] \in Thread => r.prio[r.next[y]] <= r.prio[y]
  <2>1. \A y \in W : k.next[y] \in Thread => k.next[y] \in W
    BY <1>1 DEF Listed
  <2>2. \A y \in W \ {t} : r.next[y] \in Thread => r.next[y] \in W \ {t}
    BY <1>1, ReachFacts DEF Listed
  <2>3. ASSUME NEW y \in W \ {t}, r.next[y] \in Thread
        PROVE  k.prio[r.next[y]] <= k.prio[y]
    <3>1. CASE r.next[y] = k.next[y]
      BY <2>3, <3>1 DEF Chain
    <3>2. CASE r.next[y] # k.next[y]
      <4>1. y = p /\ k.next[p] = t /\ r.next[p] = k.next[t] /\ p \in W
        BY <2>3, <3>2 DEF RemovedAt
      <4>2. k.prio[k.next[t]] <= k.prio[t] /\ k.prio[t] <= k.prio[p]
        BY <1>1, <2>3, <4>1 DEF Chain
      <4>3. k.next[t] \in W
        BY <2>1, <2>3, <4>1
      <4> QED BY <4>1, <4>2, <4>3
    <3> QED BY <3>1, <3>2
  <2> QED BY <2>2, <2>3
<1> QED BY <1>1, <1>2, <1>3, <1>4, <1>5 DEF Chain

(* No thread of a list has a higher priority than its head.                *)
LEMMA HeadIsHighest ==
  ASSUME NEW k \in Sched, NEW l \in ThreadList, Chain(k, l), NEW t \in Listed(k, l)
  PROVE  k.prio[t] <= k.prio[k.head[l]]
<1> DEFINE X == {y \in Reach(k, l) : y \in Thread => k.prio[y] <= k.prio[k.head[l]]}
<1>1. \A y \in Link : k.prio[y] \in Int
  BY DEF Sched
<1>2. X \subseteq Link /\ k.head[l] \in X
  BY <1>1, ReachFacts
<1>3. ASSUME NEW y \in X, y \in Thread PROVE k.next[y] \in X
  <2>1. y \in Listed(k, l) /\ k.next[y] \in Reach(k, l) /\ k.next[y] \in Link
        /\ y \in Link /\ k.head[l] \in Link
    BY <1>3, ReachFacts DEF Listed
  <2>2. k.next[y] \in Thread => k.prio[k.next[y]] <= k.prio[y]
    BY <2>1 DEF Chain
  <2>3. k.prio[y] <= k.prio[k.head[l]]
    BY <1>3
  <2> QED BY <1>1, <2>1, <2>2, <2>3
<1>4. Reach(k, l) \subseteq X
  <2> HIDE DEF X
  <2> QED BY <1>2, <1>3, ReachWithin
<1> QED BY <1>4 DEF Listed

(* An entry that a walk finds beyond the head has one before it.           *)
LEMMA Predecessor ==
  ASSUME NEW k \in Sched, NEW l \in ThreadList, NEW C, NEW x \in Walk(k, l, C),
         k.head[l] # x
  PROVE  \E p \in Walk(k, l, C) \cap C : k.next[p] = x
<1> SUFFICES ASSUME \A p \in Walk(k, l, C) : p \in C => k.next[p] # x PROVE FALSE
  OBVIOUS
<1> DEFINE X == Walk(k, l, C) \ {x}
<1>1. X \subseteq Link /\ k.head[l] \in X /\ \A y \in X : y \in C => k.next[y] \in X
  BY WalkFacts
<1>2. Walk(k, l, C) \subseteq X
  <2> HIDE DEF X
  <2> QED BY <1>1, WalkWithin
<1> QED BY <1>2

(* r is k with v in the cell that x was read from.                         *)
Relinked(k, r, l, C, x, v) ==
  /\ r \in Sched /\ r.prio = k.prio /\ r.state = k.state /\ r.on = k.on /\ r.r0 = k.r0
  /\ r.current = k.current /\ r.status = k.status
  /\ k.head[l] = x => r.head = [k.head EXCEPT ![l] = v] /\ r.next = k.next
  /\ k.head[l] # x =>
       /\ r.head = k.head
       /\ \E p \in Walk(k, l, C) \cap C :
            k.next[p] = x /\ r.next = [k.next EXCEPT ![p] = v]

LEMMA RelinkFields ==
  ASSUME NEW k \in Sched, NEW l \in ThreadList, NEW C, NEW x \in Walk(k, l, C), NEW v \in Link,
         NEW r, r = Relink(k, l, C, x, v)
  PROVE  Relinked(k, r, l, C, x, v)
<1>0. x \in Link
  BY WalkFacts
<1>1. r \in Sched
  BY <1>0, RelinkType
<1>2. CASE k.head[l] = x
  <2>1. r = [k EXCEPT !.head[l] = v]
    BY <1>2 DEF Relink
  <2> QED BY <1>1, <1>2, <2>1 DEF Sched, Relinked
<1>3. CASE k.head[l] # x
  <2> DEFINE p == CHOOSE p \in Walk(k, l, C) \cap C : k.next[p] = x
  <2>1. p \in Walk(k, l, C) \cap C /\ k.next[p] = x
    BY <1>3, Predecessor
  <2>2. r = [k EXCEPT !.next[p] = v]
    BY <1>3 DEF Relink
  <2> HIDE DEF p
  <2> QED BY <1>1, <1>3, <2>1, <2>2 DEF Sched, Relinked
<1> QED BY <1>2, <1>3

(* All lists are well formed and no thread is on two of them; the          *)
(* scheduler's ends at the sentinel, whose priority is below every thread's.*)
Lists(k) ==
  /\ \A l \in ThreadList : Chain(k, l)
  /\ \A l, m \in ThreadList : l # m => Listed(k, l) \cap Listed(k, m) = {}
  /\ Sentinel \in Reach(k, SchedulerQueue)
  /\ k.next[NULL] = NULL /\ k.next[Sentinel] \in Ends
  /\ k.prio[Sentinel] = -1 /\ \A t \in Thread : k.prio[t] >= 0

LEMMA StopFields ==
  ASSUME NEW k \in Sched, NEW why \in Statuses \ {"ok"}
  PROVE  Stop(k, why).status # "ok"
BY DEF Stop, Sched

(* What a push does when it ends: t goes in front of an entry of no higher *)
(* priority, behind entries of higher priority.                            *)
PutInOrder(k, r, l, t) ==
  \E x \in Reach(k, l), p \in Link :
    /\ InsertedAt(k, r, l, t, x, p)
    /\ k.prio[x] <= k.prio[t]
    /\ k.head[l] # x => k.prio[t] <= k.prio[p]

LEMMA PushStep ==
  ASSUME NEW k \in Sched, Lists(k), NEW l \in ThreadList, NEW t \in Thread,
         t \notin Listed(k, l), NEW r, r = Push(k, l, t), r.status = "ok"
  PROVE  /\ r \in Sched /\ k.status = "ok"
         /\ r.prio = k.prio /\ r.state = k.state /\ r.r0 = k.r0 /\ r.current = k.current
         /\ r.on = [k.on EXCEPT ![t] = l]
         /\ \A m \in ThreadList \ {l} : r.head[m] = k.head[m]
         /\ \A y \in Link : y # t /\ y \notin Listed(k, l) => r.next[y] = k.next[y]
         /\ PutInOrder(k, r, l, t)
<1> DEFINE C == Passed(k, t)
           found == Walk(k, l, C) \ C
           x == CHOOSE x \in found : TRUE
           w == Relink(k, l, C, x, t)
<1>1. l # NULL /\ t # NULL /\ t \in Link /\ NULL \in Link /\ Sentinel \in Link
  BY ListAssumption, LinkFacts
<1>2. \A y \in Link : k.prio[y] \in Int /\ k.next[y] \in Link
  BY DEF Sched
<1>3. \A y \in C : y \in Link /\ y # Sentinel /\ k.prio[t] < k.prio[y]
  BY <1>1, <1>2 DEF Passed, Lists
<1>4. Walk(k, l, C) \subseteq Reach(k, l)
  <2> DEFINE X == Reach(k, l)
  <2>1. X \subseteq Link /\ k.head[l] \in X
    BY ReachFacts
  <2>2. ASSUME NEW y \in X, y \in C PROVE k.next[y] \in X
    <3>1. CASE y \in Thread
      BY <3>1, ReachFacts DEF Listed
    <3>2. CASE y \notin Thread
      BY <1>3, <2>2, <3>2, LinkFacts DEF Ends, Lists
    <3> QED BY <3>1, <3>2
  <2> HIDE DEF X, C
  <2>3. Walk(k, l, C) \subseteq X
    BY <2>1, <2>2, WalkWithin
  <2> QED BY <2>3 DEF X
<1>5. CASE found = {}
  <2>1. r = Stop(k, "hung")
    BY <1>1, <1>5 DEF Push
  <2> QED BY <2>1, StopFields DEF Statuses
<1>6. CASE found # {}
  <2>1. x \in Walk(k, l, C) /\ x \notin C
    BY <1>6
  <2>2. x \in Link /\ x \in Reach(k, l) /\ k.prio[x] <= k.prio[t]
    <3> HIDE DEF x, C
    <3>1. x \in Link /\ x \in Reach(k, l)
      BY <1>4, <2>1, WalkFacts
    <3>2. ~ (k.prio[t] < k.prio[x])
      BY <2>1, <3>1 DEF C, Passed
    <3> QED BY <1>1, <1>2, <3>1, <3>2
  <2>3. r = [w EXCEPT !.on[t] = l, !.next[t] = x]
    BY <1>1, <1>6 DEF Push
  <2> HIDE DEF x, found
  <2>4. Relinked(k, w, l, C, x, t)
    <3> HIDE DEF C
    <3> QED BY <1>1, <2>1, RelinkFields
  <2> HIDE DEF w
  <2>5. /\ r \in Sched /\ r.prio = w.prio /\ r.state = w.state /\ r.r0 = w.r0
        /\ r.current = w.current /\ r.status = w.status /\ r.head = w.head
        /\ r.on = [w.on EXCEPT ![t] = l] /\ r.next = [w.next EXCEPT ![t] = x]
    <3> DEFINE on2 == [w.on EXCEPT ![t] = l]
               next2 == [w.next EXCEPT ![t] = x]
    <3>1. w \in Sched /\ x \in Link /\ l \in ThreadList /\ t \in Link
      BY <1>1, <2>2, <2>4 DEF Relinked
    <3>2. r = [w EXCEPT !.on = on2, !.next = next2]
      BY <2>3, <3>1 DEF Sched
    <3>3. on2 \in [Link -> ThreadList \cup {NULL}] /\ next2 \in [Link -> Link]
      BY <3>1 DEF Sched
    <3> HIDE DEF on2, next2
    <3>4. /\ r \in Sched /\ r.on = on2 /\ r.next = next2
          /\ r.prio = w.prio /\ r.state = w.state /\ r.r0 = w.r0
          /\ r.current = w.current /\ r.status = w.status /\ r.head = w.head
      BY <3>1, <3>2, <3>3 DEF Sched
    <3> QED BY <3>4 DEF on2, next2
  <2>6. k.next \in [Link -> Link] /\ k.head \in [ThreadList -> Link]
    BY DEF Sched
  <2>7. CASE k.head[l] = x
    <3>1. InsertedAt(k, r, l, t, x, t)
      BY <1>1, <2>4, <2>5, <2>6, <2>7, ReachFacts, LinkFacts DEF InsertedAt, Listed, Relinked
    <3>2. PutInOrder(k, r, l, t)
      BY <1>1, <2>2, <2>7, <3>1 DEF PutInOrder
    <3> QED BY <1>1, <2>4, <2>5, <2>6, <2>7, <3>2 DEF Relinked
  <2>8. CASE k.head[l] # x
    <3>1. PICK p \in Walk(k, l, C) \cap C : k.next[p] = x /\ w.next = [k.next EXCEPT ![p] = t]
      BY <2>4, <2>8 DEF Relinked
    <3>2. p \in Link /\ p \in Reach(k, l) /\ k.prio[t] <= k.prio[p]
      BY <1>1, <1>2, <1>3, <1>4, <3>1, WalkFacts
    <3>3. p \in Thread
      <4>1. p # Sentinel
        BY <1>3, <3>1
      <4>2. p # NULL
        BY <2>1, <3>1 DEF Lists
      <4> QED BY <3>2, <4>1, <4>2, LinkFacts DEF Ends
    <3>4. p \in Listed(k, l) /\ p # t
      BY <3>2, <3>3 DEF Listed
    <3>5. InsertedAt(k, r, l, t, x, p)
      BY <1>1, <2>4, <2>5, <2>6, <2>8, <3>1, <3>4, ReachFacts DEF InsertedAt, Relinked
    <3>6. PutInOrder(k, r, l, t)
      BY <2>2, <3>2, <3>5 DEF PutInOrder
    <3> QED BY <1>1, <2>4, <2>5, <2>6, <2>8, <3>1, <3>4, <3>6 DEF Relinked
  <2> QED BY <2>7, <2>8
<1> QED BY <1>5, <1>6

(* Nothing of the lists changes when heads stay, and the links and          *)
(* priorities of the threads on a list.                                     *)
LEMMA SameLists ==
  ASSUME NEW k \in Sched, Lists(k), NEW r \in Sched, r.head = k.head,
         \A l \in ThreadList : \A y \in Listed(k, l) :
           r.next[y] = k.next[y] /\ r.prio[y] = k.prio[y],
         r.next[NULL] = NULL, r.next[Sentinel] \in Ends,
         r.prio[Sentinel] = -1, \A t \in Thread : r.prio[t] >= 0
  PROVE  /\ Lists(r)
         /\ \A l \in ThreadList : Reach(r, l) = Reach(k, l) /\ Listed(r, l) = Listed(k, l)
<1>1. ASSUME NEW l \in ThreadList
      PROVE  Chain(r, l) /\ Reach(r, l) = Reach(k, l) /\ Listed(r, l) = Listed(k, l)
  BY SameChain DEF Lists
<1> QED BY <1>1, ListFacts DEF Lists

(* r is k with the thread t put on the list l.                              *)
Pushed(k, r, l, t) ==
  /\ r \in Sched /\ k.status = "ok" /\ Lists(r)
  /\ r.prio = k.prio /\ r.state = k.state /\ r.r0 = k.r0 /\ r.current = k.current
  /\ r.on = [k.on EXCEPT ![t] = l]
  /\ r.next[Sentinel] = k.next[Sentinel]
  /\ Listed(r, l) = Listed(k, l) \cup {t}
  /\ Sentinel \in Reach(r, l) <=> Sentinel \in Reach(k, l)
  /\ \A m \in ThreadList \ {l} :
       /\ r.head[m] = k.head[m]
       /\ Listed(r, m) = Listed(k, m)
       /\ Sentinel \in Reach(r, m) <=> Sentinel \in Reach(k, m)

LEMMA PushLists ==
  ASSUME NEW k \in Sched, Lists(k), NEW l \in ThreadList, NEW t \in Thread,
         \A m \in ThreadList : t \notin Listed(k, m),
         NEW r, r = Push(k, l, t), r.status = "ok"
  PROVE  Pushed(k, r, l, t)
<1>1. /\ r \in Sched /\ k.status = "ok"
      /\ r.prio = k.prio /\ r.state = k.state /\ r.r0 = k.r0 /\ r.current = k.current
      /\ r.on = [k.on EXCEPT ![t] = l]
      /\ \A m \in ThreadList \ {l} : r.head[m] = k.head[m]
      /\ \A y \in Link : y # t /\ y \notin Listed(k, l) => r.next[y] = k.next[y]
  BY PushStep
<1>2. PICK x \in Reach(k, l), p \in Link :
        /\ InsertedAt(k, r, l, t, x, p)
        /\ k.prio[x] <= k.prio[t]
        /\ k.head[l] # x => k.prio[t] <= k.prio[p]
  <2>1. PutInOrder(k, r, l, t)
    BY PushStep
  <2> QED BY <2>1 DEF PutInOrder
<1>3. t \notin Reach(k, l) /\ Chain(k, l)
  BY DEF Listed, Lists
<1>4. Reach(r, l) = Reach(k, l) \cup {t} /\ Listed(r, l) = Listed(k, l) \cup {t}
  BY <1>1, <1>2, <1>3, InsertReach
<1>5. Chain(r, l)
  BY <1>1, <1>2, <1>3, InsertChain
<1>6. ASSUME NEW m \in ThreadList, m # l
      PROVE  Chain(r, m) /\ Reach(r, m) = Reach(k, m) /\ Listed(r, m) = Listed(k, m)
  <2>1. \A y \in Listed(k, m) : y \in Link /\ y # t /\ y \notin Listed(k, l)
    BY <1>6, ReachFacts, LinkFacts DEF Lists
  <2>2. Chain(k, m) /\ r.head[m] = k.head[m]
    BY <1>1, <1>6 DEF Lists
  <2> QED BY <1>1, <2>1, <2>2, SameChain
<1>7. /\ r.next[NULL] = k.next[NULL] /\ r.next[Sentinel] = k.next[Sentinel]
      /\ t # Sentinel
  BY <1>1, LinkFacts, ReachFacts
<1>8. Lists(r)
  <2>1. \A m \in ThreadList : Chain(r, m)
    BY <1>5, <1>6
  <2>2. \A m, n \in ThreadList : m # n => Listed(r, m) \cap Listed(r, n) = {}
    BY <1>4, <1>6 DEF Lists
  <2>3. Sentinel \in Reach(r, SchedulerQueue)
    BY <1>4, <1>6, ListFacts DEF Lists
  <2> QED BY <1>1, <1>7, <2>1, <2>2, <2>3 DEF Lists
<1> QED BY <1>1, <1>4, <1>6, <1>7, <1>8 DEF Pushed

(* r is k with the thread t taken off the list l; k has the lists of k0.    *)
Removed(k0, k, r, l, t) ==
  /\ r \in Sched /\ k.status = "ok" /\ Lists(r)
  /\ r.prio = k.prio /\ r.state = k.state /\ r.r0 = k.r0 /\ r.current = k.current
  /\ r.on = k.on
  /\ r.next[Sentinel] = k0.next[Sentinel]
  /\ Listed(r, l) = Listed(k0, l) \ {t}
  /\ Sentinel \in Reach(r, l) <=> Sentinel \in Reach(k0, l)
  /\ \A m \in ThreadList \ {l} :
       /\ r.head[m] = k0.head[m]
       /\ Listed(r, m) = Listed(k0, m)
       /\ Sentinel \in Reach(r, m) <=> Sentinel \in Reach(k0, m)

(* Relinking the cell of a thread takes it off, whatever its priority is    *)
(* by then.                                                                 *)
LEMMA RemovedLists ==
  ASSUME NEW k0 \in Sched, Lists(k0), NEW k \in Sched, NEW l \in ThreadList,
         NEW t \in Listed(k0, l), k.status = "ok",
         NEW r \in Sched, NEW p, RemovedAt(k0, r, l, t, p),
         r.prio = k.prio, r.state = k.state, r.r0 = k.r0, r.current = k.current, r.on = k.on,
         \A m \in ThreadList \ {l} : r.head[m] = k0.head[m],
         \A y \in Link : y \notin Listed(k0, l) => r.next[y] = k0.next[y],
         \A y \in Link : y # t => k.prio[y] = k0.prio[y], k.prio[t] >= 0
  PROVE  Removed(k0, k, r, l, t)
<1>1. t \in Thread /\ t # Sentinel /\ Sentinel \in Link /\ NULL \in Link
  BY ReachFacts, LinkFacts
<1>2. Chain(k0, l) /\ k0.next[Sentinel] \in Ends
  BY DEF Lists
<1>3. Reach(r, l) = Reach(k0, l) \ {t} /\ Listed(r, l) = Listed(k0, l) \ {t}
  BY <1>2, RemoveReach
<1>4. Chain(r, l)
  <2>1. \A y \in Listed(k0, l) : y \in Link
    BY ReachFacts, LinkFacts
  <2>2. \A y \in Listed(k0, l) : k0.prio[y] \in Int
    BY <2>1 DEF Sched
  <2>3. \A y \in Listed(k0, l) : y # t => r.prio[y] = k0.prio[y]
    BY <2>1
  <2> QED BY <1>2, <2>2, <2>3, RemoveChain
<1>5. ASSUME NEW m \in ThreadList, m # l
      PROVE  Chain(r, m) /\ Reach(r, m) = Reach(k0, m) /\ Listed(r, m) = Listed(k0, m)
  <2>1. \A y \in Listed(k0, m) : y \in Link /\ y # t /\ y \notin Listed(k0, l)
    BY <1>5, ReachFacts, LinkFacts DEF Lists
  <2>2. Chain(k0, m) /\ r.head[m] = k0.head[m]
    BY <1>5 DEF Lists
  <2>3. \A y \in Listed(k0, m) : r.next[y] = k0.next[y] /\ r.prio[y] = k0.prio[y]
    BY <2>1
  <2> QED BY <2>2, <2>3, SameChain
<1>6. r.next[NULL] = k0.next[NULL] /\ r.next[Sentinel] = k0.next[Sentinel]
  BY <1>1, ReachFacts, LinkFacts
<1>7. \A m \in ThreadList : Chain(r, m)
  BY <1>4, <1>5
<1>8. \A m, n \in ThreadList : m # n => Listed(r, m) \cap Listed(r, n) = {}
  BY <1>3, <1>5 DEF Lists
<1>9. Sentinel \in Reach(r, SchedulerQueue)
  BY <1>1, <1>3, <1>5, ListFacts DEF Lists
<1>10. r.prio[Sentinel] = -1 /\ \A y \in Thread : r.prio[y] >= 0
  BY <1>1, LinkFacts DEF Lists
<1>11. Lists(r)
  BY <1>2, <1>6, <1>7, <1>8, <1>9, <1>10 DEF Lists
<1> QED BY <1>1, <1>3, <1>5, <1>6, <1>11 DEF Removed

(* A removal that ends has taken the thread off; it does not end when the   *)
(* list ends at the sentinel and the thread is not on it.                   *)
LEMMA RemoveLists ==
  ASSUME NEW k0 \in Sched, Lists(k0), NEW k \in Sched, NEW l \in ThreadList, NEW t \in Thread,
         k.head = k0.head, k.next = k0.next,
         \A y \in Link : y # t => k.prio[y] = k0.prio[y], k.prio[t] >= 0,
         NEW r, r = Remove(k, l, t), r.status = "ok"
  PROVE  /\ t \in Listed(k0, l) => Removed(k0, k, r, l, t)
         /\ Sentinel \in Reach(k0, l) /\ k0.next[Sentinel] = Sentinel => t \in Listed(k0, l)
<1> DEFINE C == Link \ {t, NULL}
           found == Walk(k, l, C) \ C
<1>1. l # NULL /\ t \in Link /\ NULL \in Link /\ Sentinel \in Link /\ t # NULL /\ t # Sentinel
      /\ k.next[t] \in Link
  BY ListAssumption, LinkFacts DEF Sched
<1>2. Walk(k, l, C) = Walk(k0, l, C) /\ found \subseteq {t, NULL}
  BY DEF Walk
<1>3. Walk(k0, l, C) \subseteq Reach(k0, l) \cup Ends
  <2> DEFINE X == Reach(k0, l) \cup Ends
  <2>1. X \subseteq Link /\ k0.head[l] \in X
    BY ReachFacts, LinkFacts
  <2>2. ASSUME NEW y \in X PROVE k0.next[y] \in X
    BY ReachFacts, LinkFacts DEF Lists, Listed, Ends
  <2> HIDE DEF X, C
  <2>3. Walk(k0, l, C) \subseteq X
    BY <2>1, <2>2, WalkWithin
  <2> QED BY <2>3 DEF X
<1>4. ASSUME t \in Listed(k0, l) PROVE t \in found
  <2> SUFFICES ASSUME t \notin Walk(k0, l, C) PROVE FALSE
    BY <1>2
  <2> DEFINE X == Walk(k0, l, C)
  <2>1. X \subseteq Link /\ k0.head[l] \in X /\ \A y \in X : y \in C => k0.next[y] \in X
    <3> HIDE DEF C
    <3> QED BY WalkFacts
  <2>2. \A y \in X : y \in Thread => y \in C
    BY LinkFacts
  <2>3. \A y \in X : y \in Thread => k0.next[y] \in X
    BY <2>1, <2>2
  <2> HIDE DEF X
  <2>4. Reach(k0, l) \subseteq X
    BY <2>1, <2>3, ReachWithin
  <2> QED BY <1>4, <2>4 DEF X, Listed
<1>5. ASSUME t \in found
      PROVE  r = Relink(k, l, C, t, k.next[t])
  BY <1>1, <1>5 DEF Remove
<1>6. ASSUME t \in Listed(k0, l) PROVE Removed(k0, k, r, l, t)
  <2>1. t \in Walk(k, l, C) /\ r = Relink(k, l, C, t, k.next[t])
    BY <1>4, <1>5, <1>6
  <2>2. Relinked(k, r, l, C, t, k.next[t])
    <3> HIDE DEF C
    <3> QED BY <1>1, <2>1, RelinkFields
  <2>3. k0.next \in [Link -> Link] /\ k0.head \in [ThreadList -> Link]
    BY DEF Sched
  <2>4. CASE k0.head[l] = t
    <3>1. RemovedAt(k0, r, l, t, t)
      BY <2>2, <2>3, <2>4 DEF RemovedAt, Relinked
    <3> QED BY <1>6, <2>2, <2>3, <2>4, <3>1, RemovedLists DEF Relinked
  <2>5. CASE k0.head[l] # t
    <3>1. PICK p \in Walk(k, l, C) \cap C : k.next[p] = t /\ r.next = [k.next EXCEPT ![p] = k.next[t]]
      BY <2>2, <2>5 DEF Relinked
    <3>2. p # Sentinel /\ p # NULL /\ p # t /\ p \in Link
      BY <3>1, LinkFacts DEF Lists
    <3>3. p \in Listed(k0, l)
      BY <1>2, <1>3, <3>1, <3>2, LinkFacts DEF Listed, Ends
    <3>4. RemovedAt(k0, r, l, t, p)
      BY <1>2, <2>2, <2>3, <2>5, <3>1, <3>2, <3>3 DEF RemovedAt, Relinked
    <3>5. /\ \A m \in ThreadList \ {l} : r.head[m] = k0.head[m]
          /\ \A y \in Link : y \notin Listed(k0, l) => r.next[y] = k0.next[y]
      BY <2>2, <2>3, <2>5, <3>1, <3>2, <3>3 DEF Relinked
    <3> QED BY <1>6, <2>2, <3>4, <3>5, RemovedLists DEF Relinked
  <2> QED BY <2>4, <2>5
<1>7. ASSUME Sentinel \in Reach(k0, l), k0.next[Sentinel] = Sentinel, t \notin Listed(k0, l)
      PROVE  FALSE
  <2> DEFINE X == Reach(k0, l)
  <2>1. NULL \notin X /\ t \notin X
    BY <1>7, LinkFacts DEF Listed, Lists, Chain, Ends
  <2>2. X \subseteq Link /\ k0.head[l] \in X
    BY ReachFacts
  <2>3. \A y \in X : y \in C => k0.next[y] \in X
    BY <1>7, <2>1, ReachFacts, LinkFacts DEF Listed, Ends
  <2>4. Walk(k0, l, C) \subseteq X
    <3> HIDE DEF X, C
    <3> QED BY <2>2, <2>3, WalkWithin
  <2>5. found = {}
    BY <1>2, <2>1, <2>4
  <2>6. r = Stop(k, "hung")
    BY <1>1, <2>5 DEF Remove
  <2> QED BY <2>6, StopFields DEF Statuses
<1> QED BY <1>6, <1>7

(* Popping the head of a list, which is not the scheduler's sentinel.       *)
Popped(k, r, l) ==
  /\ r \in Sched /\ Lists(r)
  /\ r.prio = k.prio /\ r.state = k.state /\ r.r0 = k.r0 /\ r.current = k.current
  /\ r.on = k.on /\ r.next = k.next /\ r.status = k.status
  /\ Listed(r, l) = Listed(k, l) \ {k.head[l]}
  /\ Sentinel \in Reach(k, l) /\ k.next[Sentinel] = Sentinel => Sentinel \in Reach(r, l)
  /\ \A m \in ThreadList \ {l} :
       /\ r.head[m] = k.head[m]
       /\ Listed(r, m) = Listed(k, m)
       /\ Sentinel \in Reach(r, m) <=> Sentinel \in Reach(k, m)

LEMMA PopLists ==
  ASSUME NEW k \in Sched, Lists(k), NEW l \in ThreadList,
         l # SchedulerQueue \/ k.head[l] \in Thread
  PROVE  Popped(k, Pop(k, l), l)
<1> DEFINE t == k.head[l]
           r == Pop(k, l)
<1>1. /\ r \in Sched
      /\ r.prio = k.prio /\ r.state = k.state /\ r.r0 = k.r0 /\ r.current = k.current
      /\ r.on = k.on /\ r.next = k.next /\ r.status = k.status
      /\ r.head = [k.head EXCEPT ![l] = k.next[t]]
  BY DEF Pop, Sched
<1>2. t \in Link /\ k.next[t] \in Link /\ k.head \in [ThreadList -> Link]
  BY DEF Sched
<1> SUFFICES Popped(k, r, l)
  OBVIOUS
<1> HIDE DEF r
<1>3. ASSUME NEW m \in ThreadList, m # l
      PROVE  Chain(r, m) /\ Reach(r, m) = Reach(k, m) /\ Listed(r, m) = Listed(k, m)
  <2>1. Chain(k, m) /\ r.head[m] = k.head[m]
    BY <1>1, <1>2, <1>3 DEF Lists
  <2> QED BY <1>1, <2>1, SameChain, ZenonT(60)
<1>6. \A m \in ThreadList \ {l} :
       /\ r.head[m] = k.head[m] /\ Listed(r, m) = Listed(k, m)
       /\ Sentinel \in Reach(r, m) <=> Sentinel \in Reach(k, m)
  BY <1>1, <1>2, <1>3
<1>4. CASE t \in Thread
  <2>1. t \in Listed(k, l) /\ Chain(k, l)
    BY <1>4, ReachFacts DEF Listed, Lists
  <2>2. RemovedAt(k, r, l, t, t)
    BY <1>1, <1>2 DEF RemovedAt
  <2>3. Reach(r, l) = Reach(k, l) \ {t} /\ Listed(r, l) = Listed(k, l) \ {t}
    BY <1>1, <2>1, <2>2, RemoveReach DEF Lists
  <2>4. \A y \in Listed(k, l) : k.prio[y] \in Int
    BY ReachFacts, LinkFacts DEF Sched
  <2>5. Chain(r, l)
    BY <1>1, <2>1, <2>2, <2>4, RemoveChain DEF Lists
  <2>6. \A m \in ThreadList : Chain(r, m)
    BY <1>3, <2>5
  <2>7. \A m, n \in ThreadList : m # n => Listed(r, m) \cap Listed(r, n) = {}
    BY <1>3, <2>3 DEF Lists
  <2>8. \A m \in ThreadList : Sentinel \in Reach(r, m) <=> Sentinel \in Reach(k, m)
    BY <1>3, <1>4, <2>3, LinkFacts
  <2>9. Lists(r)
    BY <1>1, <2>6, <2>7, <2>8, ListFacts DEF Lists
  <2> QED BY <1>1, <1>6, <2>3, <2>8, <2>9 DEF Popped
<1>5. CASE t \notin Thread
  <2>1. t \in Ends /\ k.next[t] \in Ends /\ r.head[l] = k.next[t] /\ l # SchedulerQueue
    BY <1>1, <1>2, <1>5, LinkFacts DEF Ends, Lists
  <2>2. Reach(r, l) = {k.next[t]} /\ Listed(r, l) = {}
    BY <1>1, <2>1, EmptyReach, ZenonT(60)
  <2>3. Reach(k, l) = {t} /\ Listed(k, l) = {}
    BY <2>1, EmptyReach
  <2>4. Chain(r, l)
    BY <2>1, <2>2 DEF Chain
  <2>5. \A m \in ThreadList : Chain(r, m)
    BY <1>3, <2>4
  <2>6. \A m, n \in ThreadList : m # n => Listed(r, m) \cap Listed(r, n) = {}
    BY <1>3, <2>2 DEF Lists
  <2>7. Sentinel \in Reach(r, SchedulerQueue)
    BY <1>3, <2>1, ListFacts DEF Lists
  <2>8. Lists(r)
    BY <1>1, <2>5, <2>6, <2>7 DEF Lists
  <2>9. Listed(r, l) = Listed(k, l) \ {t}
    BY <2>2, <2>3
  <2>10. Sentinel \in Reach(k, l) /\ k.next[Sentinel] = Sentinel => Sentinel \in Reach(r, l)
    BY <2>2, <2>3
  <2> QED BY <1>1, <1>6, <2>8, <2>9, <2>10 DEF Popped
<1> QED BY <1>4, <1>5

(* Pushing the sentinel on the scheduler's list, as waking a queue that    *)
(* nobody waits on does, links it to itself and leaves the lists alone.     *)
LEMMA PushSentinel ==
  ASSUME NEW k \in Sched, Lists(k), NEW r, r = Push(k, SchedulerQueue, Sentinel)
  PROVE  /\ r \in Sched /\ r.status = k.status
         /\ r.prio = k.prio /\ r.state = k.state /\ r.r0 = k.r0 /\ r.current = k.current
         /\ r.head = k.head
         /\ r.on = [k.on EXCEPT ![Sentinel] = SchedulerQueue]
         /\ r.next = [k.next EXCEPT ![Sentinel] = Sentinel]
<1> DEFINE l == SchedulerQueue
           C == Passed(k, Sentinel)
           found == Walk(k, l, C) \ C
           x == CHOOSE x \in found : TRUE
           w == Relink(k, l, C, x, Sentinel)
<1>1. /\ l \in ThreadList /\ l # NULL /\ Sentinel # NULL /\ Sentinel \in Link /\ NULL \in Link
      /\ Thread \subseteq Link
  BY ListAssumption, LinkFacts, ListFacts
<1>2. \A y \in Link : k.prio[y] \in Int /\ k.next[y] \in Link
  BY DEF Sched
<1>3. Thread \subseteq C /\ Sentinel \notin C /\ C \subseteq Link
  BY <1>1, <1>2 DEF Passed, Lists
<1>4. NULL \notin Reach(k, l)
  BY <1>1, LinkFacts DEF Lists, Chain, Ends
<1>5. Walk(k, l, C) \subseteq Reach(k, l)
  <2> DEFINE X == Reach(k, l)
  <2>1. X \subseteq Link /\ k.head[l] \in X
    BY <1>1, ReachFacts
  <2>2. \A y \in X : y \in C => k.next[y] \in X
    BY <1>1, <1>3, <1>4, ReachFacts, LinkFacts DEF Listed, Ends
  <2>3. Walk(k, l, C) \subseteq X
    <3> HIDE DEF X, C, l
    <3> QED BY <1>1, <2>1, <2>2, WalkWithin
  <2> QED BY <2>3
<1>6. Reach(k, l) \subseteq Walk(k, l, C)
  <2> DEFINE X == Walk(k, l, C)
  <2>1. X \subseteq Link /\ k.head[l] \in X /\ \A y \in X : y \in Thread => k.next[y] \in X
    <3> HIDE DEF C, l
    <3> QED BY <1>1, <1>3, WalkFacts
  <2>2. Reach(k, l) \subseteq X
    <3> HIDE DEF X, l
    <3> QED BY <1>1, <2>1, ReachWithin
  <2> QED BY <2>2
<1>7. Sentinel \in found /\ found \subseteq {Sentinel}
  BY <1>1, <1>3, <1>4, <1>5, <1>6, LinkFacts, ReachFacts DEF Lists, Ends, Listed
<1>8. x = Sentinel /\ found # {}
  BY <1>7
<1>9. r = [w EXCEPT !.on[Sentinel] = l, !.next[Sentinel] = Sentinel]
  BY <1>1, <1>8 DEF Push
<1>10. Relinked(k, w, l, C, Sentinel, Sentinel)
  <2>1. Sentinel \in Walk(k, l, C) /\ w = Relink(k, l, C, Sentinel, Sentinel)
    BY <1>7, <1>8
  <2> HIDE DEF C, l, x, w
  <2> QED BY <1>1, <2>1, RelinkFields
<1> HIDE DEF w, x, found, C
<1>11. w.head = k.head /\ w.next = k.next
  <2>1. k.head \in [ThreadList -> Link] /\ k.next \in [Link -> Link]
    BY DEF Sched
  <2>2. CASE k.head[l] = Sentinel
    BY <1>10, <2>1, <2>2 DEF Relinked
  <2>3. CASE k.head[l] # Sentinel
    BY <1>10, <2>1, <2>3 DEF Relinked
  <2> QED BY <2>2, <2>3
<1> DEFINE on2 == [w.on EXCEPT ![Sentinel] = l]
           next2 == [w.next EXCEPT ![Sentinel] = Sentinel]
<1>12. w \in Sched
  BY <1>10 DEF Relinked
<1>13. r = [w EXCEPT !.on = on2, !.next = next2]
  BY <1>1, <1>9, <1>12 DEF Sched
<1>14. on2 \in [Link -> ThreadList \cup {NULL}] /\ next2 \in [Link -> Link]
  BY <1>1, <1>12 DEF Sched
<1>15. /\ r \in Sched /\ r.on = on2 /\ r.next = next2
       /\ r.prio = w.prio /\ r.state = w.state /\ r.r0 = w.r0
       /\ r.current = w.current /\ r.status = w.status /\ r.head = w.head
  <2> HIDE DEF on2, next2
  <2> QED BY <1>12, <1>13, <1>14 DEF Sched
<1> QED BY <1>10, <1>11, <1>15 DEF Relinked

(* r is k with the head of the list l, if it is a thread, made ready.       *)
Woke(k, r, l, ret) ==
  /\ r \in Sched /\ k.status = "ok" /\ Lists(r)
  /\ r.prio = k.prio /\ r.current = k.current
  /\ r.state = [k.state EXCEPT ![k.head[l]] = Ready]
  /\ r.r0 = [k.r0 EXCEPT ![k.head[l]] = ret]
  /\ \A y \in Thread : r.on[y] = IF y = k.head[l] THEN SchedulerQueue ELSE k.on[y]
  /\ k.head[l] = Sentinel \/ k.next[Sentinel] = Sentinel => r.next[Sentinel] = Sentinel
  /\ k.head[l] \in Thread => k.head[l] \in Listed(k, l)
  /\ Listed(r, l) = Listed(k, l) \ {k.head[l]}
  /\ Listed(r, SchedulerQueue) = Listed(k, SchedulerQueue) \cup ({k.head[l]} \cap Thread)
  /\ \A m \in ThreadList \ {l, SchedulerQueue} :
       r.head[m] = k.head[m] /\ Listed(r, m) = Listed(k, m)
  /\ \A m \in ThreadList :
       Sentinel \in Reach(k, m) /\ (m # l \/ k.next[Sentinel] = Sentinel)
         => Sentinel \in Reach(r, m)

LEMMA WakeHeadLists ==
  ASSUME NEW k \in Sched, Lists(k), NEW l \in ThreadList, l # SchedulerQueue,
         NEW ret \in Returns, NEW r, r = WakeHead(k, l, ret), r.status = "ok"
  PROVE  Woke(k, r, l, ret)
<1> DEFINE h == k.head[l]
           k0 == Pop(k, l)
           k1 == [k0 EXCEPT !.r0[h] = ret, !.state[h] = Ready]
           S == SchedulerQueue
<1>1. h \in Link /\ S \in ThreadList
  BY ListFacts DEF Sched
<1>2. Popped(k, k0, l)
  BY PopLists
<1>3. r = Push(k1, S, h)
  BY DEF WakeHead, HeadOf
<1> HIDE DEF k0
<1>4. /\ k1 \in Sched /\ k1.head = k0.head /\ k1.next = k0.next /\ k1.prio = k0.prio
      /\ k1.on = k0.on /\ k1.current = k0.current /\ k1.status = k0.status
      /\ k1.state = [k0.state EXCEPT ![h] = Ready] /\ k1.r0 = [k0.r0 EXCEPT ![h] = ret]
  <2>1. k0 \in Sched /\ Ready \in States
    BY <1>2 DEF Popped, States
  <2> HIDE DEF h
  <2> QED BY <1>1, <2>1 DEF Sched
<1> HIDE DEF k1
<1>5. Lists(k1) /\ \A m \in ThreadList : Reach(k1, m) = Reach(k0, m) /\ Listed(k1, m) = Listed(k0, m)
  <2>1. k0 \in Sched /\ Lists(k0)
    BY <1>2 DEF Popped
  <2>2. /\ k1.next[NULL] = NULL /\ k1.next[Sentinel] \in Ends
        /\ k1.prio[Sentinel] = -1 /\ \A t \in Thread : k1.prio[t] >= 0
    BY <1>4, <2>1 DEF Lists
  <2> QED BY <1>4, <2>1, <2>2, SameLists
<1>6. /\ k1.state = [k.state EXCEPT ![h] = Ready] /\ k1.r0 = [k.r0 EXCEPT ![h] = ret]
      /\ k1.prio = k.prio /\ k1.on = k.on /\ k1.current = k.current /\ k1.next = k.next
      /\ k1.status = k.status
      /\ Listed(k1, l) = Listed(k, l) \ {h}
      /\ \A m \in ThreadList \ {l} :
           k1.head[m] = k.head[m] /\ Listed(k1, m) = Listed(k, m)
      /\ \A m \in ThreadList :
           Sentinel \in Reach(k, m) /\ (m # l \/ k.next[Sentinel] = Sentinel)
             => Sentinel \in Reach(k1, m)
  BY <1>2, <1>4, <1>5 DEF Popped
<1>7. CASE h \in Thread
  <2>1. h \in Listed(k, l)
    BY <1>7, ReachFacts DEF Listed
  <2>2. \A m \in ThreadList : h \notin Listed(k1, m)
    BY <1>6, <2>1 DEF Lists
  <2>3. Pushed(k1, r, S, h)
    <3> HIDE DEF h
    <3> QED BY <1>1, <1>3, <1>4, <1>5, <1>7, <2>2, PushLists
  <2>4. \A y \in Thread : r.on[y] = IF y = h THEN S ELSE k.on[y]
    <3>1. \A y \in Thread : y \in Link
      BY LinkFacts
    <3> QED BY <1>6, <2>3, <3>1 DEF Pushed, Sched
  <2>5. h # Sentinel
    BY <1>7, LinkFacts
  <2>6. Listed(r, l) = Listed(k, l) \ {h} /\ Listed(r, S) = Listed(k, S) \cup ({h} \cap Thread)
    BY <1>1, <1>6, <1>7, <2>3 DEF Pushed
  <2>7. \A m \in ThreadList \ {l, S} : r.head[m] = k.head[m] /\ Listed(r, m) = Listed(k, m)
    BY <1>6, <2>3 DEF Pushed
  <2>8. \A m \in ThreadList :
          Sentinel \in Reach(k, m) /\ (m # l \/ k.next[Sentinel] = Sentinel)
            => Sentinel \in Reach(r, m)
    BY <1>6, <2>3 DEF Pushed
  <2> QED BY <1>6, <2>1, <2>3, <2>4, <2>5, <2>6, <2>7, <2>8 DEF Woke, Pushed
<1>8. CASE h = Sentinel
  <2>1. /\ r \in Sched /\ r.status = k1.status
        /\ r.prio = k1.prio /\ r.state = k1.state /\ r.r0 = k1.r0 /\ r.current = k1.current
        /\ r.head = k1.head
        /\ r.on = [k1.on EXCEPT ![Sentinel] = S]
        /\ r.next = [k1.next EXCEPT ![Sentinel] = Sentinel]
    BY <1>3, <1>4, <1>5, <1>8, PushSentinel
  <2>2. Sentinel \notin Thread /\ Sentinel \in Link /\ NULL # Sentinel /\ Thread \subseteq Link
        /\ Sentinel \in Ends
    BY LinkFacts
  <2>3. k1.next \in [Link -> Link] /\ k1.on \in [Link -> ThreadList \cup {NULL}]
    BY <1>4 DEF Sched
  <2>4. \A m \in ThreadList : \A y \in Listed(k1, m) :
          r.next[y] = k1.next[y] /\ r.prio[y] = k1.prio[y]
    BY <1>4, <2>1, <2>2, <2>3, ReachFacts
  <2>5. /\ r.next[NULL] = NULL /\ r.next[Sentinel] = Sentinel
        /\ r.prio[Sentinel] = -1 /\ \A t \in Thread : r.prio[t] >= 0
    BY <1>5, <2>1, <2>2, <2>3 DEF Lists
  <2>6. /\ Lists(r)
        /\ \A m \in ThreadList : Reach(r, m) = Reach(k1, m) /\ Listed(r, m) = Listed(k1, m)
    <3>1. k1 \in Sched /\ Lists(k1) /\ r \in Sched /\ r.head = k1.head
      BY <1>4, <1>5, <2>1
    <3>2. r.next[Sentinel] \in Ends
      BY <2>2, <2>5
    <3> QED BY <2>4, <2>5, <3>1, <3>2, SameLists
  <2>7. \A y \in Thread : r.on[y] = IF y = h THEN S ELSE k.on[y]
    BY <1>6, <1>8, <2>1, <2>2, <2>3
  <2>8. Listed(r, l) = Listed(k, l) \ {h} /\ Listed(r, S) = Listed(k, S) \cup ({h} \cap Thread)
    BY <1>1, <1>6, <1>8, <2>2, <2>6
  <2>9. \A m \in ThreadList \ {l, S} : r.head[m] = k.head[m] /\ Listed(r, m) = Listed(k, m)
    BY <1>6, <2>1, <2>6
  <2>10. \A m \in ThreadList :
          Sentinel \in Reach(k, m) /\ (m # l \/ k.next[Sentinel] = Sentinel)
            => Sentinel \in Reach(r, m)
    BY <1>6, <2>6
  <2> QED BY <1>6, <1>8, <2>1, <2>2, <2>5, <2>6, <2>7, <2>8, <2>9, <2>10 DEF Woke
<1>9. CASE h = NULL
  <2>1. r = k1
    BY <1>3, <1>9 DEF Push
  <2>2. NULL \notin Thread /\ NULL # Sentinel
    BY LinkFacts
  <2> QED BY <1>1, <1>4, <1>5, <1>6, <1>9, <2>1, <2>2 DEF Woke
<1> QED BY <1>1, <1>7, <1>8, <1>9, LinkFacts DEF Ends

-----------------------------------------------------------------------------
(* Where each thread is.  What a thread is on agrees with its state, and    *)
(* one thread, the one with the highest priority, has the CPU.              *)

Placed(k) ==
  /\ \A l \in ThreadList : \A t \in Listed(k, l) : k.on[t] = l
  /\ \A t \in Thread : k.state[t] = Ready <=> t \in Listed(k, SchedulerQueue)
  /\ \A l \in ThreadList \ {SchedulerQueue} : \A t \in Listed(k, l) : k.state[t] = Waiting
  /\ \A t \in Thread : k.state[t] = Waiting =>
       k.on[t] # NULL /\ (k.on[t] # SchedulerQueue => t \in Listed(k, k.on[t]))

NobodyRuns(k) == \A t \in Thread : k.state[t] # Running
CurrentRuns(k) ==
  /\ k.current \in Thread
  /\ \A t \in Thread : k.state[t] = Running <=> t = k.current
  /\ k.on[k.current] = SchedulerQueue
CurrentIsHighest(k) == k.prio[k.head[SchedulerQueue]] <= k.prio[k.current]

(* The same state, but for who has the CPU.                                 *)
Like(a, b) == IF b \in {Ready, Running} THEN a \in {Ready, Running} ELSE a = b

(* The lists of r other than the scheduler's are those of k.                *)
SameWaits(k, r) ==
  /\ r.next[Sentinel] = k.next[Sentinel]
  /\ \A m \in ThreadList \ {SchedulerQueue} :
       /\ r.head[m] = k.head[m]
       /\ Listed(r, m) = Listed(k, m)
       /\ Sentinel \in Reach(r, m) <=> Sentinel \in Reach(k, m)

Dispatched(k, r) ==
  /\ r \in Sched /\ k.status = "ok"
  /\ Lists(r) /\ Placed(r) /\ CurrentRuns(r) /\ CurrentIsHighest(r)
  /\ r.prio = k.prio /\ r.on = k.on /\ r.r0 = k.r0
  /\ \A t \in Thread : Like(r.state[t], k.state[t])
  /\ SameWaits(k, r)

(* ScheduleYield dispatches a ready thread of the highest priority.         *)
LEMMA ScheduleYieldLists ==
  ASSUME NEW k \in Sched, Lists(k), Placed(k), NobodyRuns(k),
         NEW r, r = ScheduleYield(k), r.status = "ok"
  PROVE  Dispatched(k, r)
<1> DEFINE S == SchedulerQueue
           t == k.head[S]
           k0 == Pop(k, S)
           k1 == [k0 EXCEPT !.current = t, !.state[t] = Running]
<1>1. S \in ThreadList /\ t \in Link /\ Thread \subseteq Link
  BY ListFacts, LinkFacts DEF Sched
<1>2. r = IF t \in Thread THEN k1 ELSE Stop(k1, "lost")
  BY DEF ScheduleYield, HeadOf
<1>3. k0 \in Sched
  BY <1>1, PopType
<1>4. /\ k1 \in Sched /\ k1.head = k0.head /\ k1.next = k0.next /\ k1.prio = k0.prio
      /\ k1.on = k0.on /\ k1.current = t /\ k1.status = k0.status /\ k1.r0 = k0.r0
      /\ k1.state = [k0.state EXCEPT ![t] = Running]
  <2>1. Running \in States
    BY DEF States
  <2> HIDE DEF t, k0
  <2> QED BY <1>1, <1>3, <2>1 DEF Sched
<1> HIDE DEF k1
<1>5. t \in Thread /\ r = k1
  <2>1. "lost" \in Statuses \ {"ok"}
    BY DEF Statuses
  <2> QED BY <1>2, <1>4, <2>1, StopFields
<1>6. Popped(k, k0, S)
  BY <1>1, <1>5, PopLists
<1> HIDE DEF k0
<1>7. /\ r \in Sched /\ k.status = "ok" /\ r.current = t
      /\ r.head = k0.head /\ r.next = k.next /\ r.prio = k.prio
      /\ r.on = k.on /\ r.r0 = k.r0 /\ r.state = [k.state EXCEPT ![t] = Running]
  BY <1>4, <1>5, <1>6 DEF Popped
<1>8. /\ Lists(r)
      /\ \A m \in ThreadList : Reach(r, m) = Reach(k0, m) /\ Listed(r, m) = Listed(k0, m)
  <2>1. k0 \in Sched /\ Lists(k0) /\ k0.next = k.next /\ k0.prio = k.prio
    BY <1>6 DEF Popped
  <2>2. /\ r.next[NULL] = NULL /\ r.next[Sentinel] \in Ends
        /\ r.prio[Sentinel] = -1 /\ \A y \in Thread : r.prio[y] >= 0
    BY <1>7 DEF Lists
  <2> QED BY <1>7, <2>1, <2>2, SameLists
<1>9. t \in Listed(k, S) /\ k.state[t] = Ready /\ k.on[t] = S
  BY <1>1, <1>5, ReachFacts DEF Listed, Placed
<1>10. Listed(r, S) = Listed(k, S) \ {t} /\ SameWaits(k, r)
  <2>1. Listed(r, S) = Listed(k, S) \ {t}
    BY <1>1, <1>6, <1>8 DEF Popped
  <2>2. ASSUME NEW m \in ThreadList \ {S}
        PROVE  /\ r.head[m] = k.head[m] /\ Listed(r, m) = Listed(k, m)
               /\ Sentinel \in Reach(r, m) <=> Sentinel \in Reach(k, m)
    BY <1>6, <1>7, <1>8 DEF Popped
  <2> QED BY <1>7, <2>1, <2>2 DEF SameWaits
<1>11. \A y \in Thread : r.state[y] = IF y = t THEN Running ELSE k.state[y]
  BY <1>1, <1>7 DEF Sched
<1>12. Placed(r)
  <2>1. \A l \in ThreadList : \A y \in Listed(r, l) : y \in Listed(k, l) /\ y \in Thread
    BY <1>10, ReachFacts DEF SameWaits
  <2>2. \A l \in ThreadList : \A y \in Listed(r, l) : r.on[y] = l
    BY <1>7, <2>1 DEF Placed
  <2>3. \A y \in Thread : r.state[y] = Ready <=> y \in Listed(r, S)
    <3>1. Running # Ready
      BY DEF Running, Ready
    <3> QED BY <1>10, <1>11, <3>1 DEF Placed
  <2>4. \A l \in ThreadList \ {S} : \A y \in Listed(r, l) : r.state[y] = Waiting
    <3>1. Ready # Waiting
      BY DEF Ready, Waiting
    <3> QED BY <1>9, <1>10, <1>11, <2>1, <3>1 DEF Placed, SameWaits
  <2>5. \A y \in Thread : r.state[y] = Waiting =>
          r.on[y] # NULL /\ (r.on[y] # S => y \in Listed(r, r.on[y]))
    <3>1. Running # Waiting
      BY DEF Running, Waiting
    <3>2. \A y \in Link : k.on[y] \in ThreadList \cup {NULL}
      BY DEF Sched
    <3> QED BY <1>1, <1>7, <1>10, <1>11, <3>1, <3>2 DEF Placed, SameWaits
  <2> QED BY <2>2, <2>3, <2>4, <2>5 DEF Placed
<1>13. CurrentRuns(r)
  BY <1>5, <1>7, <1>9, <1>11 DEF CurrentRuns, NobodyRuns
<1>14. CurrentIsHighest(r)
  <2>1. r.head[S] \in Reach(k, S)
    <3>1. r.head[S] = k.next[t]
      BY <1>1, <1>4, <1>5 DEF k0, Pop, Sched
    <3> QED BY <1>1, <1>9, <3>1, ReachFacts
  <2>2. CASE r.head[S] \in Thread
    BY <1>1, <1>7, <2>1, <2>2, HeadIsHighest DEF Listed, Lists, CurrentIsHighest
  <2>3. CASE r.head[S] \notin Thread
    <3>1. r.head[S] \in Ends /\ r.head[S] \in Reach(r, S)
      BY <1>1, <1>7, <2>3, ReachFacts DEF Listed
    <3>2. r.head[S] = Sentinel
      BY <1>1, <1>8, <3>1, LinkFacts DEF Lists, Chain
    <3>3. r.prio[t] \in Int
      BY <1>1, <1>7 DEF Sched
    <3> QED BY <1>5, <1>7, <1>8, <3>2, <3>3 DEF Lists, CurrentIsHighest
  <2> QED BY <2>2, <2>3
<1>15. \A y \in Thread : Like(r.state[y], k.state[y])
  BY <1>9, <1>11 DEF Like
<1> QED BY <1>7, <1>8, <1>10, <1>12, <1>13, <1>14, <1>15 DEF Dispatched

(* The current thread gives up the CPU: it becomes ready again, or waits on *)
(* a list of its own or on none, or stops.                                  *)
MayYield(s, l) ==
  \/ s = Ready /\ l = SchedulerQueue
  \/ s = Waiting /\ l \in ThreadList \ {SchedulerQueue}
  \/ s \in {Waiting, Stopped} /\ l = NULL

(* The lists of r are those of k but for the current thread put on l.       *)
WaitsOn(k, r, l) ==
  /\ r.next[Sentinel] = k.next[Sentinel]
  /\ \A t \in Thread : r.on[t] = IF t = k.current /\ l # NULL THEN l ELSE k.on[t]
  /\ \A m \in ThreadList \ {SchedulerQueue} :
       Sentinel \in Reach(r, m) <=> Sentinel \in Reach(k, m)
  /\ \A m \in ThreadList \ {SchedulerQueue, l} :
       r.head[m] = k.head[m] /\ Listed(r, m) = Listed(k, m)
  /\ l \notin {SchedulerQueue, NULL} => Listed(r, l) = Listed(k, l) \cup {k.current}

GivenUp(k0, k, r, s, l) ==
  /\ r \in Sched /\ k0.status = "ok" /\ Lists(r) /\ Placed(r) /\ NobodyRuns(r)
  /\ r.prio = k0.prio /\ r.r0 = k.r0
  /\ r.state = [k0.state EXCEPT ![k0.current] = s]
  /\ WaitsOn(k0, r, l)

LEMMA GiveUpLists ==
  ASSUME NEW k0 \in Sched, Lists(k0), Placed(k0), CurrentRuns(k0),
         NEW s, NEW l, MayYield(s, l),
         NEW k \in Sched, k.head = k0.head, k.next = k0.next, k.prio = k0.prio, k.on = k0.on,
         k.current = k0.current, k.status = k0.status,
         k.state = [k0.state EXCEPT ![k0.current] = s],
         NEW r, r = Push(k, l, k.current), r.status = "ok"
  PROVE  GivenUp(k0, k, r, s, l)
<1> DEFINE S == SchedulerQueue
           t == k0.current
<1>1. /\ t \in Thread /\ t \in Link /\ S \in ThreadList /\ Thread \subseteq Link
      /\ l \in ThreadList \cup {NULL} /\ NULL \notin ThreadList
      /\ k0.state[t] = Running /\ k0.on[t] = S
  BY ListFacts, LinkFacts, ListAssumption DEF CurrentRuns, MayYield
<1>2. /\ Ready # Running /\ Ready # Waiting /\ Running # Waiting /\ Stopped # Waiting
      /\ Stopped # Ready /\ Stopped # Running
  BY DEF Ready, Running, Waiting, Stopped
<1>3. Lists(k) /\ \A m \in ThreadList : Reach(k, m) = Reach(k0, m) /\ Listed(k, m) = Listed(k0, m)
  <2>1. /\ k.next[NULL] = NULL /\ k.next[Sentinel] \in Ends
        /\ k.prio[Sentinel] = -1 /\ \A y \in Thread : k.prio[y] >= 0
    BY DEF Lists
  <2> QED BY <2>1, SameLists
<1>4. \A m \in ThreadList : t \notin Listed(k0, m)
  BY <1>1, <1>2 DEF Placed
<1>5. /\ k0.status = "ok" /\ r \in Sched /\ Lists(r)
      /\ r.prio = k0.prio /\ r.state = k.state /\ r.r0 = k.r0
      /\ r.next[Sentinel] = k0.next[Sentinel]
      /\ r.on = IF l = NULL THEN k0.on ELSE [k0.on EXCEPT ![t] = l]
      /\ \A m \in ThreadList :
           /\ m # l => r.head[m] = k0.head[m] /\ Listed(r, m) = Listed(k0, m)
           /\ m = l => Listed(r, m) = Listed(k0, m) \cup {t}
           /\ Sentinel \in Reach(r, m) <=> Sentinel \in Reach(k0, m)
  <2>1. CASE l = NULL
    <3>1. r = k
      BY <2>1 DEF Push
    <3> QED BY <1>1, <1>3, <2>1, <3>1
  <2>2. CASE l # NULL
    <3>1. Pushed(k, r, l, t)
      <4>1. l \in ThreadList /\ \A m \in ThreadList : t \notin Listed(k, m)
        BY <1>1, <1>3, <1>4, <2>2
      <4> QED BY <1>1, <1>3, <4>1, PushLists
    <3> QED BY <1>1, <1>3, <2>2, <3>1 DEF Pushed
  <2> QED BY <2>1, <2>2
<1>6. /\ \A y \in Thread : r.state[y] = IF y = t THEN s ELSE k0.state[y]
      /\ \A y \in Thread : r.on[y] = IF y = t /\ l # NULL THEN l ELSE k0.on[y]
  BY <1>1, <1>5 DEF Sched
<1>7. \A y \in Thread : y # t => k0.state[y] # Running
  BY DEF CurrentRuns
<1>8. Placed(r)
  <2>0. \A m \in ThreadList : Listed(k0, m) \subseteq Thread /\ Listed(r, m) \subseteq Thread
    BY <1>5, ReachFacts
  <2>1. ASSUME NEW m \in ThreadList, NEW y \in Listed(r, m) PROVE r.on[y] = m
    BY <1>1, <1>4, <1>5, <1>6, <2>0, <2>1 DEF Placed
  <2>2. ASSUME NEW y \in Thread PROVE r.state[y] = Ready <=> y \in Listed(r, S)
    <3>1. CASE y = t
      BY <1>1, <1>2, <1>4, <1>5, <1>6, <3>1 DEF MayYield
    <3>2. CASE y # t
      BY <1>1, <1>5, <1>6, <3>2 DEF Placed
    <3> QED BY <3>1, <3>2
  <2>3. ASSUME NEW m \in ThreadList \ {S}, NEW y \in Listed(r, m) PROVE r.state[y] = Waiting
    <3>1. CASE y = t
      BY <1>1, <1>2, <1>4, <1>5, <1>6, <2>3, <3>1 DEF MayYield
    <3>2. CASE y # t
      BY <1>5, <1>6, <2>0, <2>3, <3>2 DEF Placed
    <3> QED BY <3>1, <3>2
  <2>4. ASSUME NEW y \in Thread, r.state[y] = Waiting
        PROVE  r.on[y] # NULL /\ (r.on[y] # S => y \in Listed(r, r.on[y]))
    <3>1. CASE y = t
      BY <1>1, <1>2, <1>5, <1>6, <2>4, <3>1 DEF MayYield
    <3>2. CASE y # t
      <4>1. k0.on[y] \in ThreadList \cup {NULL}
        BY <1>1 DEF Sched
      <4> QED BY <1>5, <1>6, <2>4, <3>2, <4>1 DEF Placed
    <3> QED BY <3>1, <3>2
  <2> QED BY <2>1, <2>2, <2>3, <2>4 DEF Placed
<1>9. NobodyRuns(r)
  BY <1>1, <1>2, <1>6, <1>7 DEF NobodyRuns, MayYield
<1>10. WaitsOn(k0, r, l)
  <2>1. l \notin {S, NULL} => l \in ThreadList
    BY <1>1
  <2> QED BY <1>5, <1>6, <2>1 DEF WaitsOn
<1> QED BY <1>5, <1>8, <1>9, <1>10 DEF GivenUp

Settled(k) == Lists(k) /\ Placed(k) /\ CurrentRuns(k) /\ CurrentIsHighest(k)

(* r is k with the current thread given up, in state s, to the list l.      *)
Yielded(k, r, s, l) ==
  /\ r \in Sched /\ k.status = "ok" /\ Settled(r) /\ r.prio = k.prio
  /\ \A t \in Thread : Like(r.state[t], IF t = k.current THEN s ELSE k.state[t])
  /\ \A t \in Thread : t # k.current => r.r0[t] = k.r0[t]
  /\ WaitsOn(k, r, l)

LEMMA ScheduleYieldStatus ==
  ASSUME NEW k \in Sched, ScheduleYield(k).status = "ok"
  PROVE  k.status = "ok"
<1> DEFINE t  == HeadOf(k, SchedulerQueue)
           k0 == Pop(k, SchedulerQueue)
           k1 == [k0 EXCEPT !.current = t, !.state[t] = Running]
<1>1. k0 \in Sched /\ k0.status = k.status
  BY PopType, ListFacts DEF Pop, Sched
<1>2. k1.status = k.status
  <2> HIDE DEF k0, t
  <2> QED BY <1>1 DEF Sched
<1>3. Stop(k1, "lost").status = "ok" => k1.status = "ok"
  <2> HIDE DEF k1
  <2> QED BY DEF Stop
<1> QED BY <1>2, <1>3 DEF ScheduleYield

LEMMA YieldLists ==
  ASSUME NEW k \in Sched, Lists(k), Placed(k), CurrentRuns(k),
         NEW s, NEW l, MayYield(s, l),
         NEW r, r = YieldCurrentThread([k EXCEPT !.state[k.current] = s], l),
         r.status = "ok"
  PROVE  Yielded(k, r, s, l)
<1> DEFINE t == k.current
           v == IF l = NULL THEN Success ELSE ListPointer
           k1 == [k EXCEPT !.state[t] = s]
           k2 == [k1 EXCEPT !.r0[t] = v]
           k3 == Push(k2, l, t)
<1>1. t \in Thread /\ t \in Link /\ s \in States /\ v \in Returns
      /\ l \in ThreadList \cup {NULL} /\ Thread \subseteq Link
  BY ListFacts, LinkFacts DEF CurrentRuns, MayYield, States, Returns
<1>2. /\ k1 \in Sched /\ k1.head = k.head /\ k1.next = k.next /\ k1.prio = k.prio
      /\ k1.on = k.on /\ k1.current = t /\ k1.status = k.status
      /\ k1.state = [k.state EXCEPT ![t] = s] /\ k1.r0 = k.r0
  <2> HIDE DEF t
  <2> QED BY <1>1 DEF Sched, t
<1> HIDE DEF k1
<1>3. /\ k2 \in Sched /\ k2.head = k1.head /\ k2.next = k1.next /\ k2.prio = k1.prio
      /\ k2.on = k1.on /\ k2.current = k1.current /\ k2.status = k1.status
      /\ k2.state = k1.state /\ k2.r0 = [k1.r0 EXCEPT ![t] = v]
  <2> HIDE DEF t, v
  <2> QED BY <1>1, <1>2 DEF Sched
<1>4. r = ScheduleYield(k3)
  <2>1. k1.current = t
    BY <1>2
  <2> QED BY <2>1 DEF YieldCurrentThread, k1
<1> HIDE DEF k2, v
<1>5. k3 \in Sched
  BY <1>1, <1>3, PushType
<1>6. k3.status = "ok"
  <2>1. r.status = "ok" => k3.status = "ok"
    BY <1>4, <1>5, ScheduleYieldStatus
  <2> QED BY <2>1
<1>7. GivenUp(k, k2, k3, s, l)
  <2>1. k2.current = t /\ k2.head = k.head /\ k2.next = k.next /\ k2.prio = k.prio
        /\ k2.on = k.on /\ k2.status = k.status /\ k2.state = [k.state EXCEPT ![t] = s]
    BY <1>2, <1>3
  <2> QED BY <1>3, <1>6, <2>1, GiveUpLists
<1> HIDE DEF k3
<1>8. Dispatched(k3, r)
  BY <1>4, <1>5, <1>7, ScheduleYieldLists DEF GivenUp
<1>9. WaitsOn(k, r, l)
  <2>1. l \notin {SchedulerQueue, NULL} => l \in ThreadList \ {SchedulerQueue}
    BY <1>1
  <2>2. WaitsOn(k, k3, l) /\ SameWaits(k3, r) /\ r.on = k3.on
    BY <1>7, <1>8 DEF GivenUp, Dispatched
  <2> QED BY <2>1, <2>2 DEF WaitsOn, SameWaits
<1>10. \A y \in Thread : k3.state[y] = IF y = t THEN s ELSE k.state[y]
  BY <1>1, <1>7 DEF GivenUp, Sched
<1>11. \A y \in Thread : y # t => r.r0[y] = k.r0[y]
  BY <1>1, <1>2, <1>3, <1>7, <1>8 DEF GivenUp, Dispatched, Sched
<1> QED BY <1>7, <1>8, <1>9, <1>10, <1>11 DEF Yielded, GivenUp, Dispatched, Settled

(* r is k with the CPU passed to a ready thread of higher priority, if any. *)
Preempted(k, r) ==
  /\ r \in Sched /\ k.status = "ok" /\ Settled(r) /\ r.prio = k.prio
  /\ \A t \in Thread : r.on[t] = k.on[t] /\ Like(r.state[t], k.state[t])
  /\ \A t \in Thread : t # k.current => r.r0[t] = k.r0[t]
  /\ SameWaits(k, r)

LEMMA PreemptLists ==
  ASSUME NEW k \in Sched, Lists(k), Placed(k), CurrentRuns(k),
         NEW r, r = Preempt(k), r.status = "ok"
  PROVE  Preempted(k, r)
<1> DEFINE S == SchedulerQueue
<1>1. CASE k.prio[k.current] < k.prio[k.head[S]]
  <2>1. r = YieldCurrentThread([k EXCEPT !.state[k.current] = Ready], S)
    BY <1>1 DEF Preempt
  <2>2. MayYield(Ready, S)
    BY DEF MayYield
  <2>3. Yielded(k, r, Ready, S)
    BY <2>1, <2>2, YieldLists
  <2>4. SameWaits(k, r)
    BY <2>3 DEF Yielded, WaitsOn, SameWaits
  <2>5. \A t \in Thread : r.on[t] = k.on[t]
    BY <2>3, ListFacts, ListAssumption DEF Yielded, WaitsOn, CurrentRuns
  <2>6. \A t \in Thread : Like(r.state[t], k.state[t])
    BY <2>3 DEF Yielded, Like, CurrentRuns
  <2> QED BY <2>3, <2>4, <2>5, <2>6 DEF Yielded, Preempted
<1>2. CASE ~ (k.prio[k.current] < k.prio[k.head[S]])
  <2>1. r = k
    BY <1>2 DEF Preempt
  <2>2. k.current \in Link /\ k.head[S] \in Link /\ \A y \in Link : k.prio[y] \in Int
    BY ListFacts DEF Sched
  <2>3. CurrentIsHighest(k)
    BY <1>2, <2>2 DEF CurrentIsHighest
  <2>4. SameWaits(k, k) /\ \A t \in Thread : Like(k.state[t], k.state[t])
    BY DEF SameWaits, Like
  <2> QED BY <2>1, <2>3, <2>4 DEF Preempted, Settled
<1> QED BY <1>1, <1>2

(* A processor that has stopped stays stopped.                              *)
LEMMA PushStatus ==
  ASSUME NEW k \in Sched, NEW l \in ThreadList \cup {NULL}, NEW t \in Link,
         Push(k, l, t).status = "ok"
  PROVE  k.status = "ok"
<1> DEFINE C == Passed(k, t)
           found == Walk(k, l, C) \ C
           x == CHOOSE x \in found : TRUE
           w == Relink(k, l, C, x, t)
<1>1. CASE l = NULL \/ t = NULL
  BY <1>1 DEF Push
<1>2. CASE ~ (l = NULL \/ t = NULL) /\ found = {}
  <2>1. Push(k, l, t) = Stop(k, "hung")
    BY <1>2 DEF Push
  <2> QED BY <2>1 DEF Stop
<1>3. CASE ~ (l = NULL \/ t = NULL) /\ found # {}
  <2>1. x \in found /\ l \in ThreadList
    BY <1>3
  <2>2. x \in Walk(k, l, C)
    BY <2>1
  <2>3. Push(k, l, t) = [w EXCEPT !.on[t] = l, !.next[t] = x]
    BY <1>3 DEF Push
  <2>4. Relinked(k, w, l, C, x, t)
    <3> HIDE DEF C, x, found, w
    <3> QED BY <2>1, <2>2, RelinkFields DEF w
  <2> HIDE DEF w, x
  <2>5. [w EXCEPT !.on[t] = l, !.next[t] = x].status = w.status
    BY <2>4 DEF Relinked, Sched
  <2> QED BY <2>3, <2>4, <2>5 DEF Relinked
<1> QED BY <1>1, <1>2, <1>3

LEMMA RemoveStatus ==
  ASSUME NEW k \in Sched, NEW l \in ThreadList \cup {NULL}, NEW t \in Link,
         Remove(k, l, t).status = "ok"
  PROVE  k.status = "ok" /\ l # NULL
<1> DEFINE C == Link \ {t, NULL}
           found == Walk(k, l, C) \ C
           w == Relink(k, l, C, t, k.next[t])
<1>0. "fault" \in Statuses \ {"ok"} /\ "hung" \in Statuses \ {"ok"}
  BY DEF Statuses
<1>1. l # NULL /\ l \in ThreadList
  BY <1>0, StopFields DEF Remove
<1>2. Remove(k, l, t) \in {Stop(k, "hung"), w, k} /\ (Remove(k, l, t) = w => t \in found \/ w \in {Stop(k, "hung"), k})
  BY <1>1 DEF Remove
<1>3. Stop(k, "hung").status # "ok"
  BY <1>0, StopFields
<1>4. ASSUME t \in found PROVE w.status = k.status
  <2>1. t \in Walk(k, l, C) /\ k.next[t] \in Link
    BY <1>4 DEF Sched
  <2>2. Relinked(k, w, l, C, t, k.next[t])
    <3> HIDE DEF C, w
    <3> QED BY <1>1, <2>1, RelinkFields DEF w
  <2> QED BY <2>2 DEF Relinked
<1> QED BY <1>1, <1>2, <1>3, <1>4

LEMMA PreemptStatus ==
  ASSUME NEW k \in Sched, Preempt(k).status = "ok"
  PROVE  k.status = "ok"
<1> DEFINE S == SchedulerQueue
           k1 == [k EXCEPT !.state[k.current] = Ready]
           k2 == [k1 EXCEPT !.r0[k1.current] = IF S = NULL THEN Success ELSE ListPointer]
           k3 == Push(k2, S, k1.current)
<1>1. k1 \in Sched /\ k1.status = k.status
  BY DEF Sched, States
<1> HIDE DEF k1
<1>2. k2 \in Sched /\ k2.status = k1.status /\ k1.current \in Link
  BY <1>1 DEF Sched, Returns
<1>3. YieldCurrentThread(k1, S) = ScheduleYield(k3)
  BY DEF YieldCurrentThread
<1> HIDE DEF k2
<1>4. k3 \in Sched /\ (k3.status = "ok" => k2.status = "ok")
  BY <1>2, ListFacts, PushType, PushStatus
<1> HIDE DEF k3
<1>5. ScheduleYield(k3).status = "ok" => k3.status = "ok"
  BY <1>4, ScheduleYieldStatus
<1>6. Preempt(k) = YieldCurrentThread(k1, S) \/ Preempt(k) = k
  BY DEF Preempt, k1
<1> QED BY <1>1, <1>2, <1>3, <1>4, <1>5, <1>6

(* What a wake up leaves, whoever has the CPU after it.                     *)
Awakened(k, r, l, ret) ==
  /\ r \in Sched /\ k.status = "ok"
  /\ r.prio = k.prio
  /\ \A t \in Thread :
       /\ Like(r.state[t], IF t = k.head[l] THEN Ready ELSE k.state[t])
       /\ r.on[t] = IF t = k.head[l] THEN SchedulerQueue ELSE k.on[t]
       /\ t # k.current => r.r0[t] = IF t = k.head[l] THEN ret ELSE k.r0[t]
  /\ k.head[l] \in Thread => k.head[l] \in Listed(k, l)
  /\ k.head[l] = Sentinel \/ k.next[Sentinel] = Sentinel => r.next[Sentinel] = Sentinel
  /\ Listed(r, l) = Listed(k, l) \ {k.head[l]}
  /\ \A m \in ThreadList \ {l, SchedulerQueue} :
       r.head[m] = k.head[m] /\ Listed(r, m) = Listed(k, m)
  /\ \A m \in ThreadList \ {SchedulerQueue} :
       Sentinel \in Reach(k, m) /\ (m # l \/ k.next[Sentinel] = Sentinel)
         => Sentinel \in Reach(r, m)

LEMMA WakeHeadPlaced ==
  ASSUME NEW k \in Sched, Lists(k), Placed(k), NEW l \in ThreadList, l # SchedulerQueue,
         NEW ret, NEW r, Woke(k, r, l, ret)
  PROVE  /\ Placed(r) /\ Awakened(k, r, l, ret)
         /\ CurrentRuns(k) => CurrentRuns(r)
         /\ NobodyRuns(k) => NobodyRuns(r)
<1> DEFINE S == SchedulerQueue
           h == k.head[l]
<1>1. /\ S \in ThreadList /\ Thread \subseteq Link /\ h \in Link
      /\ Ready # Running /\ Ready # Waiting /\ Running # Waiting
  BY ListFacts, LinkFacts DEF Ready, Running, Waiting, Sched
<1>2. \A y \in Thread : r.state[y] = IF y = h THEN Ready ELSE k.state[y]
  BY <1>1 DEF Woke, Sched
<1>3. \A y \in Thread : r.on[y] = IF y = h THEN S ELSE k.on[y]
  BY DEF Woke
<1>4. \A m \in ThreadList : Listed(r, m) = IF m = l THEN Listed(k, l) \ {h}
                                        ELSE IF m = S THEN Listed(k, S) \cup ({h} \cap Thread)
                                        ELSE Listed(k, m)
  BY DEF Woke
<1>5. h \in Thread => h \in Listed(k, l) /\ k.state[h] = Waiting /\ k.on[h] = l
  BY DEF Woke, Placed
<1>6. \A m \in ThreadList : Listed(k, m) \subseteq Thread
  BY ReachFacts
<1>7. \A m \in ThreadList : m # l => h \notin Listed(k, m)
  BY <1>5, <1>6 DEF Lists
<1>8. Placed(r)
  <2>1. ASSUME NEW m \in ThreadList, NEW y \in Listed(r, m) PROVE r.on[y] = m
    BY <1>1, <1>3, <1>4, <1>6, <1>7, <2>1 DEF Placed
  <2>2. ASSUME NEW y \in Thread PROVE r.state[y] = Ready <=> y \in Listed(r, S)
    BY <1>1, <1>2, <1>4, <2>2 DEF Placed
  <2>3. ASSUME NEW m \in ThreadList \ {S}, NEW y \in Listed(r, m) PROVE r.state[y] = Waiting
    BY <1>2, <1>4, <1>6, <1>7, <2>3 DEF Placed
  <2>4. ASSUME NEW y \in Thread, r.state[y] = Waiting
        PROVE  r.on[y] # NULL /\ (r.on[y] # S => y \in Listed(r, r.on[y]))
    <3>1. y # h /\ k.state[y] = Waiting /\ r.on[y] = k.on[y] /\ k.on[y] \in ThreadList \cup {NULL}
      BY <1>1, <1>2, <1>3, <2>4 DEF Sched
    <3> QED BY <1>4, <3>1 DEF Placed
  <2> QED BY <2>1, <2>2, <2>3, <2>4 DEF Placed
<1>9. CurrentRuns(k) => CurrentRuns(r)
  BY <1>1, <1>2, <1>3, <1>5 DEF CurrentRuns, Woke
<1>10. NobodyRuns(k) => NobodyRuns(r)
  BY <1>1, <1>2 DEF NobodyRuns
<1>11. \A t \in Thread : r.r0[t] = IF t = h THEN ret ELSE k.r0[t]
  BY <1>1 DEF Woke, Sched
<1>12. Awakened(k, r, l, ret)
  <2>1. \A t \in Thread : Like(r.state[t], IF t = h THEN Ready ELSE k.state[t])
    BY <1>2 DEF Like
  <2> QED BY <1>3, <1>11, <2>1 DEF Awakened, Woke
<1> QED BY <1>8, <1>9, <1>10, <1>12

LEMMA UnblockLists ==
  ASSUME NEW k \in Sched, Settled(k), NEW l \in ThreadList, l # SchedulerQueue,
         NEW ret \in Returns, NEW r, r = UnblockThread(k, l, ret), r.status = "ok"
  PROVE  Awakened(k, r, l, ret) /\ Settled(r)
<1> DEFINE w == WakeHead(k, l, ret)
           S == SchedulerQueue
<1>1. w \in Sched /\ r = Preempt(w)
  BY WakeHeadType DEF UnblockThread
<1> HIDE DEF w
<1>2. w.status = "ok"
  BY <1>1, PreemptStatus
<1>3. Woke(k, w, l, ret)
  BY <1>2, WakeHeadLists DEF w, Settled
<1>4. Placed(w) /\ Awakened(k, w, l, ret) /\ CurrentRuns(w)
  BY <1>3, WakeHeadPlaced DEF Settled
<1>5. Lists(w) /\ w.current = k.current
  BY <1>3 DEF Woke
<1>6. Preempted(w, r)
  BY <1>1, <1>4, <1>5, PreemptLists
<1>7. ASSUME NEW t \in Thread
      PROVE  /\ Like(r.state[t], IF t = k.head[l] THEN Ready ELSE k.state[t])
             /\ r.on[t] = IF t = k.head[l] THEN S ELSE k.on[t]
             /\ t # k.current => r.r0[t] = IF t = k.head[l] THEN ret ELSE k.r0[t]
  BY <1>4, <1>5, <1>6 DEF Awakened, Preempted, Like
<1>8. SameWaits(w, r) /\ Settled(r) /\ r.prio = w.prio /\ r \in Sched
  BY <1>6 DEF Preempted
<1>9. Listed(r, l) = Listed(k, l) \ {k.head[l]}
  BY <1>4, <1>8 DEF Awakened, SameWaits
<1>10. \A m \in ThreadList \ {l, S} : r.head[m] = k.head[m] /\ Listed(r, m) = Listed(k, m)
  BY <1>4, <1>8 DEF Awakened, SameWaits
<1>11. \A m \in ThreadList \ {S} :
         Sentinel \in Reach(k, m) /\ (m # l \/ k.next[Sentinel] = Sentinel)
           => Sentinel \in Reach(r, m)
  BY <1>4, <1>8 DEF Awakened, SameWaits
<1>12. k.head[l] = Sentinel \/ k.next[Sentinel] = Sentinel => r.next[Sentinel] = Sentinel
  BY <1>4, <1>8 DEF Awakened, SameWaits
<1> QED BY <1>4, <1>7, <1>8, <1>9, <1>10, <1>11, <1>12 DEF Awakened

-----------------------------------------------------------------------------
(* What the thread calls do to the lists.                                   *)

Steady(k) == Lists(k) /\ Placed(k) /\ CurrentRuns(k)
OffLists == {Unset, Stopped, Dead}

LEMMA StateFacts ==
  /\ Ready # Running /\ Ready # Waiting /\ Running # Waiting
  /\ \A s \in OffLists : s # Ready /\ s # Running /\ s # Waiting
  /\ States = OffLists \cup {Ready, Running, Waiting}
BY DEF OffLists, States, Unset, Ready, Running, Stopped, Waiting, Dead

LEMMA OffListsUnlisted ==
  ASSUME NEW k \in Sched, Placed(k), NEW u \in Thread, k.state[u] \notin {Ready, Waiting}
  PROVE  \A l \in ThreadList : u \notin Listed(k, l)
BY DEF Placed

LEMMA CurrentUnlisted ==
  ASSUME NEW k \in Sched, Placed(k), CurrentRuns(k)
  PROVE  \A l \in ThreadList : k.current \notin Listed(k, l)
BY StateFacts DEF Placed, CurrentRuns

(* A thread that is on no list may be changed at will, as long as it stays  *)
(* off the lists.                                                           *)
LEMMA SetUnlisted ==
  ASSUME NEW k \in Sched, Steady(k), NEW u \in Thread, k.state[u] \in OffLists,
         NEW r \in Sched, r.head = k.head, r.current = k.current,
         r.state[u] \in OffLists, r.prio[u] >= 0,
         \A y \in Link : y # u => /\ r.next[y] = k.next[y] /\ r.prio[y] = k.prio[y]
                                  /\ r.on[y] = k.on[y] /\ r.state[y] = k.state[y]
  PROVE  /\ Steady(r) /\ SameWaits(k, r)
         /\ CurrentIsHighest(k) => CurrentIsHighest(r)
<1> DEFINE S == SchedulerQueue
<1>1. /\ S \in ThreadList /\ Thread \subseteq Link /\ Sentinel \in Link /\ NULL \in Link
      /\ u # Sentinel /\ u # NULL
  BY ListFacts, LinkFacts
<1>2. k.state[u] \notin {Ready, Waiting, Running} /\ r.state[u] \notin {Ready, Waiting, Running}
  BY StateFacts
<1>3. \A l \in ThreadList : u \notin Listed(k, l) /\ Listed(k, l) \subseteq Thread
  BY <1>2, OffListsUnlisted, ReachFacts DEF Steady
<1>4. /\ Lists(r)
      /\ \A l \in ThreadList : Reach(r, l) = Reach(k, l) /\ Listed(r, l) = Listed(k, l)
  <2>1. \A l \in ThreadList : \A y \in Listed(k, l) :
          r.next[y] = k.next[y] /\ r.prio[y] = k.prio[y]
    BY <1>1, <1>3
  <2>2. /\ r.next[NULL] = NULL /\ r.next[Sentinel] \in Ends
        /\ r.prio[Sentinel] = -1 /\ \A y \in Thread : r.prio[y] >= 0
    BY <1>1 DEF Lists, Steady
  <2> QED BY <2>1, <2>2, SameLists DEF Steady
<1>5. Placed(r)
  <2>1. \A l \in ThreadList : \A y \in Listed(r, l) : r.on[y] = l
    BY <1>1, <1>3, <1>4 DEF Placed, Steady
  <2>2. \A y \in Thread : r.state[y] = Ready <=> y \in Listed(r, S)
    BY <1>1, <1>2, <1>3, <1>4 DEF Placed, Steady
  <2>3. \A l \in ThreadList \ {S} : \A y \in Listed(r, l) : r.state[y] = Waiting
    BY <1>1, <1>3, <1>4 DEF Placed, Steady
  <2>4. ASSUME NEW y \in Thread, r.state[y] = Waiting
        PROVE  r.on[y] # NULL /\ (r.on[y] # S => y \in Listed(r, r.on[y]))
    <3>1. y # u /\ y \in Link
      BY <1>1, <1>2, <2>4
    <3>2. k.state[y] = Waiting /\ r.on[y] = k.on[y] /\ k.on[y] \in ThreadList \cup {NULL}
      BY <2>4, <3>1 DEF Sched
    <3> QED BY <1>4, <3>2 DEF Placed, Steady
  <2> QED BY <2>1, <2>2, <2>3, <2>4 DEF Placed
<1>6. CurrentRuns(r)
  BY <1>1, <1>2 DEF CurrentRuns, Steady
<1>7. SameWaits(k, r)
  BY <1>1, <1>4 DEF SameWaits
<1>8. r.prio[r.head[S]] = k.prio[k.head[S]] /\ r.prio[r.current] = k.prio[k.current]
  <2>1. k.head[S] \in Link /\ k.head[S] # u
    <3>1. k.head[S] \in Link /\ k.head[S] \in Reach(k, S)
      BY <1>1, ReachFacts DEF Sched
    <3> QED BY <1>1, <1>3, <3>1 DEF Listed
  <2>2. k.current \in Link /\ k.current # u
    BY <1>1, <1>2 DEF Steady, CurrentRuns
  <2> QED BY <2>1, <2>2
<1> QED BY <1>4, <1>5, <1>6, <1>7, <1>8 DEF Steady, CurrentIsHighest

Made(k, r, u) ==
  /\ r \in Sched /\ Steady(r) /\ SameWaits(k, r) /\ r.status = k.status
  /\ CurrentIsHighest(k) => CurrentIsHighest(r)
  /\ r.state = [k.state EXCEPT ![u] = Stopped] /\ r.on = [k.on EXCEPT ![u] = NULL]
  /\ r.r0 = k.r0 /\ r.current = k.current

LEMMA CreatedLists ==
  ASSUME NEW k \in Sched, Steady(k), NEW u \in Thread, k.state[u] = Unset,
         NEW p \in Nat, NEW detached \in BOOLEAN, NEW pid \in Nat,
         NEW r, r = Created(k, u, p, detached, pid)
  PROVE  Made(k, r, u)
<1>1. u \in Link /\ NULL \in Link /\ p \in Int
  BY LinkFacts
<1>2. /\ r \in Sched /\ r.status = k.status /\ r.head = k.head
      /\ r.state = [k.state EXCEPT ![u] = Stopped] /\ r.on = [k.on EXCEPT ![u] = NULL]
      /\ r.r0 = k.r0 /\ r.current = k.current
      /\ r.next = [k.next EXCEPT ![u] = NULL] /\ r.prio = [k.prio EXCEPT ![u] = p]
  <2>1. r \in Sched
    BY <1>1, CreatedType
  <2> QED BY <1>1, <2>1 DEF Created, Sched
<1>3. \A y \in Link : y # u => /\ r.next[y] = k.next[y] /\ r.prio[y] = k.prio[y]
                               /\ r.on[y] = k.on[y] /\ r.state[y] = k.state[y]
  BY <1>1, <1>2 DEF Sched
<1>4. k.state[u] \in OffLists /\ r.state[u] \in OffLists /\ r.prio[u] >= 0
  BY <1>1, <1>2 DEF Sched, OffLists
<1>5. /\ Steady(r) /\ SameWaits(k, r)
      /\ CurrentIsHighest(k) => CurrentIsHighest(r)
  <2>1. r \in Sched /\ r.head = k.head /\ r.current = k.current
    BY <1>2
  <2> QED BY <1>3, <1>4, <2>1, SetUnlisted
<1> QED BY <1>2, <1>5 DEF Made

(* The lists of r are those of k but for the thread u put on l.             *)
PutBack(k, r, u, s, l) ==
  /\ r \in Sched /\ k.status = "ok" /\ r.prio = k.prio
  /\ r.next[Sentinel] = k.next[Sentinel]
  /\ \A t \in Thread : /\ Like(r.state[t], IF t = u THEN s ELSE k.state[t])
                       /\ r.on[t] = IF t = u THEN l ELSE k.on[t]
                       /\ t # k.current => r.r0[t] = k.r0[t]
  /\ \A m \in ThreadList \ {SchedulerQueue} :
       Sentinel \in Reach(r, m) <=> Sentinel \in Reach(k, m)
  /\ \A m \in ThreadList \ {SchedulerQueue, l} :
       r.head[m] = k.head[m] /\ Listed(r, m) = Listed(k, m)

MayStart(s, l) ==
  \/ s = Ready /\ l = SchedulerQueue
  \/ s = Waiting /\ l \in ThreadList \ {SchedulerQueue}

LEMMA PutBackLists ==
  ASSUME NEW k \in Sched, Steady(k), NEW u \in Thread, k.state[u] = Stopped,
         NEW s, NEW l, MayStart(s, l),
         NEW r, r = Push([k EXCEPT !.state[u] = s], l, u), r.status = "ok"
  PROVE  Steady(r) /\ PutBack(k, r, u, s, l) /\ r.current = k.current
<1> DEFINE S == SchedulerQueue
           k1 == [k EXCEPT !.state[u] = s]
<1>1. /\ S \in ThreadList /\ Thread \subseteq Link /\ u \in Link
      /\ l \in ThreadList /\ NULL \notin ThreadList /\ s \in States
  BY ListFacts, LinkFacts, ListAssumption DEF MayStart, States
<1>2. /\ k1 \in Sched /\ k1.head = k.head /\ k1.next = k.next /\ k1.prio = k.prio
      /\ k1.on = k.on /\ k1.current = k.current /\ k1.status = k.status /\ k1.r0 = k.r0
      /\ k1.state = [k.state EXCEPT ![u] = s]
  BY <1>1 DEF Sched
<1>3. r = Push(k1, l, u)
  OBVIOUS
<1> HIDE DEF k1
<1>4. Lists(k1) /\ \A m \in ThreadList : Reach(k1, m) = Reach(k, m) /\ Listed(k1, m) = Listed(k, m)
  <2>1. /\ k1.next[NULL] = NULL /\ k1.next[Sentinel] \in Ends
        /\ k1.prio[Sentinel] = -1 /\ \A y \in Thread : k1.prio[y] >= 0
    BY <1>2 DEF Lists, Steady
  <2> QED BY <1>2, <2>1, SameLists DEF Steady
<1>5. k.state[u] \notin {Ready, Waiting, Running}
  BY DEF Stopped, Ready, Waiting, Running
<1>6. \A m \in ThreadList : u \notin Listed(k, m)
  BY <1>5, OffListsUnlisted DEF Steady
<1>7. Pushed(k1, r, l, u)
  BY <1>1, <1>2, <1>3, <1>4, <1>6, PushLists
<1>8. /\ r \in Sched /\ k.status = "ok" /\ Lists(r) /\ r.prio = k.prio /\ r.r0 = k.r0
      /\ r.current = k.current /\ r.next[Sentinel] = k.next[Sentinel]
      /\ \A m \in ThreadList :
           /\ m # l => r.head[m] = k.head[m] /\ Listed(r, m) = Listed(k, m)
           /\ m = l => Listed(r, m) = Listed(k, m) \cup {u}
           /\ Sentinel \in Reach(r, m) <=> Sentinel \in Reach(k, m)
  BY <1>2, <1>4, <1>7 DEF Pushed
<1>9. \A y \in Thread : /\ r.state[y] = IF y = u THEN s ELSE k.state[y]
                        /\ r.on[y] = IF y = u THEN l ELSE k.on[y]
  <2>1. r.state = [k.state EXCEPT ![u] = s] /\ r.on = [k.on EXCEPT ![u] = l]
    BY <1>2, <1>7 DEF Pushed
  <2> QED BY <1>1, <2>1 DEF Sched
<1>10. Placed(r)
  <2>0. \A m \in ThreadList : Listed(k, m) \subseteq Thread /\ Listed(r, m) \subseteq Thread
    BY <1>8, ReachFacts
  <2>1. ASSUME NEW m \in ThreadList, NEW y \in Listed(r, m) PROVE r.on[y] = m
    BY <1>6, <1>8, <1>9, <2>0, <2>1 DEF Placed, Steady
  <2>2. ASSUME NEW y \in Thread PROVE r.state[y] = Ready <=> y \in Listed(r, S)
    <3>1. CASE y = u
      BY <1>1, <1>6, <1>8, <1>9, <3>1, StateFacts DEF MayStart
    <3>2. CASE y # u
      BY <1>1, <1>8, <1>9, <3>2 DEF Placed, Steady
    <3> QED BY <3>1, <3>2
  <2>3. ASSUME NEW m \in ThreadList \ {S}, NEW y \in Listed(r, m) PROVE r.state[y] = Waiting
    <3>1. CASE y = u
      BY <1>1, <1>6, <1>8, <1>9, <2>3, <3>1, StateFacts DEF MayStart
    <3>2. CASE y # u
      BY <1>8, <1>9, <2>0, <2>3, <3>2 DEF Placed, Steady
    <3> QED BY <3>1, <3>2
  <2>4. ASSUME NEW y \in Thread, r.state[y] = Waiting
        PROVE  r.on[y] # NULL /\ (r.on[y] # S => y \in Listed(r, r.on[y]))
    <3>1. CASE y = u
      BY <1>1, <1>8, <1>9, <2>4, <3>1 DEF MayStart
    <3>2. CASE y # u
      <4>1. k.on[y] \in ThreadList \cup {NULL}
        BY <1>1 DEF Sched
      <4> QED BY <1>8, <1>9, <2>4, <3>2, <4>1 DEF Placed, Steady
    <3> QED BY <3>1, <3>2
  <2> QED BY <2>1, <2>2, <2>3, <2>4 DEF Placed
<1>11. CurrentRuns(r)
  BY <1>5, <1>8, <1>9, StateFacts DEF CurrentRuns, Steady, MayStart
<1>12. PutBack(k, r, u, s, l)
  BY <1>8, <1>9 DEF PutBack, Like
<1> QED BY <1>8, <1>10, <1>11, <1>12 DEF Steady

(* A started thread is ready, or waits again where it waited.               *)
LEMMA StartedLists ==
  ASSUME NEW k \in Sched, Steady(k), NEW u \in Thread, k.state[u] = Stopped,
         NEW r, r = Started(k, u), r.status = "ok",
         NEW s, NEW l,
         k.on[u] \in {NULL, SchedulerQueue} => s = Ready /\ l = SchedulerQueue,
         k.on[u] \notin {NULL, SchedulerQueue} => s = Waiting /\ l = k.on[u]
  PROVE  Settled(r) /\ PutBack(k, r, u, s, l)
<1> DEFINE w == Push([k EXCEPT !.state[u] = s], l, u)
<1>1. MayStart(s, l)
  <2>1. k.on[u] \in ThreadList \cup {NULL}
    BY LinkFacts DEF Sched
  <2> QED BY <2>1 DEF MayStart
<1>2. r = Preempt(w)
  BY DEF Started
<1>3. w \in Sched
  <2>1. /\ [k EXCEPT !.state[u] = s] \in Sched
        /\ u \in Link /\ l \in ThreadList
    BY <1>1, LinkFacts, ListFacts, SMTT(60) DEF Sched, States, MayStart
  <2> QED BY <2>1, PushType
<1> HIDE DEF w
<1>4. w.status = "ok"
  BY <1>2, <1>3, PreemptStatus
<1>5. Steady(w) /\ PutBack(k, w, u, s, l) /\ w.current = k.current
  BY <1>1, <1>4, PutBackLists DEF w
<1>6. Preempted(w, r)
  BY <1>2, <1>3, <1>5, PreemptLists DEF Steady
<1>7. \A t \in Thread : /\ Like(r.state[t], IF t = u THEN s ELSE k.state[t])
                        /\ r.on[t] = IF t = u THEN l ELSE k.on[t]
                        /\ t # k.current => r.r0[t] = k.r0[t]
  BY <1>5, <1>6 DEF PutBack, Preempted, Like
<1>8. SameWaits(w, r) /\ Settled(r) /\ r \in Sched /\ r.prio = w.prio
  BY <1>6 DEF Preempted
<1>9. PutBack(k, r, u, s, l)
  BY <1>5, <1>7, <1>8 DEF PutBack, SameWaits
<1> QED BY <1>8, <1>9

(* Whoever was highest stays so when the scheduler's list only loses.       *)
LEMMA StillHighest ==
  ASSUME NEW k \in Sched, NEW r \in Sched, Lists(k), Lists(r), CurrentRuns(k),
         r.prio = k.prio, r.current = k.current, CurrentIsHighest(k),
         Listed(r, SchedulerQueue) \subseteq Listed(k, SchedulerQueue)
  PROVE  CurrentIsHighest(r)
<1> DEFINE S == SchedulerQueue
           h == r.head[S]
<1>1. /\ S \in ThreadList /\ h \in Link /\ k.head[S] \in Link /\ k.current \in Thread
      /\ k.current \in Link /\ \A y \in Link : k.prio[y] \in Int
  BY ListFacts, LinkFacts DEF Sched, CurrentRuns
<1>2. CASE h \in Thread
  <2>1. h \in Listed(k, S)
    BY <1>1, <1>2, ReachFacts DEF Listed
  <2>2. k.prio[h] <= k.prio[k.head[S]]
    BY <1>1, <2>1, HeadIsHighest DEF Lists
  <2> QED BY <1>1, <2>2 DEF CurrentIsHighest
<1>3. CASE h \notin Thread
  <2>1. h \in Reach(r, S) /\ h \in Ends
    BY <1>1, <1>3, ReachFacts DEF Listed
  <2>2. h = Sentinel
    BY <1>1, <2>1, LinkFacts DEF Lists, Chain
  <2>3. k.prio[k.current] >= 0 /\ r.prio[h] = -1
    BY <1>1, <2>2 DEF Lists
  <2> QED BY <1>1, <2>3 DEF CurrentIsHighest
<1> QED BY <1>2, <1>3

(* r is k with the thread u off the list l, and out of the running.         *)
TakenOff(k, r, u, l, s) ==
  /\ r \in Sched /\ k.status = "ok" /\ Steady(r)
  /\ CurrentIsHighest(k) => CurrentIsHighest(r)
  /\ r.prio = k.prio /\ r.current = k.current /\ r.on = k.on
  /\ r.state = [k.state EXCEPT ![u] = s]
  /\ r.next[Sentinel] = k.next[Sentinel]
  /\ \A m \in ThreadList : Sentinel \in Reach(r, m) <=> Sentinel \in Reach(k, m)
  /\ \A m \in ThreadList \ {l} : r.head[m] = k.head[m] /\ Listed(r, m) = Listed(k, m)

LEMMA TakenOffLists ==
  ASSUME NEW k \in Sched, Steady(k), NEW l \in ThreadList, NEW u \in Listed(k, l),
         NEW k1, k1.prio = k.prio, k1.status = k.status,
         NEW w, Removed(k, k1, w, l, u),
         NEW s \in OffLists,
         NEW r \in Sched, r.head = w.head, r.next = w.next, r.prio = k.prio,
         r.on = k.on, r.current = k.current, r.state = [k.state EXCEPT ![u] = s]
  PROVE  TakenOff(k, r, u, l, s)
<1> DEFINE S == SchedulerQueue
<1>1. S \in ThreadList /\ Thread \subseteq Link /\ u \in Thread /\ u \in Link
  BY ListFacts, LinkFacts, ReachFacts
<1>2. Lists(r) /\ \A m \in ThreadList : Reach(r, m) = Reach(w, m) /\ Listed(r, m) = Listed(w, m)
  <2>1. w \in Sched /\ Lists(w) /\ r.prio = w.prio
    BY DEF Removed
  <2>2. /\ r.next[NULL] = NULL /\ r.next[Sentinel] \in Ends
        /\ r.prio[Sentinel] = -1 /\ \A y \in Thread : r.prio[y] >= 0
    BY <2>1 DEF Lists
  <2> QED BY <2>1, <2>2, SameLists
<1>3. /\ r.next[Sentinel] = k.next[Sentinel] /\ k.status = "ok"
      /\ Listed(r, l) = Listed(k, l) \ {u}
      /\ \A m \in ThreadList : Sentinel \in Reach(r, m) <=> Sentinel \in Reach(k, m)
      /\ \A m \in ThreadList \ {l} : r.head[m] = k.head[m] /\ Listed(r, m) = Listed(k, m)
  BY <1>2 DEF Removed
<1>4. \A y \in Thread : r.state[y] = IF y = u THEN s ELSE k.state[y]
  BY <1>1 DEF Sched
<1>5. s \notin {Ready, Running, Waiting} /\ k.state[u] \in {Ready, Waiting}
      /\ u # k.current
  BY StateFacts, CurrentUnlisted, <1>1 DEF Steady, Placed
<1>6. \A m \in ThreadList : Listed(k, m) \subseteq Thread /\ (m # l => u \notin Listed(k, m))
  BY ReachFacts DEF Steady, Lists
<1>7. Placed(r)
  <2>1. \A m \in ThreadList : \A y \in Listed(r, m) : r.on[y] = m
    BY <1>3 DEF Placed, Steady
  <2>2. \A y \in Thread : r.state[y] = Ready <=> y \in Listed(r, S)
    BY <1>1, <1>3, <1>4, <1>5, <1>6 DEF Placed, Steady
  <2>3. \A m \in ThreadList \ {S} : \A y \in Listed(r, m) : r.state[y] = Waiting
    BY <1>3, <1>4, <1>6 DEF Placed, Steady
  <2>4. ASSUME NEW y \in Thread, r.state[y] = Waiting
        PROVE  r.on[y] # NULL /\ (r.on[y] # S => y \in Listed(r, r.on[y]))
    <3>1. y # u /\ k.state[y] = Waiting /\ k.on[y] \in ThreadList \cup {NULL}
      BY <1>1, <1>4, <1>5, <2>4 DEF Sched
    <3> QED BY <1>3, <3>1 DEF Placed, Steady
  <2> QED BY <2>1, <2>2, <2>3, <2>4 DEF Placed
<1>8. CurrentRuns(r)
  BY <1>4, <1>5 DEF CurrentRuns, Steady
<1>9. CurrentIsHighest(k) => CurrentIsHighest(r)
  <2>1. Listed(r, S) \subseteq Listed(k, S)
    BY <1>1, <1>3
  <2> QED BY <1>2, <2>1, StillHighest DEF Steady
<1> QED BY <1>2, <1>3, <1>7, <1>8, <1>9 DEF TakenOff, Steady

(* CancelThread and SuspendThread of another thread.                        *)
LEMMA CancelledLists ==
  ASSUME NEW k \in Sched, Steady(k), k.next[Sentinel] = Sentinel, NEW u \in Thread,
         k.state[u] # Stopped, NEW w, w = Remove(k, SchedulerQueue, u), w.status = "ok"
  PROVE  /\ k.state[u] = Ready /\ u \in Listed(k, SchedulerQueue)
         /\ Removed(k, k, w, SchedulerQueue, u)
<1>1. SchedulerQueue \in ThreadList /\ Lists(k) /\ k.prio[u] >= 0
      /\ Sentinel \in Reach(k, SchedulerQueue)
  BY ListFacts DEF Steady, Lists
<1>2. /\ u \in Listed(k, SchedulerQueue) => Removed(k, k, w, SchedulerQueue, u)
      /\ Sentinel \in Reach(k, SchedulerQueue) /\ k.next[Sentinel] = Sentinel
           => u \in Listed(k, SchedulerQueue)
  BY <1>1, RemoveLists
<1> QED BY <1>1, <1>2 DEF Steady, Placed

LEMMA SuspendedLists ==
  ASSUME NEW k \in Sched, Steady(k), k.next[Sentinel] = Sentinel, NEW u \in Thread,
         k.state[u] \in {Ready, Waiting},
         NEW r, r = Remove([k EXCEPT !.state[u] = Stopped], k.on[u], u), r.status = "ok"
  PROVE  /\ k.on[u] \in ThreadList /\ u \in Listed(k, k.on[u])
         /\ TakenOff(k, r, u, k.on[u], Stopped) /\ r.r0 = k.r0
<1> DEFINE k1 == [k EXCEPT !.state[u] = Stopped]
           l == k.on[u]
<1>1. u \in Link /\ k.on[u] \in ThreadList \cup {NULL} /\ SchedulerQueue \in ThreadList
      /\ Stopped \in OffLists
  BY LinkFacts, ListFacts DEF Sched, OffLists
<1>2. /\ k1 \in Sched /\ k1.head = k.head /\ k1.next = k.next /\ k1.prio = k.prio
      /\ k1.on = k.on /\ k1.current = k.current /\ k1.status = k.status /\ k1.r0 = k.r0
      /\ k1.state = [k.state EXCEPT ![u] = Stopped]
  BY <1>1 DEF Sched, States
<1>3. r = Remove(k1, l, u)
  OBVIOUS
<1> HIDE DEF k1
<1>4. l \in ThreadList /\ k1.status = "ok"
  BY <1>1, <1>2, <1>3, RemoveStatus
<1>5. Lists(k) /\ k1.prio[u] >= 0 /\ \A y \in Link : y # u => k1.prio[y] = k.prio[y]
  BY <1>2 DEF Steady, Lists
<1>6. /\ u \in Listed(k, l) => Removed(k, k1, r, l, u)
      /\ Sentinel \in Reach(k, l) /\ k.next[Sentinel] = Sentinel => u \in Listed(k, l)
  BY <1>2, <1>3, <1>4, <1>5, RemoveLists
<1>7. u \in Listed(k, l)
  <2>1. CASE k.state[u] = Ready
    BY <1>1, <2>1 DEF Steady, Placed
  <2>2. CASE l = SchedulerQueue
    BY <1>5, <1>6, <2>2 DEF Lists
  <2>3. CASE k.state[u] = Waiting /\ l # SchedulerQueue
    BY <2>3 DEF Steady, Placed
  <2> QED BY <2>1, <2>2, <2>3
<1>8. r \in Sched /\ r.prio = k.prio /\ r.on = k.on /\ r.current = k.current /\ r.r0 = k.r0
      /\ r.state = [k.state EXCEPT ![u] = Stopped]
  BY <1>2, <1>6, <1>7 DEF Removed
<1>9. TakenOff(k, r, u, l, Stopped)
  BY <1>1, <1>2, <1>4, <1>6, <1>7, <1>8, TakenOffLists
<1> QED BY <1>4, <1>7, <1>8, <1>9

(* The same threads on the same lists, in whatever order.                   *)
LEMMA SamePlacement ==
  ASSUME NEW k \in Sched, Steady(k), NEW r \in Sched, Lists(r),
         \A l \in ThreadList : Listed(r, l) = Listed(k, l),
         r.state = k.state, r.on = k.on, r.current = k.current
  PROVE  Steady(r)
<1>1. Placed(r)
  <2>1. ASSUME NEW t \in Thread, r.state[t] = Waiting
        PROVE  r.on[t] # NULL /\ (r.on[t] # SchedulerQueue => t \in Listed(r, r.on[t]))
    <3>1. k.on[t] \in ThreadList \cup {NULL}
      BY LinkFacts DEF Sched
    <3> QED BY <2>1, <3>1 DEF Placed, Steady
  <2>2. \A l \in ThreadList : \A t \in Listed(r, l) : r.on[t] = l
    BY DEF Placed, Steady
  <2>3. \A t \in Thread : r.state[t] = Ready <=> t \in Listed(r, SchedulerQueue)
    BY ListFacts DEF Placed, Steady
  <2>4. \A l \in ThreadList \ {SchedulerQueue} : \A t \in Listed(r, l) : r.state[t] = Waiting
    BY DEF Placed, Steady
  <2> QED BY <2>1, <2>2, <2>3, <2>4 DEF Placed
<1>2. CurrentRuns(r)
  BY DEF CurrentRuns, Steady
<1> QED BY <1>1, <1>2 DEF Steady

(* r is k without the thread u, which was ready or stopped.                 *)
Cancelled(k, r, u) ==
  /\ r \in Sched /\ k.status = "ok" /\ Settled(r)
  /\ u # k.current /\ k.state[u] \in {Stopped, Ready} /\ r.state[u] \in {Unset, Dead}
  /\ \A t \in Thread : /\ t # u => Like(r.state[t], k.state[t])
                       /\ r.on[t] = k.on[t]
                       /\ t # k.current => r.r0[t] = k.r0[t]
  /\ SameWaits(k, r)

(* k1 is k with u off the scheduler's list; k2 is k1 with u gone.           *)
Off(k, k1, u) ==
  \/ k.state[u] = Stopped /\ k1 = k
  \/ k.state[u] = Ready /\ u \in Listed(k, SchedulerQueue)
       /\ Removed(k, k, k1, SchedulerQueue, u)
Gone(k1, k2, u, s, t) ==
  /\ k2 \in Sched /\ k2.head = k1.head /\ k2.next = k1.next /\ k2.prio = k1.prio
  /\ k2.on = k1.on /\ k2.current = k1.current /\ k2.status = k1.status
  /\ k2.state = [k1.state EXCEPT ![u] = s]
  /\ k2.r0 = [k1.r0 EXCEPT ![t] = Success]

LEMMA CancelStep ==
  ASSUME NEW k \in Sched, Settled(k), NEW u \in Thread, u # k.current, NEW s \in {Unset, Dead},
         NEW k1 \in Sched, k1.status = "ok",
         Off(k, k1, u), NEW k2, Gone(k1, k2, u, s, k.current),
         NEW r, r = Preempt(k2), r.status = "ok"
  PROVE  Cancelled(k, r, u)
<1>1. /\ u \in Link /\ SchedulerQueue \in ThreadList /\ k.current \in Thread
      /\ k.current \in Link /\ Thread \subseteq Link
      /\ Steady(k) /\ s \in OffLists
  BY LinkFacts, ListFacts DEF Settled, Steady, CurrentRuns, OffLists
<1>2. /\ Steady(k2) /\ SameWaits(k, k2) /\ k.status = "ok" /\ k2.on = k.on
      /\ k2.current = k.current /\ k2 \in Sched /\ k.state[u] \in {Stopped, Ready}
      /\ \A t \in Thread : k2.state[t] = IF t = u THEN s ELSE k.state[t]
      /\ \A t \in Thread : t # k.current => k2.r0[t] = k.r0[t]
  <2>1. CASE k.state[u] = Stopped /\ k1 = k
    <3>1. k.state[u] \in OffLists /\ k2.state[u] \in OffLists /\ k2.prio[u] >= 0
      BY <1>1, <2>1 DEF OffLists, Sched, Steady, Lists, Gone
    <3>2. \A y \in Link : y # u => /\ k2.next[y] = k.next[y] /\ k2.prio[y] = k.prio[y]
                                   /\ k2.on[y] = k.on[y] /\ k2.state[y] = k.state[y]
      BY <1>1, <2>1 DEF Sched, Gone
    <3>3. k2 \in Sched /\ k2.head = k.head /\ k2.current = k.current
      BY <2>1 DEF Gone
    <3>4. Steady(k2) /\ SameWaits(k, k2)
      BY <1>1, <3>1, <3>2, <3>3, SetUnlisted
    <3> QED BY <1>1, <2>1, <3>4 DEF Sched, Gone
  <2>2. CASE k.state[u] = Ready /\ u \in Listed(k, SchedulerQueue)
               /\ Removed(k, k, k1, SchedulerQueue, u)
    <3>1. k1.prio = k.prio /\ k1.state = k.state /\ k1.r0 = k.r0 /\ k1.current = k.current
          /\ k1.on = k.on
      BY <2>2 DEF Removed
    <3>2. /\ k2 \in Sched /\ k2.prio = k.prio /\ k2.on = k.on /\ k2.head = k1.head
          /\ k2.next = k1.next
          /\ k2.current = k.current /\ k2.state = [k.state EXCEPT ![u] = s]
      BY <3>1 DEF Gone
    <3>3. TakenOff(k, k2, u, SchedulerQueue, s)
      BY <1>1, <2>2, <3>2, TakenOffLists
    <3>4. SameWaits(k, k2)
      BY <3>3 DEF TakenOff, SameWaits
    <3>5. \A t \in Thread : t # k.current => k2.r0[t] = k.r0[t]
      BY <1>1, <3>1 DEF Gone, Sched
    <3>6. \A t \in Thread : k2.state[t] = IF t = u THEN s ELSE k.state[t]
      BY <1>1, <3>2 DEF Sched
    <3> QED BY <2>2, <3>2, <3>3, <3>4, <3>5, <3>6 DEF TakenOff
  <2> QED BY <2>1, <2>2 DEF Off
<1>3. Preempted(k2, r)
  BY <1>2, PreemptLists DEF Steady
<1>4. /\ r \in Sched /\ Settled(r)
      /\ \A t \in Thread : /\ Like(r.state[t], k2.state[t]) /\ r.on[t] = k2.on[t]
                           /\ t # k2.current => r.r0[t] = k2.r0[t]
      /\ SameWaits(k2, r)
  BY <1>3 DEF Preempted
<1>5. r.state[u] \in {Unset, Dead}
  BY <1>2, <1>4 DEF Like, Unset, Dead, Ready, Running
<1>6. \A t \in Thread : /\ t # u => Like(r.state[t], k.state[t])
                        /\ r.on[t] = k.on[t]
                        /\ t # k.current => r.r0[t] = k.r0[t]
  <2> TAKE t \in Thread
  <2>1. t # u => k2.state[t] = k.state[t]
    BY <1>2
  <2> QED BY <1>2, <1>4, <2>1
<1>7. SameWaits(k, r)
  BY <1>2, <1>4 DEF SameWaits
<1> QED BY <1>2, <1>4, <1>5, <1>6, <1>7 DEF Cancelled

CutShort(k, u, k1, k2) ==
  /\ k1 = IF k.state[u] = Stopped THEN k ELSE Remove(k, SchedulerQueue, u)
  /\ k2 = [k1 EXCEPT !.state[u] = IF k1.detached[u] THEN Unset ELSE Dead,
                     !.r0[k.current] = Success]

LEMMA CancelLists ==
  ASSUME NEW k \in Sched, Settled(k), k.next[Sentinel] = Sentinel, NEW u \in Thread,
         NEW k1, NEW k2, CutShort(k, u, k1, k2),
         NEW r, r = IF u = k.current THEN ScheduleYield(k2) ELSE Preempt(k2),
         r.status = "ok"
  PROVE  Cancelled(k, r, u)
<1> DEFINE S == SchedulerQueue
           s == IF k1.detached[u] THEN Unset ELSE Dead
<1>1. /\ u \in Link /\ S \in ThreadList /\ k.current \in Thread /\ k.current \in Link
      /\ Steady(k) /\ s \in {Unset, Dead} /\ s \in States
  BY LinkFacts, ListFacts DEF Settled, Steady, CurrentRuns, States
<1>2. k1 \in Sched
  BY <1>1, RemoveType DEF CutShort
<1> HIDE DEF s
<1>3. Gone(k1, k2, u, s, k.current)
  <2> DEFINE st == [k1.state EXCEPT ![u] = s]
             rr == [k1.r0 EXCEPT ![k.current] = Success]
  <2>1. st \in [Link -> States] /\ rr \in [Link -> Returns]
    <3>1. k1.state \in [Link -> States] /\ k1.r0 \in [Link -> Returns] /\ Success \in Returns
      BY <1>2 DEF Sched, Returns
    <3> QED BY <1>1, <3>1
  <2>2. k2 = [k1 EXCEPT !.state = st, !.r0 = rr]
    BY DEF s, CutShort
  <2> HIDE DEF st, rr
  <2>3. /\ k2 \in Sched /\ k2.head = k1.head /\ k2.next = k1.next /\ k2.prio = k1.prio
        /\ k2.on = k1.on /\ k2.current = k1.current /\ k2.status = k1.status
        /\ k2.state = st /\ k2.r0 = rr
    BY <1>2, <2>1, <2>2 DEF Sched
  <2> QED BY <2>3 DEF st, rr, Gone
<1>4. k1.status = "ok"
  BY <1>3, ScheduleYieldStatus, PreemptStatus DEF Gone
<1>5. k.state[u] # Stopped =>
        /\ k.state[u] = Ready /\ u \in Listed(k, S) /\ Removed(k, k, k1, S, u)
  BY <1>1, <1>4, CancelledLists DEF CutShort
<1>6. u # k.current
  BY <1>1, <1>5 DEF Steady, CurrentRuns, Stopped, Ready, Running
<1>7. r = Preempt(k2) /\ s \in {Unset, Dead}
  BY <1>1, <1>6
<1>8. Off(k, k1, u)
  BY <1>5 DEF Off, CutShort
<1> QED BY <1>2, <1>3, <1>4, <1>6, <1>7, <1>8, CancelStep

(* r is k with another priority for u, which keeps its list.                *)
Moved(k, r, u) ==
  /\ r \in Sched /\ k.status = "ok" /\ Settled(r)
  /\ r.next[Sentinel] = k.next[Sentinel]
  /\ \A t \in Thread : /\ Like(r.state[t], k.state[t]) /\ r.on[t] = k.on[t]
                       /\ t # k.current => r.r0[t] = k.r0[t]
  /\ \A m \in ThreadList \ {SchedulerQueue} :
       /\ Listed(r, m) = Listed(k, m)
       /\ Sentinel \in Reach(r, m) <=> Sentinel \in Reach(k, m)
       /\ r.head[m] = k.head[m] \/ u \in Listed(k, m)

LEMMA ReprioritisedLists ==
  ASSUME NEW k \in Sched, Settled(k), k.next[Sentinel] = Sentinel, NEW u \in Thread,
         k.state[u] \notin {Unset, Dead}, NEW p \in Nat,
         NEW r, r = Reprioritised(k, u, p), r.status = "ok"
  PROVE  Moved(k, r, u)
<1> DEFINE S == SchedulerQueue
           k1 == [k EXCEPT !.prio[u] = p]
           l == k.on[u]
           w == Remove(k1, l, u)
           v == Push(w, l, u)
<1>1. /\ u \in Link /\ S \in ThreadList /\ k.current \in Thread
      /\ Steady(k) /\ Lists(k) /\ l \in ThreadList \cup {NULL} /\ p \in Int
  BY LinkFacts, ListFacts DEF Settled, Steady, CurrentRuns, Sched
<1>2. /\ k1 \in Sched /\ k1.head = k.head /\ k1.next = k.next /\ k1.on = k.on
      /\ k1.current = k.current /\ k1.status = k.status /\ k1.r0 = k.r0
      /\ k1.state = k.state
      /\ k1.prio[u] >= 0 /\ \A y \in Link : y # u => k1.prio[y] = k.prio[y]
  BY <1>1, SMTT(60) DEF Sched
<1>3. r = Preempt(IF u # k.current /\ k.state[u] # Stopped THEN v ELSE k1)
  BY DEF Reprioritised
<1> HIDE DEF k1
<1>4. w \in Sched
  BY <1>1, <1>2, RemoveType
<1> HIDE DEF w
<1>5. v \in Sched
  BY <1>1, <1>4, PushType
<1> HIDE DEF v
<1> DEFINE x == IF u # k.current /\ k.state[u] # Stopped THEN v ELSE k1
<1>6. /\ x \in Sched /\ Steady(x) /\ x.next[Sentinel] = k.next[Sentinel] /\ k.status = "ok"
      /\ x.state = k.state /\ x.on = k.on /\ x.current = k.current /\ x.r0 = k.r0
      /\ \A m \in ThreadList :
           /\ Listed(x, m) = Listed(k, m)
           /\ Sentinel \in Reach(x, m) <=> Sentinel \in Reach(k, m)
           /\ x.head[m] = k.head[m] \/ u \in Listed(k, m)
  <2>1. CASE ~ (u # k.current /\ k.state[u] # Stopped)
    <3>1. x = k1 /\ r = Preempt(k1)
      BY <1>3, <2>1
    <3>2. \A m \in ThreadList : u \notin Listed(k, m) /\ Listed(k, m) \subseteq Link
      <4>1. k.state[u] \notin {Ready, Waiting}
        BY <1>1, <2>1 DEF Steady, CurrentRuns, Stopped, Ready, Waiting, Running
      <4> QED BY <1>1, <4>1, OffListsUnlisted, ReachFacts, LinkFacts DEF Steady
    <3>3. /\ k1.next[NULL] = NULL /\ k1.next[Sentinel] \in Ends
          /\ k1.prio[Sentinel] = -1 /\ \A y \in Thread : k1.prio[y] >= 0
      BY <1>1, <1>2, LinkFacts DEF Lists
    <3>4. /\ Lists(k1)
          /\ \A m \in ThreadList : Reach(k1, m) = Reach(k, m) /\ Listed(k1, m) = Listed(k, m)
      BY <1>1, <1>2, <3>2, <3>3, SameLists
    <3>5. Steady(k1)
      BY <1>1, <1>2, <3>4, SamePlacement
    <3>6. k1.status = "ok"
      BY <1>2, <3>1, PreemptStatus
    <3> QED BY <1>2, <3>1, <3>4, <3>5, <3>6
  <2>2. CASE u # k.current /\ k.state[u] # Stopped
    <3>1. x = v /\ r = Preempt(v)
      BY <1>3, <2>2
    <3>2. v.status = "ok"
      BY <1>5, <3>1, PreemptStatus
    <3>3. w.status = "ok"
      BY <1>1, <1>4, <3>2, PushStatus DEF v
    <3>4. l \in ThreadList /\ k.status = "ok"
      BY <1>1, <1>2, <3>3, RemoveStatus DEF w
    <3>5. /\ u \in Listed(k, l) => Removed(k, k1, w, l, u)
          /\ Sentinel \in Reach(k, l) /\ k.next[Sentinel] = Sentinel => u \in Listed(k, l)
      BY <1>1, <1>2, <3>3, <3>4, RemoveLists DEF w
    <3>6. u \in Listed(k, l)
      <4>1. k.state[u] \in {Ready, Waiting}
        <5>1. k.state[u] \in States /\ k.state[u] # Running
          BY <1>1, <2>2 DEF Sched, Steady, CurrentRuns
        <5> QED BY <2>2, <5>1 DEF States
      <4>2. CASE k.state[u] = Ready
        BY <1>1, <4>2 DEF Steady, Placed
      <4>3. CASE l = S
        BY <1>1, <3>5, <4>3 DEF Lists
      <4>4. CASE k.state[u] = Waiting /\ l # S
        BY <4>4, <1>1 DEF Steady, Placed
      <4> QED BY <4>1, <4>2, <4>3, <4>4
    <3>7. Removed(k, k1, w, l, u)
      BY <3>5, <3>6
    <3>8. \A m \in ThreadList : u \notin Listed(w, m)
      <4>1. \A m \in ThreadList \ {l} : u \notin Listed(k, m)
        BY <1>1, <3>4, <3>6 DEF Lists
      <4> QED BY <3>7, <4>1 DEF Removed
    <3>9. Lists(w) /\ w.state = k.state /\ w.on = k.on /\ w.current = k.current /\ w.r0 = k.r0
          /\ w.next[Sentinel] = k.next[Sentinel]
      BY <1>2, <3>7 DEF Removed
    <3>10. Pushed(w, v, l, u)
      BY <1>4, <3>2, <3>4, <3>8, <3>9, PushLists DEF v
    <3>11. v.on = k.on
      <4>1. v.on = [k.on EXCEPT ![u] = k.on[u]]
        BY <3>9, <3>10 DEF Pushed
      <4> QED BY <1>1, <4>1 DEF Sched
    <3>12. \A m \in ThreadList :
             /\ Listed(v, m) = Listed(k, m)
             /\ Sentinel \in Reach(v, m) <=> Sentinel \in Reach(k, m)
             /\ v.head[m] = k.head[m] \/ u \in Listed(k, m)
      <4>1. /\ Listed(v, l) = Listed(w, l) \cup {u} /\ Listed(w, l) = Listed(k, l) \ {u}
            /\ Sentinel \in Reach(v, l) <=> Sentinel \in Reach(k, l)
        BY <3>7, <3>10 DEF Removed, Pushed
      <4>2. Listed(v, l) = Listed(k, l)
        BY <3>6, <4>1
      <4>3. \A m \in ThreadList \ {l} :
              /\ Listed(v, m) = Listed(k, m) /\ v.head[m] = k.head[m]
              /\ Sentinel \in Reach(v, m) <=> Sentinel \in Reach(k, m)
        BY <3>7, <3>10 DEF Removed, Pushed
      <4> QED BY <3>6, <4>1, <4>2, <4>3
    <3>13. v \in Sched /\ Lists(v) /\ v.state = k.state /\ v.current = k.current /\ v.r0 = k.r0
           /\ v.next[Sentinel] = k.next[Sentinel]
      BY <3>9, <3>10 DEF Pushed
    <3>14. Steady(v)
      BY <1>1, <3>11, <3>12, <3>13, SamePlacement
    <3> QED BY <3>1, <3>4, <3>11, <3>12, <3>13, <3>14
  <2> QED BY <2>1, <2>2
<1>7. r = Preempt(x)
  BY <1>3
<1> HIDE DEF x
<1>8. Preempted(x, r)
  BY <1>6, <1>7, PreemptLists DEF Steady
<1>9. r \in Sched /\ Settled(r) /\ SameWaits(x, r)
      /\ \A t \in Thread : /\ Like(r.state[t], k.state[t]) /\ r.on[t] = k.on[t]
                           /\ t # k.current => r.r0[t] = k.r0[t]
  BY <1>6, <1>8 DEF Preempted
<1> QED BY <1>6, <1>9 DEF Moved, SameWaits

-----------------------------------------------------------------------------
(* What a thread waits for.  A thread on the list of a queue is inside the  *)
(* call that put it there, also while it is suspended; a joiner waits on    *)
(* no list; and the lists of a queue are there as long as the queue is.     *)

Inside == {"send", "jam", "recv", "begin"}
WaitList(c) ==
  CASE c.op \in {"recv", "begin"} -> RecvQ(c.queue)
    [] c.op \in {"send", "jam"}   -> SendQ(c.queue)
    [] OTHER                      -> NULL

Accounted(s, o, c) ==
  /\ o \notin {NULL, SchedulerQueue} =>
       s \in {Waiting, Stopped, Dead, Unset} /\ (s \in {Waiting, Stopped} => o = WaitList(c))
  /\ c.op = "join" => s = Waiting /\ o = SchedulerQueue
  /\ s = Waiting /\ o = SchedulerQueue => c.op = "join"

Accounts(k, c) == \A t \in Thread : Accounted(k.state[t], k.on[t], c[t])
LiveWaits(c, m) == \A t \in Thread : c[t].op \in Inside => m[c[t].queue].size > 0
Queues(k, m) ==
  \A q \in QueueId :
    /\ m[q].size = 0 => k.head[RecvQ(q)] = NULL /\ k.head[SendQ(q)] = NULL
    /\ m[q].size > 0 => Sentinel \in Reach(k, SendQ(q))
KInv(k, c, m) == Settled(k) /\ Accounts(k, c) /\ Queues(k, m) /\ LiveWaits(c, m)

LEMMA QueueLists ==
  /\ \A q \in QueueId : /\ RecvQ(q) \in ThreadList \ {SchedulerQueue}
                        /\ SendQ(q) \in ThreadList \ {SchedulerQueue}
  /\ \A p \in QueueId, q \in QueueId :
       /\ RecvQ(p) # SendQ(q)
       /\ RecvQ(p) = RecvQ(q) => p = q
       /\ SendQ(p) = SendQ(q) => p = q
  /\ \A l \in ThreadList \ {SchedulerQueue} : \E q \in QueueId : l = RecvQ(q) \/ l = SendQ(q)
  /\ NULL \notin ThreadList
BY ListFacts, ListAssumption DEF ThreadList, SchedulerQueue, RecvQ, SendQ

(* What a step does to the lists of the queues when it changes the list l.  *)
Kept(k, r, l) ==
  /\ k.next[Sentinel] = Sentinel => r.next[Sentinel] = Sentinel
  /\ \A m \in ThreadList \ {SchedulerQueue, l} : r.head[m] = k.head[m]
  /\ \A m \in ThreadList \ {SchedulerQueue} :
       Sentinel \in Reach(k, m) /\ (m # l \/ k.next[Sentinel] = Sentinel)
         => Sentinel \in Reach(r, m)

SameSizes(m, n) == \A q \in QueueId : n[q].size = m[q].size

(* The list l is the scheduler's, none, or that of a queue there is.        *)
Live(l, m) == \A q \in QueueId : l = RecvQ(q) \/ l = SendQ(q) => m[q].size > 0

LEMMA QueuesKept ==
  ASSUME NEW k, NEW r, NEW m, NEW n, NEW l, Queues(k, m), Kept(k, r, l), Live(l, m),
         SameSizes(m, n), k.next[Sentinel] = Sentinel \/ \A q \in QueueId : l # SendQ(q)
  PROVE  Queues(r, n)
<1> SUFFICES ASSUME NEW q \in QueueId
             PROVE  /\ n[q].size = 0 => r.head[RecvQ(q)] = NULL /\ r.head[SendQ(q)] = NULL
                    /\ n[q].size > 0 => Sentinel \in Reach(r, SendQ(q))
  BY DEF Queues
<1>1. n[q].size = m[q].size
  BY DEF SameSizes
<1>2. RecvQ(q) \in ThreadList \ {SchedulerQueue} /\ SendQ(q) \in ThreadList \ {SchedulerQueue}
  BY QueueLists
<1>3. n[q].size = 0 => r.head[RecvQ(q)] = NULL /\ r.head[SendQ(q)] = NULL
  <2> HAVE n[q].size = 0
  <2>1. m[q].size = 0
    BY <1>1
  <2>2. RecvQ(q) # l /\ SendQ(q) # l
    BY <2>1 DEF Live
  <2>3. k.head[RecvQ(q)] = NULL /\ k.head[SendQ(q)] = NULL
    BY <2>1 DEF Queues
  <2> QED BY <1>2, <2>2, <2>3 DEF Kept
<1>4. n[q].size > 0 => Sentinel \in Reach(r, SendQ(q))
  BY <1>1, <1>2 DEF Queues, Kept
<1> QED BY <1>3, <1>4

LEMMA SameWaitsKept ==
  ASSUME NEW k, NEW r, SameWaits(k, r), NEW l
  PROVE  Kept(k, r, l)
BY DEF SameWaits, Kept

LEMMA YieldedKept ==
  ASSUME NEW k, NEW r, NEW s, NEW l, Yielded(k, r, s, l)
  PROVE  Kept(k, r, l)
BY DEF Yielded, WaitsOn, Kept

LEMMA AwakenedKept ==
  ASSUME NEW k, NEW r, NEW l, NEW ret, Awakened(k, r, l, ret)
  PROVE  Kept(k, r, l)
BY DEF Awakened, Kept

LEMMA PutBackKept ==
  ASSUME NEW k, NEW r, NEW u, NEW s, NEW l, PutBack(k, r, u, s, l)
  PROVE  Kept(k, r, l)
BY DEF PutBack, Kept

LEMMA TakenOffKept ==
  ASSUME NEW k, NEW r, NEW u, NEW s, NEW l, TakenOff(k, r, u, l, s)
  PROVE  Kept(k, r, l)
BY DEF TakenOff, Kept

(* A thread with the CPU or waiting for it is on no queue and joins nobody. *)
LEMMA RunnableAccounted ==
  ASSUME NEW s \in {Ready, Running}, NEW o, NEW c
  PROVE  /\ Accounted(s, o, c) => o \in {NULL, SchedulerQueue} /\ c.op # "join"
         /\ o \in {NULL, SchedulerQueue} /\ c.op # "join" => Accounted(s, o, c)
BY DEF Accounted, Ready, Running, Waiting, Stopped, Dead, Unset

LEMMA LikeAccounted ==
  ASSUME NEW a, NEW b, NEW o, NEW c, Like(a, b), Accounted(b, o, c)
  PROVE  Accounted(a, o, c)
BY RunnableAccounted DEF Like

(* A thread that is off a list has its size to say nothing about.           *)
LEMMA ListedLive ==
  ASSUME NEW k \in Sched, NEW m \in [QueueId -> Ring], Queues(k, m), NEW q \in QueueId,
         NEW l, l = RecvQ(q) \/ l = SendQ(q), NEW u \in Listed(k, l)
  PROVE  m[q].size > 0 /\ Live(l, m)
<1>1. l \in ThreadList
  BY QueueLists
<1>2. m[q].size > 0
  <2>1. SUFFICES ASSUME m[q].size = 0 PROVE FALSE
    BY DEF Ring
  <2>2. k.head[l] = NULL
    BY <2>1 DEF Queues
  <2> QED BY <1>1, <2>2, EmptyReach DEF Ends
<1>3. Live(l, m)
  BY <1>2, QueueLists DEF Live
<1> QED BY <1>2, <1>3

(* Once kernel_main has made its first queue, the sentinel links to itself. *)
Ran(k, c, m) == KInv(k, c, m) /\ k.next[Sentinel] = Sentinel

LEMMA AwakenedAccounts ==
  ASSUME NEW k \in Sched, Placed(k), NEW c, Accounts(k, c), NEW r,
         NEW l \in ThreadList \ {SchedulerQueue}, NEW ret, Awakened(k, r, l, ret)
  PROVE  Accounts(r, c)
<1> SUFFICES ASSUME NEW t \in Thread PROVE Accounted(r.state[t], r.on[t], c[t])
  BY DEF Accounts
<1>1. Accounted(k.state[t], k.on[t], c[t])
  BY DEF Accounts
<1>2. /\ Like(r.state[t], IF t = k.head[l] THEN Ready ELSE k.state[t])
      /\ r.on[t] = IF t = k.head[l] THEN SchedulerQueue ELSE k.on[t]
  BY DEF Awakened
<1>3. CASE t = k.head[l]
  <2>1. t \in Listed(k, l)
    BY <1>3 DEF Awakened
  <2>2. k.on[t] = l /\ k.state[t] = Waiting
    BY <2>1 DEF Placed
  <2>3. c[t].op # "join"
    BY <1>1, <2>2 DEF Accounted
  <2>4. r.state[t] \in {Ready, Running}
    BY <1>2, <1>3 DEF Like
  <2> QED BY <1>2, <1>3, <2>3, <2>4, RunnableAccounted
<1>4. CASE t # k.head[l]
  BY <1>1, <1>2, <1>4, LikeAccounted
<1> QED BY <1>3, <1>4

(* A thread that runs may be given other code to run next.                  *)
LEMMA NewCode ==
  ASSUME NEW r, NEW c \in [Thread -> Continuation], NEW m, NEW n,
         Accounts(r, c), LiveWaits(c, m), SameSizes(m, n),
         NEW t \in Thread, r.state[t] \in {Ready, Running},
         NEW d, d.op # "join", d.op \notin Inside
  PROVE  Accounts(r, [c EXCEPT ![t] = d]) /\ LiveWaits([c EXCEPT ![t] = d], n)
<1> DEFINE e == [c EXCEPT ![t] = d]
<1>1. e[t] = d /\ \A u \in Thread : u # t => e[u] = c[u]
  OBVIOUS
<1> HIDE DEF e
<1>2. Accounts(r, e)
  <2>1. Accounted(r.state[t], r.on[t], e[t])
    <3>1. Accounted(r.state[t], r.on[t], c[t])
      BY DEF Accounts
    <3> QED BY <1>1, <3>1, RunnableAccounted
  <2> QED BY <1>1, <2>1 DEF Accounts
<1>3. LiveWaits(e, n)
  <2> SUFFICES ASSUME NEW u \in Thread, e[u].op \in Inside PROVE n[e[u].queue].size > 0
    BY DEF LiveWaits
  <2>1. u # t /\ e[u] = c[u] /\ c[u] \in Continuation /\ c[u].op \in Inside
    BY <1>1
  <2>2. c[u].queue \in QueueId
    BY <2>1 DEF Continuation, Inside
  <2> QED BY <2>1, <2>2 DEF LiveWaits, SameSizes
<1> QED BY <1>2, <1>3 DEF e

LEMMA CurrentStays ==
  ASSUME NEW k \in Sched, Settled(k), NEW r, NEW l \in ThreadList \ {SchedulerQueue}, NEW ret,
         Awakened(k, r, l, ret)
  PROVE  k.current \in Thread /\ r.state[k.current] \in {Ready, Running}
         /\ r.on[k.current] = SchedulerQueue
<1>1. k.current \in Thread /\ k.state[k.current] = Running /\ k.on[k.current] = SchedulerQueue
  BY DEF Settled, CurrentRuns
<1> QED BY <1>1 DEF Awakened, Like

(* Waking the head of a queue's list, and going on or giving way.           *)
LEMMA UnblockKeeps ==
  ASSUME NEW k \in Sched, NEW c \in [Thread -> Continuation], NEW m, NEW n, Ran(k, c, m),
         SameSizes(m, n), NEW q \in QueueId, m[q].size > 0,
         NEW l, l = RecvQ(q) \/ l = SendQ(q), NEW ret \in Returns,
         NEW r, r = UnblockThread(k, l, ret), r.status = "ok",
         NEW d, d.op # "join", d.op \notin Inside
  PROVE  Ran(r, [c EXCEPT ![k.current] = d], n)
<1>1. l \in ThreadList \ {SchedulerQueue} /\ l \in ThreadList /\ l # SchedulerQueue
  BY QueueLists
<1>2. Settled(k) /\ Accounts(k, c) /\ Queues(k, m) /\ LiveWaits(c, m)
      /\ k.next[Sentinel] = Sentinel
  BY DEF Ran, KInv
<1>3. Awakened(k, r, l, ret) /\ Settled(r)
  BY <1>1, <1>2, UnblockLists
<1>4. Accounts(r, c)
  BY <1>1, <1>2, <1>3, AwakenedAccounts DEF Settled
<1>5. k.current \in Thread /\ r.state[k.current] \in {Ready, Running}
  BY <1>1, <1>2, <1>3, CurrentStays
<1>6. Accounts(r, [c EXCEPT ![k.current] = d]) /\ LiveWaits([c EXCEPT ![k.current] = d], n)
  BY <1>2, <1>4, <1>5, NewCode
<1>7. Kept(k, r, l)
  BY <1>3, AwakenedKept
<1>8. Live(l, m)
  BY QueueLists DEF Live
<1>9. Queues(r, n)
  BY <1>2, <1>7, <1>8, QueuesKept
<1>10. r.next[Sentinel] = Sentinel
  BY <1>2, <1>7 DEF Kept
<1> QED BY <1>3, <1>6, <1>9, <1>10 DEF Ran, KInv

(* A call that wakes nobody.                                                *)
LEMMA ReturnKeeps ==
  ASSUME NEW k \in Sched, NEW c \in [Thread -> Continuation], NEW m, NEW n, Ran(k, c, m),
         SameSizes(m, n), NEW d, d.op # "join", d.op \notin Inside
  PROVE  Ran(k, [c EXCEPT ![k.current] = d], n)
<1>1. Settled(k) /\ Accounts(k, c) /\ Queues(k, m) /\ LiveWaits(c, m)
  BY DEF Ran, KInv
<1>2. k.current \in Thread /\ k.state[k.current] \in {Ready, Running}
  BY <1>1 DEF Settled, CurrentRuns
<1>3. Accounts(k, [c EXCEPT ![k.current] = d]) /\ LiveWaits([c EXCEPT ![k.current] = d], n)
  BY <1>1, <1>2, NewCode
<1>4. Queues(k, n)
  BY <1>1 DEF Queues, SameSizes
<1> QED BY <1>1, <1>3, <1>4 DEF Ran, KInv

(* Waiting for a queue there is.                                            *)
LEMMA WaitKeeps ==
  ASSUME NEW k \in Sched, NEW c \in [Thread -> Continuation], NEW m, Ran(k, c, m),
         NEW q \in QueueId, m[q].size > 0,
         NEW l, l = RecvQ(q) \/ l = SendQ(q),
         NEW d, d.op \in Inside, d.queue = q, l = WaitList(d),
         NEW r, r = YieldCurrentThread([k EXCEPT !.state[k.current] = Waiting], l),
         r.status = "ok"
  PROVE  Ran(r, [c EXCEPT ![k.current] = d], m)
<1> DEFINE e == [c EXCEPT ![k.current] = d]
<1>1. l \in ThreadList \ {SchedulerQueue} /\ l # NULL /\ MayYield(Waiting, l)
  BY QueueLists DEF MayYield
<1>2. Settled(k) /\ Accounts(k, c) /\ Queues(k, m) /\ LiveWaits(c, m)
      /\ k.next[Sentinel] = Sentinel /\ k.current \in Thread
  BY DEF Ran, KInv, Settled, CurrentRuns
<1>3. e[k.current] = d /\ \A u \in Thread : u # k.current => e[u] = c[u]
  BY <1>2
<1> HIDE DEF e
<1>4. Yielded(k, r, Waiting, l)
  BY <1>1, <1>2, YieldLists DEF Settled
<1>5. /\ Settled(r)
      /\ \A t \in Thread : Like(r.state[t], IF t = k.current THEN Waiting ELSE k.state[t])
      /\ \A t \in Thread : r.on[t] = IF t = k.current THEN l ELSE k.on[t]
  BY <1>1, <1>4 DEF Yielded, WaitsOn
<1>6. Accounts(r, e)
  <2> SUFFICES ASSUME NEW t \in Thread PROVE Accounted(r.state[t], r.on[t], e[t])
    BY DEF Accounts
  <2>1. CASE t = k.current
    <3>1. r.state[t] = Waiting /\ r.on[t] = l /\ e[t] = d
      BY <1>3, <1>5, <2>1, StateFacts DEF Like
    <3>2. d.op # "join"
      BY DEF Inside
    <3> QED BY <1>1, <3>1, <3>2 DEF Accounted
  <2>2. CASE t # k.current
    <3>1. Like(r.state[t], k.state[t]) /\ r.on[t] = k.on[t] /\ e[t] = c[t]
      BY <1>3, <1>5, <2>2
    <3>2. Accounted(k.state[t], k.on[t], c[t])
      BY <1>2 DEF Accounts
    <3> QED BY <3>1, <3>2, LikeAccounted
  <2> QED BY <2>1, <2>2
<1>7. LiveWaits(e, m)
  BY <1>2, <1>3 DEF LiveWaits
<1>8. Kept(k, r, l) /\ Live(l, m) /\ SameSizes(m, m)
  BY <1>4, YieldedKept, QueueLists DEF Live, SameSizes
<1>9. Queues(r, m)
  BY <1>2, <1>8, QueuesKept
<1>10. r.next[Sentinel] = Sentinel
  BY <1>2, <1>8 DEF Kept
<1> QED BY <1>5, <1>6, <1>7, <1>9, <1>10 DEF Ran, KInv, e

LEMMA AccountsBut ==
  ASSUME NEW k, NEW c, Accounts(k, c), NEW r, NEW u,
         \A t \in Thread : t # u => Like(r.state[t], k.state[t]) /\ r.on[t] = k.on[t],
         Accounted(r.state[u], r.on[u], c[u])
  PROVE  Accounts(r, c)
<1> SUFFICES ASSUME NEW t \in Thread PROVE Accounted(r.state[t], r.on[t], c[t])
  BY DEF Accounts
<1>1. CASE t = u
  BY <1>1
<1>2. CASE t # u
  <2>1. Like(r.state[t], k.state[t]) /\ r.on[t] = k.on[t] /\ Accounted(k.state[t], k.on[t], c[t])
    BY <1>2 DEF Accounts
  <2> QED BY <2>1, LikeAccounted
<1> QED BY <1>1, <1>2

(* The parts of Ran that a call settles for itself, and those that follow.  *)
LEMMA RanAfter ==
  ASSUME NEW k, NEW c, NEW m, Ran(k, c, m), NEW r, NEW e, Settled(r), Accounts(r, e),
         LiveWaits(e, m), NEW l, Kept(k, r, l), Live(l, m)
  PROVE  Ran(r, e, m)
<1>1. Queues(k, m) /\ k.next[Sentinel] = Sentinel /\ SameSizes(m, m)
  BY DEF Ran, KInv, SameSizes
<1>2. Queues(r, m)
  BY <1>1, QueuesKept
<1>3. r.next[Sentinel] = Sentinel
  BY <1>1 DEF Kept
<1> QED BY <1>2, <1>3 DEF Ran, KInv

LEMMA NoList ==
  ASSUME NEW m
  PROVE  Live(SchedulerQueue, m) /\ Live(NULL, m)
BY QueueLists DEF Live

(* YieldThread, and a thread that suspends itself.                          *)
LEMMA GiveWayKeeps ==
  ASSUME NEW k \in Sched, NEW c, NEW m, Ran(k, c, m), NEW s, NEW l,
         \/ s = Ready /\ l = SchedulerQueue
         \/ s = Stopped /\ l = NULL,
         NEW r, r = YieldCurrentThread([k EXCEPT !.state[k.current] = s], l), r.status = "ok"
  PROVE  Ran(r, c, m)
<1>1. /\ Settled(k) /\ Accounts(k, c) /\ LiveWaits(c, m) /\ k.current \in Thread
      /\ k.state[k.current] = Running /\ k.on[k.current] = SchedulerQueue
  BY DEF Ran, KInv, Settled, CurrentRuns
<1>2. Yielded(k, r, s, l)
  BY <1>1, YieldLists DEF Settled, MayYield
<1>3. /\ Settled(r) /\ r.on[k.current] = SchedulerQueue
      /\ Like(r.state[k.current], s)
      /\ \A t \in Thread : t # k.current => Like(r.state[t], k.state[t]) /\ r.on[t] = k.on[t]
  BY <1>1, <1>2 DEF Yielded, WaitsOn
<1>4. c[k.current].op # "join"
  <2>1. Accounted(Running, SchedulerQueue, c[k.current])
    BY <1>1 DEF Accounts
  <2> QED BY <2>1, RunnableAccounted
<1>5. Accounted(r.state[k.current], r.on[k.current], c[k.current])
  <2>1. CASE s = Ready
    BY <1>3, <1>4, <2>1, RunnableAccounted DEF Like
  <2>2. CASE s = Stopped
    <3>1. r.state[k.current] = Stopped
      BY <1>3, <2>2 DEF Like, Stopped, Ready, Running
    <3> QED BY <1>3, <1>4, <3>1 DEF Accounted, Stopped, Waiting
  <2> QED BY <2>1, <2>2
<1>6. Accounts(r, c)
  BY <1>1, <1>3, <1>5, AccountsBut
<1>7. Kept(k, r, l) /\ Live(l, m)
  BY <1>2, YieldedKept, NoList
<1> QED BY <1>1, <1>3, <1>6, <1>7, RanAfter

(* JoinThread of a thread that lives: the caller waits on no list.          *)
LEMMA JoinKeeps ==
  ASSUME NEW k \in Sched, NEW c \in [Thread -> Continuation], NEW m, Ran(k, c, m),
         NEW d, d.op = "join",
         NEW r, r = YieldCurrentThread([k EXCEPT !.state[k.current] = Waiting], NULL),
         r.status = "ok"
  PROVE  Ran(r, [c EXCEPT ![k.current] = d], m)
<1> DEFINE e == [c EXCEPT ![k.current] = d]
<1>1. /\ Settled(k) /\ Accounts(k, c) /\ LiveWaits(c, m) /\ k.current \in Thread
      /\ k.on[k.current] = SchedulerQueue
  BY DEF Ran, KInv, Settled, CurrentRuns
<1>2. e[k.current] = d /\ \A u \in Thread : u # k.current => e[u] = c[u]
  BY <1>1
<1> HIDE DEF e
<1>3. Yielded(k, r, Waiting, NULL)
  BY <1>1, YieldLists DEF Settled, MayYield
<1>4. /\ Settled(r) /\ r.on[k.current] = SchedulerQueue
      /\ Like(r.state[k.current], Waiting)
      /\ \A t \in Thread : t # k.current => Like(r.state[t], k.state[t]) /\ r.on[t] = k.on[t]
  BY <1>1, <1>3 DEF Yielded, WaitsOn
<1>5. Accounts(r, e)
  <2> SUFFICES ASSUME NEW t \in Thread PROVE Accounted(r.state[t], r.on[t], e[t])
    BY DEF Accounts
  <2>1. CASE t = k.current
    <3>1. r.state[t] = Waiting /\ r.on[t] = SchedulerQueue /\ e[t] = d
      BY <1>2, <1>4, <2>1, StateFacts DEF Like
    <3> QED BY <3>1 DEF Accounted
  <2>2. CASE t # k.current
    <3>1. Like(r.state[t], k.state[t]) /\ r.on[t] = k.on[t] /\ e[t] = c[t]
      BY <1>2, <1>4, <2>2
    <3>2. Accounted(k.state[t], k.on[t], c[t])
      BY <1>1 DEF Accounts
    <3> QED BY <3>1, <3>2, LikeAccounted
  <2> QED BY <2>1, <2>2
<1>6. LiveWaits(e, m)
  BY <1>1, <1>2 DEF LiveWaits, Inside
<1>7. Kept(k, r, NULL) /\ Live(NULL, m)
  BY <1>3, YieldedKept, NoList
<1>8. Ran(r, e, m)
  BY <1>4, <1>5, <1>6, <1>7, RanAfter
<1> QED BY <1>8 DEF e

(* JoinThread of a dead thread frees its slot.                              *)
Freed(k, r, u) ==
  /\ r \in Sched /\ r.head = k.head /\ r.current = k.current /\ r.next = k.next
  /\ r.prio = k.prio /\ r.on = k.on /\ r.state = [k.state EXCEPT ![u] = Unset]

LEMMA FreeKeeps ==
  ASSUME NEW k \in Sched, NEW c, NEW m, Ran(k, c, m), NEW u \in Thread, k.state[u] = Dead,
         NEW r, Freed(k, r, u)
  PROVE  Ran(r, c, m)
<1>1. Settled(k) /\ Accounts(k, c) /\ LiveWaits(c, m) /\ u \in Link
  BY LinkFacts DEF Ran, KInv
<1>2. /\ r \in Sched /\ r.head = k.head /\ r.current = k.current /\ r.next = k.next
      /\ r.prio = k.prio /\ r.on = k.on /\ r.state = [k.state EXCEPT ![u] = Unset]
  BY DEF Freed
<1>3. k.state[u] \in OffLists /\ r.state[u] \in OffLists /\ r.prio[u] >= 0 /\ r.state[u] = Unset
      /\ \A y \in Link : y # u => r.state[y] = k.state[y]
  BY <1>1, <1>2 DEF Sched, OffLists, Settled, Lists
<1>4. Steady(k)
  BY <1>1 DEF Steady, Settled
<1>5. /\ Steady(r) /\ SameWaits(k, r)
      /\ CurrentIsHighest(k) => CurrentIsHighest(r)
  BY <1>2, <1>3, <1>4, SetUnlisted
<1>6. Settled(r)
  BY <1>1, <1>5 DEF Steady, Settled
<1>7. Accounts(r, c)
  <2>1. \A t \in Thread : t # u => Like(r.state[t], k.state[t]) /\ r.on[t] = k.on[t]
    BY <1>2, <1>3, LinkFacts DEF Like
  <2>2. Accounted(r.state[u], r.on[u], c[u])
    <3>1. Accounted(Dead, k.on[u], c[u])
      BY <1>1 DEF Accounts
    <3> QED BY <1>2, <1>3, <3>1 DEF Accounted, Dead, Unset, Waiting, Stopped
  <2>3. Accounts(k, c)
    BY <1>1
  <2> QED BY <2>1, <2>2, <2>3, AccountsBut
<1>8. Kept(k, r, NULL) /\ Live(NULL, m)
  BY <1>5, SameWaitsKept, NoList
<1> QED BY <1>1, <1>6, <1>7, <1>8, RanAfter

(* SuspendThread of another thread.                                         *)
LEMMA SuspendKeeps ==
  ASSUME NEW k \in Sched, NEW c, NEW m \in [QueueId -> Ring], Ran(k, c, m), NEW u \in Thread,
         k.state[u] \in {Ready, Waiting},
         NEW r, r = Remove([k EXCEPT !.state[u] = Stopped], k.on[u], u), r.status = "ok"
  PROVE  Ran(r, c, m)
<1> DEFINE l == k.on[u]
<1>1. /\ Settled(k) /\ Accounts(k, c) /\ LiveWaits(c, m) /\ Queues(k, m)
      /\ k.next[Sentinel] = Sentinel /\ Steady(k)
  BY DEF Ran, KInv, Settled, Steady
<1>2. l \in ThreadList /\ u \in Listed(k, l) /\ TakenOff(k, r, u, l, Stopped)
  BY <1>1, SuspendedLists
<1> HIDE DEF l
<1>3. /\ Steady(r) /\ CurrentIsHighest(r) /\ r.on = k.on
      /\ r.state = [k.state EXCEPT ![u] = Stopped]
  BY <1>1, <1>2 DEF TakenOff, Settled
<1>4. \A t \in Thread : r.state[t] = IF t = u THEN Stopped ELSE k.state[t]
  BY <1>3, LinkFacts DEF Sched
<1>5. Accounts(r, c)
  <2>1. \A t \in Thread : t # u => Like(r.state[t], k.state[t]) /\ r.on[t] = k.on[t]
    BY <1>3, <1>4 DEF Like
  <2>2. Accounted(r.state[u], r.on[u], c[u])
    <3>1. Accounted(k.state[u], k.on[u], c[u])
      BY <1>1 DEF Accounts
    <3>2. ~ (k.state[u] = Waiting /\ k.on[u] = SchedulerQueue)
      BY <1>1, <1>2, StateFacts DEF Steady, Placed, l
    <3>3. c[u].op # "join"
      BY <3>1, <3>2 DEF Accounted
    <3>4. k.on[u] \notin {NULL, SchedulerQueue} => k.on[u] = WaitList(c[u])
      BY <3>1, RunnableAccounted DEF Accounted
    <3> QED BY <1>3, <1>4, <3>3, <3>4 DEF Accounted, Stopped, Waiting
  <2> QED BY <1>1, <2>1, <2>2, AccountsBut
<1>6. Live(l, m)
  <2>1. CASE l = SchedulerQueue
    BY <2>1, NoList
  <2>2. CASE l # SchedulerQueue
    <3>1. PICK q \in QueueId : l = RecvQ(q) \/ l = SendQ(q)
      BY <1>2, <2>2, QueueLists
    <3> QED BY <1>1, <1>2, <3>1, ListedLive
  <2> QED BY <2>1, <2>2
<1>7. Kept(k, r, l)
  BY <1>2, TakenOffKept
<1>8. Settled(r)
  BY <1>3 DEF Settled, Steady
<1> QED BY <1>1, <1>5, <1>6, <1>7, <1>8, RanAfter

(* StartThread: back to the list of the queue it waited for, if any.        *)
LEMMA StartKeeps ==
  ASSUME NEW k \in Sched, NEW c \in [Thread -> Continuation], NEW m \in [QueueId -> Ring],
         Ran(k, c, m), NEW u \in Thread, k.state[u] = Stopped,
         NEW r, r = Started(k, u), r.status = "ok"
  PROVE  Ran(r, c, m)
<1> DEFINE free == k.on[u] \in {NULL, SchedulerQueue}
           s == IF free THEN Ready ELSE Waiting
           l == IF free THEN SchedulerQueue ELSE k.on[u]
<1>1. /\ Settled(k) /\ Accounts(k, c) /\ LiveWaits(c, m) /\ Steady(k)
      /\ Accounted(Stopped, k.on[u], c[u])
  BY DEF Ran, KInv, Settled, Steady, Accounts
<1>2. Settled(r) /\ PutBack(k, r, u, s, l)
  BY <1>1, StartedLists
<1>3. c[u].op # "join" /\ (k.on[u] \notin {NULL, SchedulerQueue} => k.on[u] = WaitList(c[u]))
  BY <1>1 DEF Accounted, Stopped, Waiting
<1>4. /\ Like(r.state[u], s) /\ r.on[u] = l
      /\ \A t \in Thread : t # u => Like(r.state[t], k.state[t]) /\ r.on[t] = k.on[t]
  BY <1>2 DEF PutBack
<1>5. Accounted(r.state[u], r.on[u], c[u])
  <2>1. CASE free
    BY <1>3, <1>4, <2>1, RunnableAccounted DEF Like
  <2>2. CASE ~ free
    <3>1. r.state[u] = Waiting /\ r.on[u] = k.on[u]
      BY <1>4, <2>2, StateFacts DEF Like
    <3> QED BY <1>3, <2>2, <3>1 DEF Accounted
  <2> QED BY <2>1, <2>2
<1>6. Accounts(r, c)
  BY <1>1, <1>4, <1>5, AccountsBut
<1>7. Live(l, m)
  <2>1. CASE free
    BY <2>1, NoList
  <2>2. CASE ~ free
    <3>1. l = WaitList(c[u]) /\ l # NULL
      BY <1>3, <2>2
    <3>2. c[u].op \in Inside
      BY <3>1 DEF WaitList, Inside
    <3>3. c[u].queue \in QueueId /\ m[c[u].queue].size > 0
      BY <1>1, <3>2 DEF LiveWaits, Continuation, Inside
    <3>4. l = RecvQ(c[u].queue) \/ l = SendQ(c[u].queue)
      BY <3>1, <3>2 DEF WaitList, Inside
    <3> QED BY <3>3, <3>4, QueueLists DEF Live
  <2> QED BY <2>1, <2>2
<1>8. Kept(k, r, l)
  BY <1>2, PutBackKept
<1> QED BY <1>1, <1>2, <1>6, <1>7, <1>8, RanAfter

LEMMA CancelKeeps ==
  ASSUME NEW k, NEW c, NEW m, Ran(k, c, m), NEW u \in Thread, NEW r, Cancelled(k, r, u)
  PROVE  Ran(r, c, m)
<1>1. Accounts(k, c) /\ LiveWaits(c, m) /\ Accounted(k.state[u], k.on[u], c[u])
  BY DEF Ran, KInv, Accounts
<1>2. /\ Settled(r) /\ k.state[u] \in {Stopped, Ready} /\ r.state[u] \in {Unset, Dead}
      /\ \A t \in Thread : t # u => Like(r.state[t], k.state[t]) /\ r.on[t] = k.on[t]
      /\ SameWaits(k, r)
  BY DEF Cancelled
<1>3. Accounted(r.state[u], r.on[u], c[u])
  BY <1>1, <1>2 DEF Accounted, Dead, Unset, Waiting, Stopped, Ready
<1>4. Accounts(r, c)
  BY <1>1, <1>2, <1>3, AccountsBut
<1>5. Kept(k, r, NULL) /\ Live(NULL, m)
  BY <1>2, SameWaitsKept, NoList
<1> QED BY <1>1, <1>2, <1>4, <1>5, RanAfter

LEMMA MoveKeeps ==
  ASSUME NEW k \in Sched, NEW c, NEW m \in [QueueId -> Ring], Ran(k, c, m), NEW u \in Thread,
         NEW r, Moved(k, r, u)
  PROVE  Ran(r, c, m)
<1>1. /\ Accounts(k, c) /\ LiveWaits(c, m) /\ Queues(k, m) /\ Settled(k)
      /\ k.next[Sentinel] = Sentinel
  BY DEF Ran, KInv
<1>2. /\ Settled(r) /\ r.next[Sentinel] = k.next[Sentinel]
      /\ \A t \in Thread : Like(r.state[t], k.state[t]) /\ r.on[t] = k.on[t]
      /\ \A l \in ThreadList \ {SchedulerQueue} :
           /\ Sentinel \in Reach(r, l) <=> Sentinel \in Reach(k, l)
           /\ r.head[l] = k.head[l] \/ u \in Listed(k, l)
  BY DEF Moved
<1>3. Accounts(r, c)
  <2>1. Accounted(r.state[u], r.on[u], c[u])
    <3>1. Accounted(k.state[u], k.on[u], c[u]) /\ Like(r.state[u], k.state[u])
          /\ r.on[u] = k.on[u]
      BY <1>1, <1>2 DEF Accounts
    <3> QED BY <3>1, LikeAccounted
  <2> QED BY <1>1, <1>2, <2>1, AccountsBut
<1> DEFINE l == IF u \in Listed(k, k.on[u]) /\ k.on[u] \in ThreadList
                THEN k.on[u] ELSE SchedulerQueue
<1>4. Live(l, m)
  <2>1. CASE l = SchedulerQueue
    BY <2>1, NoList
  <2>2. CASE l # SchedulerQueue
    <3>1. l \in ThreadList \ {SchedulerQueue} /\ u \in Listed(k, l)
      BY <2>2
    <3>2. PICK q \in QueueId : l = RecvQ(q) \/ l = SendQ(q)
      BY <3>1, QueueLists
    <3> QED BY <1>1, <3>1, <3>2, ListedLive
  <2> QED BY <2>1, <2>2
<1>5. Kept(k, r, l)
  <2>1. \A j \in ThreadList \ {SchedulerQueue, l} : r.head[j] = k.head[j]
    <3> TAKE j \in ThreadList \ {SchedulerQueue, l}
    <3>1. u \in Listed(k, j) => k.on[u] = j
      BY <1>1 DEF Settled, Placed
    <3> QED BY <1>2, <3>1
  <2>2. \A j \in ThreadList \ {SchedulerQueue} :
          Sentinel \in Reach(k, j) => Sentinel \in Reach(r, j)
    BY <1>2
  <2> HIDE DEF l
  <2> QED BY <1>1, <1>2, <2>1, <2>2 DEF Kept
<1> QED BY <1>1, <1>2, <1>3, <1>4, <1>5, RanAfter

(* CreateThread, with or without the code of the slot's last thread.        *)
LEMMA CreateKeeps ==
  ASSUME NEW k \in Sched, NEW c \in [Thread -> Continuation], NEW m, Ran(k, c, m),
         NEW u \in Thread, k.state[u] = Unset,
         NEW p \in Nat, NEW detached \in BOOLEAN, NEW pid \in Nat,
         NEW r, r = Created(k, u, p, detached, pid)
  PROVE  /\ Ran(r, c, m) /\ Ran(r, [c EXCEPT ![u] = User], m)
         /\ r \in Sched /\ r.state[u] = Stopped /\ r.current = k.current
<1> DEFINE e == [c EXCEPT ![u] = User]
<1>1. /\ Settled(k) /\ Accounts(k, c) /\ LiveWaits(c, m) /\ Steady(k)
      /\ Accounted(Unset, k.on[u], c[u]) /\ u \in Link
  BY LinkFacts DEF Ran, KInv, Settled, Steady, Accounts
<1>2. /\ r \in Sched /\ Steady(r) /\ SameWaits(k, r) /\ r.status = k.status
      /\ CurrentIsHighest(k) => CurrentIsHighest(r)
      /\ r.state = [k.state EXCEPT ![u] = Stopped] /\ r.on = [k.on EXCEPT ![u] = NULL]
      /\ r.r0 = k.r0 /\ r.current = k.current
  <2>1. Made(k, r, u)
    BY <1>1, CreatedLists
  <2> QED BY <2>1 DEF Made
<1>3. /\ r.state[u] = Stopped /\ r.on[u] = NULL
      /\ \A t \in Thread : t # u => r.state[t] = k.state[t] /\ r.on[t] = k.on[t]
  BY <1>1, <1>2, LinkFacts DEF Sched
<1>4. e[u] = User /\ \A t \in Thread : t # u => e[t] = c[t]
  OBVIOUS
<1> HIDE DEF e
<1>5. c[u].op # "join"
  BY <1>1 DEF Accounted, Unset, Waiting
<1>6. \A d : d.op # "join" => Accounted(Stopped, NULL, d)
  BY DEF Accounted, Stopped, Waiting
<1>7. Accounts(r, c)
  <2>1. \A t \in Thread : t # u => Like(r.state[t], k.state[t]) /\ r.on[t] = k.on[t]
    BY <1>3 DEF Like
  <2> QED BY <1>1, <1>3, <1>5, <1>6, <2>1, AccountsBut
<1>8. User.op = "user"
  BY DEF User, Cont
<1>9. Accounts(r, e) /\ LiveWaits(e, m)
  <2>1. Accounts(r, e)
    <3>1. Accounted(r.state[u], r.on[u], e[u])
      BY <1>3, <1>4, <1>6, <1>8
    <3> QED BY <1>4, <1>7, <3>1 DEF Accounts
  <2>2. LiveWaits(e, m)
    BY <1>1, <1>4, <1>8 DEF LiveWaits, Inside
  <2> QED BY <2>1, <2>2
<1>10. Kept(k, r, NULL) /\ Live(NULL, m)
  BY <1>2, SameWaitsKept, NoList
<1>11. Settled(r)
  BY <1>1, <1>2 DEF Steady, Settled
<1>12. Ran(r, c, m) /\ Ran(r, e, m)
  BY <1>1, <1>7, <1>9, <1>10, <1>11, RanAfter
<1> QED BY <1>2, <1>3, <1>12 DEF e

(* A new queue: its two lists, which were empty, begin with the sentinel.   *)
QueueMade(k, r, q) ==
  /\ r \in Sched /\ r.next = k.next /\ r.prio = k.prio /\ r.state = k.state /\ r.on = k.on
  /\ r.r0 = k.r0 /\ r.current = k.current /\ r.status = k.status
  /\ r.head[RecvQ(q)] = Sentinel /\ r.head[SendQ(q)] = Sentinel
  /\ \A l \in ThreadList : l # RecvQ(q) /\ l # SendQ(q) => r.head[l] = k.head[l]

LEMMA QueueMadeLists ==
  ASSUME NEW k \in Sched, Settled(k), NEW q \in QueueId,
         k.head[RecvQ(q)] = NULL, k.head[SendQ(q)] = NULL, NEW r, QueueMade(k, r, q)
  PROVE  /\ Settled(r)
         /\ Reach(r, SendQ(q)) = {Sentinel}
         /\ \A l \in ThreadList : l # RecvQ(q) /\ l # SendQ(q) => Reach(r, l) = Reach(k, l)
<1>0. /\ r \in Sched /\ Lists(k) /\ Placed(k) /\ CurrentRuns(k) /\ CurrentIsHighest(k)
      /\ r.next = k.next /\ r.prio = k.prio /\ r.state = k.state /\ r.on = k.on
      /\ r.current = k.current
      /\ \A l \in ThreadList : l # RecvQ(q) /\ l # SendQ(q) => r.head[l] = k.head[l]
  BY DEF Settled, QueueMade
<1>1. ASSUME NEW l, l = RecvQ(q) \/ l = SendQ(q)
      PROVE  /\ l \in ThreadList \ {SchedulerQueue} /\ Reach(r, l) = {Sentinel}
             /\ Listed(r, l) = {} /\ Listed(k, l) = {}
  <2>1. l \in ThreadList \ {SchedulerQueue} /\ l \in ThreadList
        /\ k.head[l] = NULL /\ r.head[l] = Sentinel
    BY <1>1, QueueLists DEF QueueMade
  <2>2. Listed(k, l) = {}
    BY <2>1, EmptyReach DEF Ends
  <2>3. Reach(r, l) = {Sentinel} /\ Listed(r, l) = {}
    BY <1>0, <2>1, EmptyReach DEF Ends
  <2> QED BY <2>1, <2>2, <2>3
<1>2. ASSUME NEW l \in ThreadList, l # RecvQ(q), l # SendQ(q)
      PROVE  Chain(r, l) /\ Reach(r, l) = Reach(k, l) /\ Listed(r, l) = Listed(k, l)
  <2>1. Chain(k, l) /\ r.head[l] = k.head[l]
        /\ \A y \in Listed(k, l) : r.next[y] = k.next[y] /\ r.prio[y] = k.prio[y]
    BY <1>0, <1>2 DEF Lists
  <2> QED BY <1>0, <2>1, SameChain
<1>3. \A l \in ThreadList : Listed(r, l) = Listed(k, l)
  BY <1>1, <1>2
<1>4. Lists(r)
  <2>1. \A l \in ThreadList : Chain(r, l)
    <3> TAKE l \in ThreadList
    <3>1. CASE l = RecvQ(q) \/ l = SendQ(q)
      <4>1. Reach(r, l) = {Sentinel} /\ Listed(r, l) = {}
        BY <1>1, <3>1
      <4>2. \E e \in Ends : Reach(r, l) \cap Ends = {e}
        BY <4>1 DEF Ends
      <4> QED BY <4>1, <4>2 DEF Chain
    <3>2. CASE ~ (l = RecvQ(q) \/ l = SendQ(q))
      BY <1>2, <3>2
    <3> QED BY <3>1, <3>2
  <2>2. Sentinel \in Reach(r, SchedulerQueue)
    <3>1. SchedulerQueue \in ThreadList /\ SchedulerQueue # RecvQ(q) /\ SchedulerQueue # SendQ(q)
      BY ListFacts, QueueLists
    <3> QED BY <1>0, <1>2, <3>1 DEF Lists
  <2> QED BY <1>0, <1>3, <2>1, <2>2 DEF Lists
<1>5. Steady(r)
  <2>1. Steady(k)
    BY <1>0 DEF Steady
  <2> QED BY <1>0, <1>3, <1>4, <2>1, SamePlacement
<1>6. CurrentIsHighest(r)
  <2>1. r.head[SchedulerQueue] = k.head[SchedulerQueue]
    BY <1>0, ListFacts, QueueLists
  <2> QED BY <1>0, <2>1 DEF CurrentIsHighest
<1> QED BY <1>1, <1>2, <1>5, <1>6 DEF Steady, Settled

LEMMA QueueMadeKeeps ==
  ASSUME NEW k \in Sched, NEW c \in [Thread -> Continuation], NEW m \in [QueueId -> Ring],
         KInv(k, c, m), NEW q \in QueueId, m[q].size = 0, NEW r, QueueMade(k, r, q),
         NEW n, n[q].size > 0, \A p \in QueueId : p # q => n[p].size = m[p].size
  PROVE  KInv(r, c, n)
<1>1. Settled(k) /\ Accounts(k, c) /\ Queues(k, m) /\ LiveWaits(c, m)
  BY DEF KInv
<1>2. k.head[RecvQ(q)] = NULL /\ k.head[SendQ(q)] = NULL
  BY <1>1 DEF Queues
<1>3. /\ Settled(r)
      /\ Reach(r, SendQ(q)) = {Sentinel}
      /\ \A l \in ThreadList : l # RecvQ(q) /\ l # SendQ(q) => Reach(r, l) = Reach(k, l)
  BY <1>1, <1>2, QueueMadeLists
<1>4. Accounts(r, c)
  BY <1>1 DEF Accounts, QueueMade
<1>5. LiveWaits(c, n)
  <2> SUFFICES ASSUME NEW t \in Thread, c[t].op \in Inside PROVE n[c[t].queue].size > 0
    BY DEF LiveWaits
  <2>1. c[t].queue \in QueueId /\ m[c[t].queue].size > 0
    BY <1>1 DEF LiveWaits, Continuation, Inside
  <2> QED BY <2>1
<1>6. Queues(r, n)
  <2> SUFFICES ASSUME NEW p \in QueueId
               PROVE  /\ n[p].size = 0 => r.head[RecvQ(p)] = NULL /\ r.head[SendQ(p)] = NULL
                      /\ n[p].size > 0 => Sentinel \in Reach(r, SendQ(p))
    BY DEF Queues
  <2>1. CASE p = q
    BY <1>3, <2>1
  <2>2. CASE p # q
    <3>1. n[p].size = m[p].size
      BY <2>2
    <3>2. /\ RecvQ(p) \in ThreadList /\ RecvQ(p) # RecvQ(q) /\ RecvQ(p) # SendQ(q)
          /\ SendQ(p) \in ThreadList /\ SendQ(p) # RecvQ(q) /\ SendQ(p) # SendQ(q)
      BY <2>2, QueueLists
    <3>3. r.head[RecvQ(p)] = k.head[RecvQ(p)] /\ r.head[SendQ(p)] = k.head[SendQ(p)]
      BY <3>2 DEF QueueMade
    <3>4. Reach(r, SendQ(p)) = Reach(k, SendQ(p))
      BY <1>3, <3>2
    <3> QED BY <1>1, <3>1, <3>3, <3>4 DEF Queues
  <2> QED BY <2>1, <2>2
<1> QED BY <1>3, <1>4, <1>5, <1>6 DEF KInv

LEMMA QueueMadeFields ==
  ASSUME NEW k \in Sched, NEW q \in QueueId,
         NEW r, r = [k EXCEPT !.head[RecvQ(q)] = Sentinel, !.head[SendQ(q)] = Sentinel]
  PROVE  QueueMade(k, r, q)
<1> DEFINE h == [[k.head EXCEPT ![RecvQ(q)] = Sentinel] EXCEPT ![SendQ(q)] = Sentinel]
<1>1. RecvQ(q) \in ThreadList /\ SendQ(q) \in ThreadList /\ RecvQ(q) # SendQ(q) /\ Sentinel \in Link
  BY QueueLists, LinkFacts
<1>2. k.head \in [ThreadList -> Link]
  BY DEF Sched
<1>3. /\ h \in [ThreadList -> Link] /\ h[RecvQ(q)] = Sentinel /\ h[SendQ(q)] = Sentinel
      /\ \A l \in ThreadList : l # RecvQ(q) /\ l # SendQ(q) => h[l] = k.head[l]
  BY <1>1, <1>2
<1>4. r = [k EXCEPT !.head = h]
  OBVIOUS
<1> HIDE DEF h
<1>5. /\ r \in Sched /\ r.next = k.next /\ r.prio = k.prio /\ r.state = k.state /\ r.on = k.on
      /\ r.r0 = k.r0 /\ r.current = k.current /\ r.status = k.status /\ r.head = h
  BY <1>3, <1>4 DEF Sched
<1> QED BY <1>3, <1>5 DEF QueueMade

-----------------------------------------------------------------------------
(* The calls, one lemma for each loop of the message queues.                *)

RanNow == Ran(sched, cont, mq)
RanNext == Ran(sched', cont', mq') /\ SameSizes(mq, mq')

LEMMA UserCode == User.op # "join" /\ User.op \notin Inside
BY DEF User, Cont, Inside

LEMMA SizesStay ==
  ASSUME NEW m \in [QueueId -> Ring], NEW q \in QueueId, NEW r, r.size = m[q].size
  PROVE  SameSizes(m, [m EXCEPT ![q] = r])
BY DEF SameSizes

LEMMA RingSizes ==
  ASSUME NEW r \in Ring, NEW x
  PROVE  Appended(r, x).size = r.size /\ Jammed(r, x).size = r.size /\ Taken(r).size = r.size
BY DEF Appended, Jammed, Taken, Stored, Ring

LEMMA ReturnRuns ==
  ASSUME TypeOK, RanNow, NEW t \in Thread, t = sched.current, Return(t)
  PROVE  RanNext
<1>1. sched' = sched /\ mq' = mq /\ cont' = [cont EXCEPT ![sched.current] = User]
  BY DEF Return
<1>2. SameSizes(mq, mq) /\ sched \in Sched /\ cont \in [Thread -> Continuation]
  BY DEF SameSizes, TypeOK
<1>3. Ran(sched, [cont EXCEPT ![sched.current] = User], mq)
  BY <1>2, ReturnKeeps, UserCode DEF RanNow
<1> QED BY <1>1, <1>2, <1>3 DEF RanNext

LEMMA WaitRuns ==
  ASSUME TypeOK, RanNow, NEW t \in Thread, t = sched.current, NEW q \in QueueId,
         mq[q].size > 0, NEW l, l = RecvQ(q) \/ l = SendQ(q),
         NEW d, d.op \in Inside, d.queue = q, l = WaitList(d),
         WaitOn(t, l, d), sched'.status = "ok"
  PROVE  RanNext
<1>1. /\ sched' = YieldCurrentThread([sched EXCEPT !.state[sched.current] = Waiting], l)
      /\ cont' = [cont EXCEPT ![sched.current] = d] /\ mq' = mq
  BY DEF WaitOn
<1>2. sched \in Sched /\ cont \in [Thread -> Continuation] /\ SameSizes(mq, mq)
  BY DEF TypeOK, SameSizes
<1>3. Ran(sched', [cont EXCEPT ![sched.current] = d], mq)
  BY <1>1, <1>2, WaitKeeps DEF RanNow
<1> QED BY <1>1, <1>2, <1>3 DEF RanNext

LEMMA WakeReceiverRuns ==
  ASSUME NEW k \in Sched, NEW c \in [Thread -> Continuation], NEW m, NEW n, Ran(k, c, m),
         SameSizes(m, n), NEW q \in QueueId, m[q].size > 0,
         NEW r, r = WakeReceiver(k, q), r.status = "ok"
  PROVE  Ran(r, [c EXCEPT ![k.current] = User], n)
<1>1. CASE HeadOf(k, RecvQ(q)) # NULL
  <2>1. r = UnblockThread(k, RecvQ(q), Success)
    BY <1>1 DEF WakeReceiver
  <2>2. Success \in Returns
    BY DEF Returns
  <2> QED BY <2>1, <2>2, UnblockKeeps, UserCode
<1>2. CASE ~ (HeadOf(k, RecvQ(q)) # NULL)
  <2>1. r = k
    BY <1>2 DEF WakeReceiver
  <2> QED BY <2>1, ReturnKeeps, UserCode
<1> QED BY <1>1, <1>2

LEMMA WakeSenderRuns ==
  ASSUME NEW k \in Sched, NEW c \in [Thread -> Continuation], NEW m \in [QueueId -> Ring], NEW n,
         Ran(k, c, m), SameSizes(m, n), NEW q \in QueueId,
         NEW r, r = WakeSender(k, q), r.status = "ok"
  PROVE  Ran(r, [c EXCEPT ![k.current] = User], n)
<1>1. CASE k.next[HeadOf(k, SendQ(q))] # NULL
  <2>1. r = UnblockThread(k, SendQ(q), Success)
    BY <1>1 DEF WakeSender
  <2>2. Success \in Returns
    BY DEF Returns
  <2>3. m[q].size > 0
    <3>1. SUFFICES ASSUME m[q].size = 0 PROVE FALSE
      BY DEF Ring
    <3>2. k.head[SendQ(q)] = NULL /\ k.next[NULL] = NULL
      BY <3>1 DEF Ran, KInv, Queues, Settled, Lists
    <3> QED BY <1>1, <3>2 DEF HeadOf
  <2> QED BY <2>1, <2>2, <2>3, UnblockKeeps, UserCode
<1>2. CASE ~ (k.next[HeadOf(k, SendQ(q))] # NULL)
  <2>1. r = k
    BY <1>2 DEF WakeSender
  <2> QED BY <2>1, ReturnKeeps, UserCode
<1> QED BY <1>1, <1>2

LEMMA PutRuns ==
  ASSUME TypeOK, RanNow, NEW t \in Thread, t = sched.current, NEW op \in {"send", "jam"},
         NEW q \in QueueId, NEW x, Full(mq[q]) => mq[q].size > 0,
         PutLoop(t, op, q, x), sched'.status = "ok"
  PROVE  RanNext
<1>0. /\ sched \in Sched /\ cont \in [Thread -> Continuation] /\ mq \in [QueueId -> Ring]
      /\ mq[q] \in Ring
  BY DEF TypeOK
<1>1. CASE Full(mq[q])
  <2> DEFINE d == Cont(op, q, x, NULL)
  <2>1. d.op \in Inside /\ d.queue = q /\ WaitList(d) = SendQ(q)
    BY DEF Cont, Inside, WaitList
  <2>2. WaitOn(t, SendQ(q), d)
    BY <1>1 DEF PutLoop
  <2> HIDE DEF d
  <2> QED BY <1>1, <2>1, <2>2, WaitRuns
<1>2. CASE ~ Full(mq[q])
  <2> DEFINE y == IF op = "send" THEN Appended(mq[q], x) ELSE Jammed(mq[q], x)
  <2>1. /\ mq' = [mq EXCEPT ![q] = y] /\ sched' = WakeReceiver(sched, q)
        /\ cont' = [cont EXCEPT ![sched.current] = User]
    BY <1>2 DEF PutLoop
  <2>2. y.size = mq[q].size
    BY <1>0, RingSizes
  <2> HIDE DEF y
  <2>3. SameSizes(mq, mq')
    BY <1>0, <2>1, <2>2, SizesStay
  <2>4. mq[q].size > 0
    BY <1>0, <1>2 DEF Full, Ring
  <2>5. Ran(sched', [cont EXCEPT ![sched.current] = User], mq')
    BY <1>0, <2>1, <2>3, <2>4, WakeReceiverRuns DEF RanNow
  <2> QED BY <2>1, <2>3, <2>5 DEF RanNext
<1> QED BY <1>1, <1>2

LEMMA TakeRuns ==
  ASSUME TypeOK, RanNow, NEW t \in Thread, t = sched.current, NEW op \in {"recv", "begin"},
         NEW q \in QueueId, mq[q].used = 0 => mq[q].size > 0,
         TakeLoop(t, op, q), sched'.status = "ok"
  PROVE  RanNext
<1>0. /\ sched \in Sched /\ cont \in [Thread -> Continuation] /\ mq \in [QueueId -> Ring]
      /\ mq[q] \in Ring
  BY DEF TypeOK
<1>1. CASE mq[q].used = 0
  <2> DEFINE d == Cont(op, q, NULL, NULL)
  <2>1. d.op \in Inside /\ d.queue = q /\ WaitList(d) = RecvQ(q)
    BY DEF Cont, Inside, WaitList
  <2>2. WaitOn(t, RecvQ(q), d)
    BY <1>1 DEF TakeLoop
  <2> HIDE DEF d
  <2> QED BY <1>1, <2>1, <2>2, WaitRuns
<1>2. CASE mq[q].used # 0
  <2>1. /\ mq' = [mq EXCEPT ![q] = Taken(mq[q])] /\ sched' = WakeSender(sched, q)
        /\ cont' = [cont EXCEPT ![sched.current] = User]
    BY <1>2 DEF TakeLoop
  <2>2. Taken(mq[q]).size = mq[q].size
    BY <1>0, RingSizes
  <2>3. SameSizes(mq, mq')
    BY <1>0, <2>1, <2>2, SizesStay
  <2>4. Ran(sched', [cont EXCEPT ![sched.current] = User], mq')
    BY <1>0, <2>1, <2>3, WakeSenderRuns DEF RanNow
  <2> QED BY <2>1, <2>3, <2>4 DEF RanNext
<1> QED BY <1>1, <1>2

(* DestroyMessageQueue finishes only on a queue that was never created: the *)
(* senders' list of any other ends at the sentinel, which pops to itself.   *)
LEMMA DestroyRuns ==
  ASSUME TypeOK, RanNow, NEW t \in Thread, t = sched.current,
         NEW q \in QueueId, DestroyLoop(t, q), sched'.status = "ok"
  PROVE  RanNext /\ (mq[q].size > 0 => mq' = mq)
<1>0. /\ sched \in Sched /\ cont \in [Thread -> Continuation] /\ mq \in [QueueId -> Ring]
      /\ mq[q] \in Ring /\ Queues(sched, mq) /\ Lists(sched)
  BY DEF TypeOK, RanNow, Ran, KInv, Settled
<1> DEFINE l == IF HeadOf(sched, SendQ(q)) # NULL THEN SendQ(q) ELSE RecvQ(q)
           k1 == UnblockThread(sched, l, Interrupted)
<1>1. CASE mq[q].size > 0
  <2>1. HeadOf(sched, SendQ(q)) # NULL
    <3>1. SUFFICES ASSUME sched.head[SendQ(q)] = NULL PROVE FALSE
      BY DEF HeadOf
    <3>2. Reach(sched, SendQ(q)) = {NULL}
      BY <1>0, <3>1, EmptyReach, QueueLists DEF Ends
    <3>3. Sentinel \in Reach(sched, SendQ(q))
      BY <1>0, <1>1 DEF Queues
    <3> QED BY <3>2, <3>3, LinkFacts
  <2>2. l = SendQ(q) /\ HeadOf(sched, l) # NULL
    BY <2>1
  <2> DEFINE d == Cont("destroy", q, NULL, NULL)
  <2>3. /\ sched' = IF k1 = sched THEN Stop(k1, "hung") ELSE k1
        /\ cont' = [cont EXCEPT ![sched.current] = d] /\ mq' = mq
    BY <2>2 DEF DestroyLoop
  <2>4. d.op # "join" /\ d.op \notin Inside
    BY DEF Cont, Inside
  <2> HIDE DEF d
  <2>5. k1 # sched
    BY <1>0, <2>3, StopFields DEF Statuses
  <2>6. sched' = UnblockThread(sched, SendQ(q), Interrupted)
    BY <2>2, <2>3, <2>5
  <2>7. SameSizes(mq, mq) /\ Interrupted \in Returns
    BY DEF SameSizes, Returns
  <2>8. Ran(sched', [cont EXCEPT ![sched.current] = d], mq)
    BY <1>0, <1>1, <2>4, <2>6, <2>7, UnblockKeeps DEF RanNow
  <2> QED BY <2>3, <2>7, <2>8 DEF RanNext
<1>2. CASE mq[q].size = 0
  <2>1. HeadOf(sched, SendQ(q)) = NULL /\ HeadOf(sched, RecvQ(q)) = NULL
    BY <1>0, <1>2 DEF Queues, HeadOf
  <2>2. /\ mq' = [mq EXCEPT ![q].size = 0] /\ cont' = [cont EXCEPT ![sched.current] = User]
        /\ sched' = sched
    BY <2>1 DEF DestroyLoop
  <2>3. SameSizes(mq, mq')
    BY <1>0, <1>2, <2>2 DEF SameSizes, Ring
  <2>4. Ran(sched, [cont EXCEPT ![sched.current] = User], mq')
    BY <1>0, <2>3, ReturnKeeps, UserCode DEF RanNow
  <2> QED BY <1>2, <2>2, <2>3, <2>4 DEF RanNext
<1>3. mq[q].size = 0 \/ mq[q].size > 0
  BY <1>0 DEF Ring
<1> QED BY <1>1, <1>2, <1>3

LEMMA NewQueueRuns ==
  ASSUME TypeOK, RanNow, NEW t \in Thread, NEW n \in 1 .. MaxQueueSize,
         CreateMessageQueue(t, n)
  PROVE  /\ Ran(sched', cont', mq')
         /\ \A q \in QueueId : mq[q].size > 0 => mq'[q] = mq[q]
<1>0. sched \in Sched /\ cont \in [Thread -> Continuation] /\ mq \in [QueueId -> Ring]
  BY DEF TypeOK
<1>1. PICK q \in QueueId :
       /\ mq[q].size = 0
       /\ mq' = [mq EXCEPT ![q] = [@ EXCEPT !.proc = sched.proc[t], !.used = 0,
                                             !.first = 0, !.size = n]]
       /\ sched' = [sched EXCEPT !.head[RecvQ(q)] = Sentinel,
                                 !.head[SendQ(q)] = Sentinel]
       /\ cont' = cont
  BY DEF CreateMessageQueue
<1>2. mq'[q].size > 0 /\ \A p \in QueueId : p # q => mq'[p] = mq[p]
  BY <1>0, <1>1 DEF Ring
<1>3. QueueMade(sched, sched', q)
  BY <1>0, <1>1, QueueMadeFields
<1>4. KInv(sched', cont, mq')
  <2>1. KInv(sched, cont, mq)
    BY DEF RanNow, Ran
  <2>2. mq[q].size = 0 /\ \A p \in QueueId : p # q => mq'[p].size = mq[p].size
    BY <1>1, <1>2
  <2> QED BY <1>0, <1>2, <1>3, <2>1, <2>2, QueueMadeKeeps
<1>5. sched'.next[Sentinel] = Sentinel
  BY <1>3 DEF QueueMade, RanNow, Ran
<1>6. \A p \in QueueId : mq[p].size > 0 => mq'[p] = mq[p]
  BY <1>1, <1>2
<1> QED BY <1>1, <1>4, <1>5, <1>6 DEF Ran

(* A live thread is one that has a slot and is not dead.                    *)
SetsLivePriorities(t) ==
  \A id \in Thread, p \in Priorities :
    sched.state[Target(t, id)] \in {Unset, Dead} => ~ SetThreadPriority(t, id, p)

LEMMA ThreadCallRuns ==
  ASSUME TypeOK, RanNow, NEW t \in Thread, t = sched.current, SetsLivePriorities(t),
         ThreadCall(t), sched'.status = "ok"
  PROVE  Ran(sched', cont', mq)
<1>0. /\ sched \in Sched /\ cont \in [Thread -> Continuation] /\ mq \in [QueueId -> Ring]
      /\ \A id \in Thread : Target(t, id) \in Thread
      /\ Settled(sched) /\ sched.next[Sentinel] = Sentinel /\ Ran(sched, cont, mq)
      /\ sched.current \in Thread /\ sched.state[sched.current] = Running
  BY DEF TypeOK, Target, RanNow, Ran, KInv, Settled, CurrentRuns
<1>1. CASE YieldThread(t)
  <2>1. /\ sched' = YieldCurrentThread([sched EXCEPT !.state[sched.current] = Ready],
                                       SchedulerQueue)
        /\ cont' = cont
    BY <1>1 DEF YieldThread
  <2>2. Ran(sched', cont, mq)
    BY <1>0, <2>1, GiveWayKeeps
  <2> QED BY <2>1, <2>2
<1>2. ASSUME NEW p \in Priorities, NEW d \in BOOLEAN, CreateThread(t, p, d)
      PROVE  Ran(sched', cont', mq)
  <2>1. PICK u \in Thread :
          /\ FreeSlot(sched, u)
          /\ sched' = Created(sched, u, p, d, sched.proc[t])
          /\ cont' = [cont EXCEPT ![u] = User]
    BY <1>2 DEF CreateThread
  <2>2. p \in Nat /\ sched.proc[t] \in Nat /\ sched.state[u] = Unset
    BY <1>0, <2>1, PrioritiesAssumption, LinkFacts DEF Sched, FreeSlot
  <2>3. Ran(sched', [cont EXCEPT ![u] = User], mq)
    BY <1>0, <2>1, <2>2, CreateKeeps
  <2> QED BY <2>1, <2>3
<1>3. ASSUME NEW id \in Thread, StartThread(t, id) PROVE Ran(sched', cont', mq)
  <2> DEFINE u == Target(t, id)
  <2>1. u \in Thread /\ sched.state[u] = Stopped /\ sched' = Started(sched, u) /\ cont' = cont
    BY <1>0, <1>3 DEF StartThread
  <2> HIDE DEF u
  <2>2. Ran(sched', cont, mq)
    BY <1>0, <2>1, StartKeeps
  <2> QED BY <2>1, <2>2
<1>4. ASSUME NEW id \in Thread, CancelThread(t, id) PROVE Ran(sched', cont', mq)
  <2> DEFINE u  == Target(t, id)
             k1 == IF sched.state[u] = Stopped THEN sched
                   ELSE Remove(sched, SchedulerQueue, u)
             k2 == [k1 EXCEPT !.state[u] = IF k1.detached[u] THEN Unset ELSE Dead,
                              !.r0[sched.current] = Success]
  <2>1. /\ sched' = IF u = sched.current THEN ScheduleYield(k2) ELSE Preempt(k2)
        /\ cont' = cont /\ u \in Thread
    BY <1>0, <1>4 DEF CancelThread
  <2>2. CutShort(sched, u, k1, k2)
    BY DEF CutShort
  <2> HIDE DEF k1, k2, u
  <2>3. Cancelled(sched, sched', u)
    BY <1>0, <2>1, <2>2, CancelLists
  <2>4. Ran(sched', cont, mq)
    BY <1>0, <2>1, <2>3, CancelKeeps
  <2> QED BY <2>1, <2>4
<1>5. ASSUME NEW id \in Thread, JoinThread(t, id) PROVE Ran(sched', cont', mq)
  <2> DEFINE u == Target(t, id)
             d == Cont("join", NULL, NULL, u)
  <2>1. u \in Thread /\ d.op = "join"
    BY <1>0 DEF Cont
  <2>2. CASE sched.state[u] # Dead
    <3>1. /\ sched' = YieldCurrentThread([sched EXCEPT !.state[sched.current] = Waiting], NULL)
          /\ cont' = [cont EXCEPT ![sched.current] = d]
      BY <1>5, <2>2 DEF JoinThread
    <3> HIDE DEF d
    <3>2. Ran(sched', [cont EXCEPT ![sched.current] = d], mq)
      BY <1>0, <2>1, <3>1, JoinKeeps
    <3> QED BY <3>1, <3>2
  <2>3. CASE sched.state[u] = Dead
    <3>1. sched' = [sched EXCEPT !.state[u] = Unset] /\ cont' = cont
      BY <1>5, <2>3 DEF JoinThread
    <3>2. Freed(sched, sched', u)
      BY <1>0, <2>1, <3>1, LinkFacts, SMTT(60) DEF Freed, Sched, States
    <3> HIDE DEF u
    <3>3. Ran(sched', cont, mq)
      BY <1>0, <2>1, <2>3, <3>2, FreeKeeps
    <3> QED BY <3>1, <3>3
  <2> QED BY <2>2, <2>3
<1>6. ASSUME NEW id \in Thread, SuspendThread(t, id) PROVE Ran(sched', cont', mq)
  <2> DEFINE u == Target(t, id)
  <2>1. u \in Thread /\ cont' = cont
    BY <1>0, <1>6 DEF SuspendThread
  <2>2. CASE /\ sched.state[u] = Running
             /\ sched' = YieldCurrentThread([sched EXCEPT !.state[u] = Stopped], NULL)
    <3>1. u = sched.current
      BY <1>0, <2>1, <2>2 DEF Settled, CurrentRuns
    <3>2. sched' = YieldCurrentThread([sched EXCEPT !.state[sched.current] = Stopped], NULL)
      BY <2>2, <3>1
    <3>3. Ran(sched', cont, mq)
      BY <1>0, <3>2, GiveWayKeeps
    <3> QED BY <2>1, <3>3
  <2>3. CASE /\ sched.state[u] \in {Ready, Waiting}
             /\ sched' = Remove([sched EXCEPT !.state[u] = Stopped], sched.on[u], u)
    <3> HIDE DEF u
    <3>1. Ran(sched', cont, mq)
      BY <1>0, <2>1, <2>3, SuspendKeeps
    <3> QED BY <2>1, <3>1
  <2> QED BY <1>6, <2>2, <2>3 DEF SuspendThread
<1>7. ASSUME NEW id \in Thread, NEW p \in Priorities, SetThreadPriority(t, id, p)
      PROVE  Ran(sched', cont', mq)
  <2> DEFINE u == Target(t, id)
  <2>1. /\ u \in Thread /\ cont' = cont /\ sched' = Reprioritised(sched, u, p) /\ p \in Nat
        /\ sched.state[u] \notin {Unset, Dead}
    BY <1>0, <1>7, PrioritiesAssumption DEF SetThreadPriority, SetsLivePriorities
  <2> HIDE DEF u
  <2>2. Moved(sched, sched', u)
    BY <1>0, <2>1, ReprioritisedLists
  <2>3. Ran(sched', cont, mq)
    BY <1>0, <2>1, <2>2, MoveKeeps
  <2> QED BY <2>1, <2>3
<1> QED BY <1>1, <1>2, <1>3, <1>4, <1>5, <1>6, <1>7 DEF ThreadCall

(* While the interrupt handler runs nobody does.                            *)
Handling(k, m) ==
  /\ Lists(k) /\ Placed(k) /\ NobodyRuns(k) /\ Accounts(k, cont)
  /\ Queues(k, m) /\ LiveWaits(cont, m) /\ SameSizes(mq, m)
  /\ sched.next[Sentinel] = Sentinel => k.next[Sentinel] = Sentinel
  /\ \A t \in Thread : sched.state[t] = Unset => k.state[t] = Unset

LEMMA WakeHeadStatus ==
  ASSUME NEW k \in Sched, NEW l \in ThreadList, NEW ret \in Returns,
         WakeHead(k, l, ret).status = "ok"
  PROVE  k.status = "ok"
<1> DEFINE t  == HeadOf(k, l)
           k0 == Pop(k, l)
           k1 == [k0 EXCEPT !.r0[t] = ret, !.state[t] = Ready]
<1>1. t \in Link /\ k0 \in Sched
  BY PopType
<1>2. k0.status = k.status
  BY DEF Pop, Sched
<1>3. k1 \in Sched /\ k1.status = k0.status
  <2> HIDE DEF t, k0
  <2> QED BY <1>1 DEF Sched, States
<1>4. Push(k1, SchedulerQueue, t).status = "ok"
  BY DEF WakeHead
<1> HIDE DEF k1, k0, t
<1>5. k1.status = "ok"
  BY <1>1, <1>3, <1>4, PushStatus, ListFacts
<1> QED BY <1>2, <1>3, <1>5

LEMMA WokenHandling ==
  ASSUME NEW k \in Sched, NEW m \in [QueueId -> Ring], Handling(k, m),
         cont \in [Thread -> Continuation],
         NEW q \in QueueId, m[q].size > 0, NEW n, SameSizes(m, n),
         NEW r, r = WakeHead(k, RecvQ(q), Success), r.status = "ok"
  PROVE  Handling(r, n)
<1> DEFINE l == RecvQ(q)
<1>1. l \in ThreadList \ {SchedulerQueue} /\ l # SchedulerQueue /\ l \in ThreadList
      /\ Success \in Returns
  BY QueueLists DEF Returns
<1>2. /\ Lists(k) /\ Placed(k) /\ NobodyRuns(k) /\ Accounts(k, cont) /\ Queues(k, m)
      /\ LiveWaits(cont, m) /\ SameSizes(mq, m)
  BY DEF Handling
<1>3. Woke(k, r, l, Success)
  BY <1>1, <1>2, WakeHeadLists
<1>4. Placed(r) /\ Awakened(k, r, l, Success) /\ NobodyRuns(r)
  BY <1>1, <1>2, <1>3, WakeHeadPlaced
<1>5. Lists(r)
  BY <1>3 DEF Woke
<1>6. Accounts(r, cont)
  BY <1>1, <1>2, <1>4, AwakenedAccounts
<1>7. Kept(k, r, l) /\ Live(l, m) /\ \A p \in QueueId : l # SendQ(p)
  BY <1>4, AwakenedKept, QueueLists DEF Live
<1> HIDE DEF l
<1>8. Queues(r, n)
  BY <1>2, <1>7, QueuesKept
<1>9. ASSUME NEW t \in Thread, sched.state[t] = Unset PROVE r.state[t] = Unset
  <2>1. k.state[t] = Unset
    BY <1>9 DEF Handling
  <2>2. t # k.head[l]
    <3>1. SUFFICES ASSUME t = k.head[l] PROVE FALSE
      OBVIOUS
    <3>2. t \in Listed(k, l)
      BY <1>4, <3>1 DEF Awakened
    <3>3. k.state[t] = Waiting
      BY <1>1, <1>2, <3>2 DEF Placed
    <3> QED BY <2>1, <3>3 DEF Unset, Waiting
  <2>3. Like(r.state[t], Unset)
    BY <1>4, <2>1, <2>2 DEF Awakened
  <2> QED BY <2>3 DEF Like, Unset, Ready, Running
<1>10. SameSizes(mq, n)
  BY <1>2 DEF SameSizes
<1>11. LiveWaits(cont, n)
  <2> SUFFICES ASSUME NEW t \in Thread, cont[t].op \in Inside PROVE n[cont[t].queue].size > 0
    BY DEF LiveWaits
  <2>1. cont[t].queue \in QueueId
    BY DEF Continuation, Inside
  <2> QED BY <1>2, <2>1 DEF LiveWaits, SameSizes
<1>12. sched.next[Sentinel] = Sentinel => r.next[Sentinel] = Sentinel
  <2>1. sched.next[Sentinel] = Sentinel => k.next[Sentinel] = Sentinel
    BY DEF Handling
  <2> QED BY <1>7, <2>1 DEF Kept
<1> QED BY <1>4, <1>5, <1>6, <1>8, <1>9, <1>10, <1>11, <1>12 DEF Handling

Sound(s) == s \in Both /\ (s.threads.status = "ok" => Handling(s.threads, s.rings))

LEMMA EnqueuedSound ==
  ASSUME NEW s, Sound(s), NEW d \in Device, eventHandlers \in [Device -> EventHandler],
         cont \in [Thread -> Continuation]
  PROVE  Sound(Enqueued(s, d))
<1> DEFINE h == eventHandlers[d]
           q == h.queue
<1>1. /\ h \in EventHandler /\ s \in Both
      /\ s.rings \in [QueueId -> Ring] /\ s.threads \in Sched
  BY DEF Both, Sound
<1>2. CASE q = NULL \/ Full(s.rings[q])
  <2>1. Enqueued(s, d) = s
    BY <1>2 DEF Enqueued
  <2> QED BY <2>1
<1>3. CASE q # NULL /\ ~ Full(s.rings[q])
  <2> DEFINE rings == [s.rings EXCEPT ![q] = Appended(@, h.msg)]
             threads == IF s.threads.next[HeadOf(s.threads, RecvQ(q))] # NULL
                        THEN WakeHead(s.threads, RecvQ(q), Success) ELSE s.threads
  <2>1. q \in QueueId
    BY <1>1, <1>3 DEF EventHandler
  <2>2. s.rings[q] \in Ring
    BY <1>1, <2>1
  <2>3. SameSizes(s.rings, rings)
    BY <1>1, <2>1, <2>2, RingSizes, SizesStay
  <2>4. s.rings[q].size > 0
    BY <1>3, <2>2 DEF Full, Ring
  <2>5. Enqueued(s, d) \in Both
    BY <1>1, EnqueuedType
  <2>6. Enqueued(s, d).rings = rings /\ Enqueued(s, d).threads = threads
    BY <1>3 DEF Enqueued
  <2>7. ASSUME threads.status = "ok" PROVE Handling(threads, rings)
    <3> HIDE DEF rings, q
    <3>1. CASE s.threads.next[HeadOf(s.threads, RecvQ(q))] # NULL
      <4>1. threads = WakeHead(s.threads, RecvQ(q), Success)
        BY <3>1
      <4> HIDE DEF threads
      <4>2. RecvQ(q) \in ThreadList /\ Success \in Returns
        BY <2>1, QueueLists DEF Returns
      <4>3. s.threads.status = "ok"
        BY <1>1, <2>7, <4>1, <4>2, WakeHeadStatus
      <4>4. Handling(s.threads, s.rings)
        BY <4>3 DEF Sound
      <4> QED BY <1>1, <2>1, <2>3, <2>4, <2>7, <4>1, <4>4, WokenHandling
    <3>2. CASE ~ (s.threads.next[HeadOf(s.threads, RecvQ(q))] # NULL)
      <4>1. threads = s.threads
        BY <3>2
      <4> HIDE DEF threads
      <4>2. Handling(s.threads, s.rings)
        BY <2>7, <4>1 DEF Sound
      <4>3. LiveWaits(cont, rings)
        <5> SUFFICES ASSUME NEW t \in Thread, cont[t].op \in Inside
                     PROVE  rings[cont[t].queue].size > 0
          BY DEF LiveWaits
        <5>1. cont[t].queue \in QueueId
          BY DEF Continuation, Inside
        <5> QED BY <2>3, <4>2, <5>1 DEF Handling, LiveWaits, SameSizes
      <4>4. Queues(s.threads, rings)
        BY <2>3, <4>2 DEF Handling, Queues, SameSizes
      <4>5. SameSizes(mq, rings)
        BY <2>3, <4>2 DEF Handling, SameSizes
      <4> QED BY <4>1, <4>2, <4>3, <4>4, <4>5 DEF Handling
    <3> QED BY <3>1, <3>2
  <2> QED BY <2>5, <2>6, <2>7 DEF Sound
<1> QED BY <1>2, <1>3

(* The interrupt handler takes the CPU from a thread and gives it to the    *)
(* first of the scheduler's list, having made ready the threads it woke.    *)
LEMMA PreparedHandling ==
  ASSUME TypeOK, KInv(sched, cont, mq),
         NEW k, k = Push([sched EXCEPT !.state[sched.current] = Ready], SchedulerQueue,
                         sched.current),
         k.status = "ok"
  PROVE  Handling(k, mq)
<1> DEFINE k0 == [sched EXCEPT !.state[sched.current] = Ready]
           S  == SchedulerQueue
<1>1. /\ sched \in Sched /\ Lists(sched) /\ Placed(sched) /\ CurrentRuns(sched)
      /\ Accounts(sched, cont) /\ Queues(sched, mq) /\ LiveWaits(cont, mq)
      /\ cont \in [Thread -> Continuation]
  BY DEF TypeOK, KInv, Settled
<1>2. /\ sched.current \in Thread /\ sched.current \in Link
      /\ sched.state[sched.current] = Running /\ sched.on[sched.current] = S
  BY <1>1, LinkFacts DEF CurrentRuns
<1>3. /\ k0 \in Sched /\ k0.head = sched.head /\ k0.next = sched.next /\ k0.prio = sched.prio
      /\ k0.on = sched.on /\ k0.current = sched.current /\ k0.status = sched.status
      /\ k0.state = [sched.state EXCEPT ![sched.current] = Ready]
  BY <1>1, <1>2 DEF Sched, States
<1>4. k = Push(k0, S, k0.current)
  BY <1>3
<1>5. MayYield(Ready, S)
  BY DEF MayYield
<1> HIDE DEF k0
<1>6. GivenUp(sched, k0, k, Ready, S)
  BY <1>1, <1>3, <1>4, <1>5, GiveUpLists
<1>7. /\ Lists(k) /\ Placed(k) /\ NobodyRuns(k)
      /\ k.state = [sched.state EXCEPT ![sched.current] = Ready] /\ WaitsOn(sched, k, S)
  BY <1>6 DEF GivenUp
<1>8. \A t \in Thread : k.on[t] = sched.on[t]
  BY <1>2, <1>7 DEF WaitsOn
<1>9. \A t \in Thread : Like(k.state[t], sched.state[t])
  <2> TAKE t \in Thread
  <2>1. sched.state[t] \in States /\ k.state[t] = IF t = sched.current THEN Ready ELSE sched.state[t]
    BY <1>1, <1>2, <1>7, LinkFacts DEF Sched
  <2> QED BY <1>2, <2>1 DEF Like
<1>10. Accounts(k, cont)
  <2> SUFFICES ASSUME NEW t \in Thread PROVE Accounted(k.state[t], k.on[t], cont[t])
    BY DEF Accounts
  <2>1. Accounted(sched.state[t], sched.on[t], cont[t])
    BY <1>1 DEF Accounts
  <2> QED BY <1>8, <1>9, <2>1, LikeAccounted
<1>11. Kept(sched, k, S)
  BY <1>7 DEF WaitsOn, Kept
<1>12. SameSizes(mq, mq) /\ Live(S, mq) /\ \A q \in QueueId : S # SendQ(q)
  BY NoList, QueueLists DEF SameSizes
<1>13. Queues(k, mq)
  BY <1>1, <1>11, <1>12, QueuesKept
<1>14. sched.next[Sentinel] = Sentinel => k.next[Sentinel] = Sentinel
  BY <1>7 DEF WaitsOn
<1>15. \A t \in Thread : sched.state[t] = Unset => k.state[t] = Unset
  BY <1>9 DEF Like, Unset, Ready, Running
<1> QED BY <1>1, <1>7, <1>10, <1>12, <1>13, <1>14, <1>15 DEF Handling

LEMMA IrqHandlerRuns ==
  ASSUME TypeOK, KInv(sched, cont, mq), IrqHandler, sched'.status = "ok"
  PROVE  /\ KInv(sched', cont', mq') /\ SameSizes(mq, mq')
         /\ sched.next[Sentinel] = Sentinel => sched'.next[Sentinel] = Sentinel
         /\ \A t \in Thread : sched.state[t] = Unset => sched'.state[t] = Unset
<1> DEFINE raised == irqFlag \cap irqMask
           k0 == [sched EXCEPT !.state[sched.current] = Ready]
           k  == Push(k0, SchedulerQueue, sched.current)
           s0 == [ rings |-> mq, threads |-> k ]
<1>1. /\ raised \subseteq Device /\ eventHandlers \in [Device -> EventHandler]
      /\ cont \in [Thread -> Continuation] /\ mq \in [QueueId -> Ring] /\ cont' = cont
  BY DEF TypeOK, IrqHandler
<1>2. ASSUME NEW s, Sound(s), NEW d PROVE Sound(EnqueuedIf(s, d, raised))
  BY <1>1, <1>2, EnqueuedSound DEF EnqueuedIf
<1>3. k \in Sched
  <2>1. k0 \in Sched /\ sched.current \in Link
    BY DEF TypeOK, Sched, States
  <2> QED BY <2>1, PushType, ListFacts
<1>4. Sound(s0)
  <2>1. k.status = "ok" => Handling(k, mq)
    BY PreparedHandling
  <2> HIDE DEF k
  <2>2. s0 \in Both
    BY <1>1, <1>3 DEF Both
  <2> QED BY <2>1, <2>2 DEF Sound
<1> DEFINE s1 == EnqueuedIf(s0, "TIMER", raised)
           s2 == EnqueuedIf(s1, "OHCI1", raised)
           s3 == EnqueuedIf(s2, "IPC", raised)
           s4 == EnqueuedIf(s3, "SHA1", raised)
           s5 == EnqueuedIf(s4, "AES", raised)
<1>6. mq' = s5.rings /\ sched' = ScheduleYield(s5.threads)
  BY DEF IrqHandler, current
<1> HIDE DEF s0
<1>7. Sound(s1)
  BY <1>2, <1>4
<1> HIDE DEF s1
<1>8. Sound(s2)
  BY <1>2, <1>7
<1> HIDE DEF s2
<1>9. Sound(s3)
  BY <1>2, <1>8
<1> HIDE DEF s3
<1>10. Sound(s4)
  BY <1>2, <1>9
<1> HIDE DEF s4
<1>11. Sound(s5)
  BY <1>2, <1>10
<1> HIDE DEF s5
<1> DEFINE w == s5.threads
<1>12. w \in Sched
  BY <1>11 DEF Sound, Both
<1>13. w.status = "ok"
  BY <1>6, <1>12, ScheduleYieldStatus
<1>14. Handling(w, mq')
  BY <1>6, <1>11, <1>13 DEF Sound
<1>15. sched' = ScheduleYield(w)
  BY <1>6
<1> HIDE DEF w
<1>16. Dispatched(w, sched')
  BY <1>12, <1>14, <1>15, ScheduleYieldLists DEF Handling
<1>17. Settled(sched') /\ SameWaits(w, sched')
       /\ \A t \in Thread : Like(sched'.state[t], w.state[t]) /\ sched'.on[t] = w.on[t]
  BY <1>16 DEF Dispatched, Settled
<1>18. Accounts(sched', cont)
  <2> SUFFICES ASSUME NEW t \in Thread PROVE Accounted(sched'.state[t], sched'.on[t], cont[t])
    BY DEF Accounts
  <2>1. Accounted(w.state[t], w.on[t], cont[t])
    BY <1>14 DEF Handling, Accounts
  <2> QED BY <1>17, <2>1, LikeAccounted
<1>19. Queues(sched', mq')
  <2>1. Kept(w, sched', SchedulerQueue)
    BY <1>17, SameWaitsKept
  <2>2. Live(SchedulerQueue, mq') /\ SameSizes(mq', mq') /\ \A q \in QueueId : SchedulerQueue # SendQ(q)
    BY NoList, QueueLists DEF SameSizes
  <2> QED BY <1>14, <2>1, <2>2, QueuesKept DEF Handling
<1>20. sched.next[Sentinel] = Sentinel => sched'.next[Sentinel] = Sentinel
  BY <1>14, <1>17 DEF Handling, SameWaits
<1>21. \A t \in Thread : sched.state[t] = Unset => sched'.state[t] = Unset
  BY <1>14, <1>17 DEF Handling, Like, Unset, Ready, Running
<1>22. LiveWaits(cont, mq') /\ SameSizes(mq, mq')
  BY <1>14 DEF Handling
<1> QED BY <1>1, <1>17, <1>18, <1>19, <1>20, <1>21, <1>22 DEF KInv

-----------------------------------------------------------------------------
(* Bringing the system up.                                                  *)

LEMMA BootThreadRuns ==
  ASSUME TypeOK, RanNow, BootThread, sched'.status = "ok"
  PROVE  Ran(sched', cont', mq')
<1>1. PICK u \in DOMAIN Programs :
        /\ FreeSlot(sched, u)
        /\ sched' = Started(Created(sched, u, Programs[u].prio, Programs[u].detached,
                                    Programs[u].proc), u)
  BY DEF BootThread
<1>2. /\ u \in Thread /\ sched.state[u] = Unset
      /\ Programs[u].prio \in Nat /\ Programs[u].detached \in BOOLEAN /\ Programs[u].proc \in Nat
  BY <1>1, ProgramsAssumption DEF FreeSlot
<1>3. /\ sched \in Sched /\ cont \in [Thread -> Continuation] /\ mq \in [QueueId -> Ring]
      /\ cont' = cont /\ mq' = mq
  BY DEF TypeOK, BootThread
<1>4. ASSUME NEW p \in Nat, NEW d \in BOOLEAN, NEW pid \in Nat,
             NEW k, k = Created(sched, u, p, d, pid), sched' = Started(k, u)
      PROVE  Ran(sched', cont, mq)
  <2>1. u \in Thread /\ sched.state[u] = Unset /\ sched \in Sched /\ Ran(sched, cont, mq)
        /\ cont \in [Thread -> Continuation] /\ mq \in [QueueId -> Ring]
    BY <1>2, <1>3 DEF RanNow
  <2>2. Ran(k, cont, mq) /\ k \in Sched /\ k.state[u] = Stopped
    <3>1. k = Created(sched, u, p, d, pid) /\ p \in Nat /\ d \in BOOLEAN /\ pid \in Nat
      BY <1>4
    <3>2. k \in Sched
      BY <2>1, <3>1, CreateKeeps
    <3>3. Ran(k, cont, mq)
      BY <2>1, <3>1, CreateKeeps
    <3>4. k.state[u] = Stopped
      BY <2>1, <3>1, LinkFacts DEF Created, Sched
    <3> QED BY <3>2, <3>3, <3>4
  <2> QED BY <1>4, <2>1, <2>2, StartKeeps
<1> QED BY <1>1, <1>2, <1>3, <1>4

LEMMA BootLowerRuns ==
  ASSUME TypeOK, RanNow, BootLower, sched'.status = "ok"
  PROVE  Ran(sched', cont', mq')
<1>1. /\ sched' = Reprioritised(sched, KernelThread, 0) /\ cont' = cont /\ mq' = mq
      /\ KernelThread = sched.current
  BY DEF BootLower, Booting, InUser, IsCurrent, current
<1>2. /\ sched \in Sched /\ cont \in [Thread -> Continuation] /\ mq \in [QueueId -> Ring]
      /\ Settled(sched) /\ sched.next[Sentinel] = Sentinel
      /\ KernelThread \in Thread /\ sched.state[KernelThread] = Running
  BY <1>1 DEF TypeOK, RanNow, Ran, KInv, Settled, CurrentRuns
<1>3. sched.state[KernelThread] \notin {Unset, Dead} /\ 0 \in Nat
  BY <1>2 DEF Unset, Dead, Running
<1>4. Moved(sched, sched', KernelThread)
  BY <1>1, <1>2, <1>3, ReprioritisedLists
<1>5. Ran(sched', cont, mq)
  BY <1>2, <1>4, MoveKeeps DEF RanNow
<1> QED BY <1>1, <1>5

(* The first queue: its send, the first of all, pops the sentinel, which    *)
(* links to itself from then on.                                            *)
LEMMA BootIoscRuns ==
  ASSUME TypeOK, KInv(sched, cont, mq), mq[Token].size = 0, BootIosc, sched'.status = "ok"
  PROVE  Ran(sched', cont', mq') /\ mq'[Token].size = 1
<1> DEFINE k == [sched EXCEPT !.head[RecvQ(Token)] = Sentinel,
                              !.head[SendQ(Token)] = Sentinel]
           new == [mq[Token] EXCEPT !.proc = sched.proc[KernelThread], !.used = 0,
                                    !.first = 0, !.size = 1]
           l == RecvQ(Token)
<1>1. /\ sched \in Sched /\ cont \in [Thread -> Continuation] /\ mq \in [QueueId -> Ring]
      /\ cont' = cont /\ sched' = WakeReceiver(k, Token)
      /\ mq' = [mq EXCEPT ![Token] = Appended(new, NULL)]
  BY DEF TypeOK, BootIosc
<1>2. Token \in QueueId /\ mq[Token] \in Ring
  BY <1>1, SizesAssumption DEF Token, QueueId
<1>3. new.size = 1 /\ Appended(new, NULL).size = new.size
  BY <1>2 DEF Ring, Appended, Stored
<1>4. mq'[Token].size = 1 /\ \A p \in QueueId : p # Token => mq'[p].size = mq[p].size
  <2> HIDE DEF new
  <2> QED BY <1>1, <1>2, <1>3
<1> HIDE DEF new
<1>5. QueueMade(sched, k, Token)
  BY <1>1, <1>2, QueueMadeFields
<1> HIDE DEF k
<1>6. KInv(k, cont, mq')
  <2>1. mq'[Token].size > 0
    BY <1>4
  <2> QED BY <1>1, <1>2, <1>4, <1>5, <2>1, QueueMadeKeeps
<1>7. k \in Sched /\ k.head[l] = Sentinel
  BY <1>5 DEF QueueMade
<1>8. sched' = UnblockThread(k, l, Success)
  BY <1>1, <1>7, LinkFacts DEF WakeReceiver, HeadOf
<1>9. l \in ThreadList \ {SchedulerQueue} /\ l \in ThreadList /\ l # SchedulerQueue
      /\ Success \in Returns
  BY <1>2, QueueLists DEF Returns
<1>10. Settled(k) /\ Accounts(k, cont) /\ Queues(k, mq') /\ LiveWaits(cont, mq')
  BY <1>6 DEF KInv
<1>11. \A q \in QueueId : l # SendQ(q)
  BY <1>2, QueueLists
<1>12. Live(l, mq')
  <2>1. \A q \in QueueId : l = RecvQ(q) => q = Token
    BY <1>2, QueueLists
  <2> QED BY <1>4, <1>11, <2>1 DEF Live
<1> HIDE DEF l
<1>13. Awakened(k, sched', l, Success) /\ Settled(sched')
  BY <1>7, <1>8, <1>9, <1>10, UnblockLists
<1>14. Accounts(sched', cont)
  BY <1>7, <1>9, <1>10, <1>13, AwakenedAccounts DEF Settled
<1>15. Kept(k, sched', l)
  BY <1>13, AwakenedKept
<1>16. Queues(sched', mq')
  <2>1. SameSizes(mq', mq')
    BY DEF SameSizes
  <2> QED BY <1>10, <1>11, <1>12, <1>15, <2>1, QueuesKept
<1>17. sched'.next[Sentinel] = Sentinel
  BY <1>7, <1>13 DEF Awakened
<1> QED BY <1>1, <1>4, <1>10, <1>13, <1>14, <1>16, <1>17 DEF Ran, KInv

-----------------------------------------------------------------------------
(* The calls of a program.  A queue call that can block is one on a queue   *)
(* there is: no call asks whether a queue of process 0 was created, and one *)
(* that was not has no list to wait on.                                     *)
UsesLiveQueues(t) ==
  \A q \in QueueId : mq[q].size = 0 =>
    ~ (ReceiveMessage(t, q) \/ \E m \in Msg : SendMessage(t, q, m) \/ JamMessage(t, q, m))

RanOn == Ran(sched', cont', mq') /\ \A q \in QueueId : mq[q].size > 0 => mq'[q].size = mq[q].size

LEMMA RanNextOn ==
  ASSUME RanNext
  PROVE  RanOn
BY DEF RanNext, RanOn, SameSizes

LEMMA SendRuns ==
  ASSUME TypeOK, RanNow, NEW t \in Thread, UsesLiveQueues(t), sched'.status = "ok",
         NEW q \in QueueId, NEW m \in Msg,
         SendMessage(t, q, m) \/ SendMessageNonblocking(t, q, m) \/ JamMessage(t, q, m)
  PROVE  RanNext
<1>1. t = sched.current /\ mq[q] \in Ring
  BY DEF SendMessage, SendMessageNonblocking, JamMessage, MayCall, InUser, IsCurrent, current, TypeOK
<1>2. mq[q].size = 0 \/ mq[q].size > 0
  BY <1>1 DEF Ring
<1>3. CASE SendMessage(t, q, m)
  <2>1. mq[q].size > 0
    BY <1>2, <1>3 DEF UsesLiveQueues
  <2>2. PutLoop(t, "send", q, m)
    BY <1>3 DEF SendMessage
  <2> QED BY <1>1, <2>1, <2>2, PutRuns
<1>4. CASE SendMessageNonblocking(t, q, m)
  <2>1. ~ Full(mq[q]) /\ PutLoop(t, "send", q, m)
    BY <1>4 DEF SendMessageNonblocking
  <2> QED BY <1>1, <2>1, PutRuns
<1>5. CASE JamMessage(t, q, m)
  <2>1. mq[q].size > 0
    BY <1>2, <1>5 DEF UsesLiveQueues
  <2>2. PutLoop(t, "jam", q, m)
    BY <1>5 DEF JamMessage
  <2> QED BY <1>1, <2>1, <2>2, PutRuns
<1> QED BY <1>3, <1>4, <1>5

LEMMA ReceiveRuns ==
  ASSUME TypeOK, RanNow, NEW t \in Thread, UsesLiveQueues(t), sched'.status = "ok",
         NEW q \in QueueId, ReceiveMessage(t, q) \/ ReceiveMessageNonblocking(t, q)
  PROVE  RanNext
<1>1. t = sched.current /\ mq[q] \in Ring
  BY DEF ReceiveMessage, ReceiveMessageNonblocking, MayCall, InUser, IsCurrent, current, TypeOK
<1>2. mq[q].size = 0 \/ mq[q].size > 0
  BY <1>1 DEF Ring
<1>3. TakeLoop(t, "recv", q) /\ (mq[q].used = 0 => mq[q].size > 0)
  BY <1>2 DEF ReceiveMessage, ReceiveMessageNonblocking, UsesLiveQueues
<1> QED BY <1>1, <1>3, TakeRuns

(* The code of a call that was waiting goes on when its thread runs again.  *)
LEMMA ResumedQueue ==
  ASSUME TypeOK, RanNow, NEW t \in Thread, cont[t].op \in Inside
  PROVE  cont[t].queue \in QueueId /\ mq[cont[t].queue].size > 0
BY DEF TypeOK, RanNow, Ran, KInv, LiveWaits, Continuation, Inside

LEMMA PutResumesRuns ==
  ASSUME TypeOK, RanNow, NEW t \in Thread, PutResumes(t), sched'.status = "ok"
  PROVE  RanNext
<1>1. PICK op \in {"send", "jam"} :
        /\ Resumes(t, op)
        /\ IF sched.r0[t] # Success
           THEN Return(t) /\ delivered' = NoDelivery
           ELSE PutLoop(t, op, cont[t].queue, cont[t].msg)
  BY DEF PutResumes
<1>2. t = sched.current /\ cont[t].op \in Inside
  BY <1>1 DEF Resumes, IsCurrent, current, Inside
<1>3. cont[t].queue \in QueueId /\ mq[cont[t].queue].size > 0
  BY <1>2, ResumedQueue
<1>4. CASE Return(t)
  BY <1>2, <1>4, ReturnRuns
<1>5. CASE PutLoop(t, op, cont[t].queue, cont[t].msg)
  <2> DEFINE q == cont[t].queue
             x == cont[t].msg
  <2> HIDE DEF q, x
  <2> QED BY <1>2, <1>3, <1>5, PutRuns DEF q, x
<1> QED BY <1>1, <1>4, <1>5

LEMMA TakeResumesRuns ==
  ASSUME TypeOK, RanNow, NEW t \in Thread, TakeResumes(t), sched'.status = "ok"
  PROVE  RanNext
<1>2. t = sched.current /\ cont[t].op \in Inside
  BY DEF TakeResumes, Resumes, IsCurrent, current, Inside
<1>3. cont[t].queue \in QueueId /\ mq[cont[t].queue].size > 0
  BY <1>2, ResumedQueue
<1>4. CASE Return(t)
  BY <1>2, <1>4, ReturnRuns
<1>5. CASE TakeLoop(t, "recv", cont[t].queue)
  BY <1>2, <1>3, <1>5, TakeRuns
<1> QED BY <1>4, <1>5 DEF TakeResumes

LEMMA MessageCallRuns ==
  ASSUME TypeOK, RanNow, NEW t \in Thread, UsesLiveQueues(t), MessageCall(t),
         sched'.status = "ok"
  PROVE  RanOn
<1>1. CASE \E n \in 1 .. MaxQueueSize : CreateMessageQueue(t, n)
  BY <1>1, NewQueueRuns DEF RanOn
<1>2. CASE \E q \in QueueId, m \in Msg :
             SendMessage(t, q, m) \/ SendMessageNonblocking(t, q, m) \/ JamMessage(t, q, m)
  BY <1>2, SendRuns, RanNextOn
<1>3. CASE \E q \in QueueId : ReceiveMessage(t, q) \/ ReceiveMessageNonblocking(t, q)
  BY <1>3, ReceiveRuns, RanNextOn
<1>4. CASE \E q \in QueueId : DestroyMessageQueue(t, q)
  <2>1. PICK q \in QueueId : DestroyMessageQueue(t, q)
    BY <1>4
  <2>2. t = sched.current /\ DestroyLoop(t, q)
    BY <2>1 DEF DestroyMessageQueue, MayCall, InUser, IsCurrent, current
  <2> QED BY <2>2, DestroyRuns, RanNextOn
<1>5. CASE PutResumes(t)
  BY <1>5, PutResumesRuns, RanNextOn
<1>6. CASE TakeResumes(t)
  BY <1>6, TakeResumesRuns, RanNextOn
<1>7. CASE DestroyResumes(t)
  <2>1. t = sched.current /\ DestroyLoop(t, cont[t].queue) /\ cont[t].op = "destroy"
    BY <1>7 DEF DestroyResumes, Resumes, IsCurrent, current
  <2>2. cont[t].queue \in QueueId
    BY <2>1 DEF TypeOK, Continuation
  <2> QED BY <2>1, <2>2, DestroyRuns, RanNextOn
<1> QED BY <1>1, <1>2, <1>3, <1>4, <1>5, <1>6, <1>7 DEF MessageCall

LEMMA IoscRuns ==
  ASSUME TypeOK, RanNow, mq[Token].size > 0, NEW t \in Thread,
         IoscBegin(t) \/ IoscEnd(t) \/ BeginResumes(t), sched'.status = "ok"
  PROVE  RanNext
<1>1. Token \in QueueId
  BY SizesAssumption DEF Token, QueueId
<1>2. t = sched.current
  BY DEF IoscBegin, IoscEnd, BeginResumes, MayCall, InUser, Resumes, IsCurrent, current
<1>3. CASE TakeLoop(t, "begin", Token)
  BY <1>1, <1>2, <1>3, TakeRuns
<1>4. CASE Return(t)
  BY <1>2, <1>4, ReturnRuns
<1>5. CASE ~ Full(mq[Token]) /\ PutLoop(t, "send", Token, NULL)
  BY <1>1, <1>2, <1>5, PutRuns
<1> QED BY <1>3, <1>4, <1>5 DEF IoscBegin, IoscEnd, BeginResumes, BeginLoop,
                               ReceiveMessageUnsafe, SendMessageUnsafe

LEMMA CallRuns ==
  ASSUME TypeOK, RanNow, mq[Token].size = 1, NEW t \in Thread, UsesLiveQueues(t),
         SetsLivePriorities(t), Call(t), sched'.status = "ok"
  PROVE  Ran(sched', cont', mq') /\ mq'[Token].size = 1
<1>1. Token \in QueueId /\ mq[Token].size > 0
  BY SizesAssumption DEF Token, QueueId
<1>2. CASE ThreadCall(t) /\ UNCHANGED mq
  <2>1. t = sched.current
    BY <1>2 DEF ThreadCall, YieldThread, CreateThread, StartThread, CancelThread, JoinThread,
                SuspendThread, SetThreadPriority, MayCall, InUser, IsCurrent, current
  <2>2. Ran(sched', cont', mq)
    BY <1>2, <2>1, ThreadCallRuns
  <2> QED BY <1>2, <2>2
<1>3. CASE MessageCall(t)
  <2>1. RanOn
    BY <1>3, MessageCallRuns
  <2> QED BY <1>1, <2>1 DEF RanOn
<1>4. CASE EventCall(t)
  <2>1. UNCHANGED <<sched, cont, mq>>
    BY <1>4 DEF EventCall, ClearAndEnableEvent, RegisterEventHandler, UnregisterEventHandler
  <2> QED BY <2>1 DEF RanNow
<1>5. CASE IoscBegin(t) \/ IoscEnd(t) \/ BeginResumes(t)
  <2>1. RanNext
    BY <1>1, <1>5, IoscRuns
  <2> QED BY <1>1, <2>1 DEF RanNext, SameSizes
<1> QED BY <1>2, <1>3, <1>4, <1>5 DEF Call

-----------------------------------------------------------------------------
(* The invariant of the whole kernel while the processor runs.              *)

(* Until kernel_main makes the token's queue nobody else has been created;  *)
(* from then on that queue stays, and the sentinel links to itself.         *)
Stage ==
  IF boot = "iosc"
  THEN mq[Token].size = 0 /\ \A t \in Thread \ {KernelThread} : sched.state[t] = Unset
  ELSE mq[Token].size = 1 /\ sched.next[Sentinel] = Sentinel

IInv == Alive => KInv(sched, cont, mq) /\ Stage

(* What the steps of the programs are assumed to respect: kernel_main makes *)
(* no call of its own before the token's queue, no call blocks on a queue   *)
(* that does not exist, and no priority is set of a slot without a live     *)
(* thread.                                                                  *)
BootsFirst == boot = "iosc" => ~ Call(KernelThread)
Proper == \A t \in Thread : UsesLiveQueues(t) /\ SetsLivePriorities(t)

LEMMA InitLists ==
  ASSUME Init
  PROVE  Settled(sched)
<1>1. sched \in Sched
  BY TypeInit DEF TypeOK
<1>2. /\ \A l \in ThreadList : sched.head[l] = IF l = SchedulerQueue THEN Sentinel ELSE NULL
      /\ \A x \in Link : sched.next[x] = IF x = KernelThread THEN Sentinel ELSE NULL
      /\ \A x \in Link : sched.state[x] = IF x = KernelThread THEN Running ELSE Unset
      /\ sched.current = KernelThread
  BY DEF Init
<1>3. KernelThread \in Thread /\ KernelThread \in Link /\ Sentinel \in Link /\ NULL \in Link
      /\ KernelThread # Sentinel /\ KernelThread # NULL /\ SchedulerQueue \in ThreadList
  BY LinkFacts, ListFacts, SizesAssumption DEF KernelThread, Thread
<1>4. /\ sched.prio[Sentinel] = -1 /\ sched.prio[KernelThread] = 127
      /\ \A t \in Thread : sched.prio[t] >= 0
  <2>1. sched.prio = [x \in Link |-> CASE x = KernelThread -> KernelPriority
                                         [] x = Sentinel -> -1
                                         [] x = NULL -> LowMemPriority
                                         [] OTHER -> 0]
    BY DEF Init
  <2> QED BY <1>3, <2>1, LinkFacts DEF KernelPriority
<1>5. sched.on[KernelThread] = SchedulerQueue
  <2>1. sched.on = [x \in Link |-> IF x = KernelThread THEN SchedulerQueue ELSE NULL]
    BY DEF Init
  <2> QED BY <1>3, <2>1
<1>6. ASSUME NEW l \in ThreadList
      PROVE  Reach(sched, l) = {sched.head[l]} /\ Listed(sched, l) = {} /\ Chain(sched, l)
  <2>1. sched.head[l] \in Ends
    BY <1>2 DEF Ends
  <2>2. Reach(sched, l) = {sched.head[l]} /\ Listed(sched, l) = {}
    BY <1>1, <2>1, EmptyReach
  <2>3. \E e \in Ends : Reach(sched, l) \cap Ends = {e}
    BY <2>1, <2>2
  <2> QED BY <2>2, <2>3 DEF Chain
<1>7. Lists(sched)
  <2>1. sched.next[NULL] = NULL /\ sched.next[Sentinel] \in Ends
    BY <1>2, <1>3 DEF Ends
  <2>2. Sentinel \in Reach(sched, SchedulerQueue)
    BY <1>2, <1>3, <1>6
  <2> QED BY <1>4, <1>6, <2>1, <2>2 DEF Lists
<1>8. \A t \in Thread : sched.state[t] = IF t = KernelThread THEN Running ELSE Unset
  BY <1>2, LinkFacts
<1>9. Placed(sched)
  BY <1>3, <1>6, <1>8 DEF Placed, Ready, Waiting, Running, Unset
<1>10. CurrentRuns(sched)
  BY <1>2, <1>3, <1>5, <1>8 DEF CurrentRuns, Running, Unset
<1>11. CurrentIsHighest(sched)
  BY <1>2, <1>3, <1>4 DEF CurrentIsHighest
<1> QED BY <1>7, <1>9, <1>10, <1>11 DEF Settled

LEMMA InvInit == Init => IInv
<1> SUFFICES ASSUME Init PROVE KInv(sched, cont, mq) /\ Stage
  BY DEF IInv
<1>1. /\ \A t \in Thread : sched.state[t] = IF t = KernelThread THEN Running ELSE Unset
      /\ \A t \in Thread : sched.on[t] = IF t = KernelThread THEN SchedulerQueue ELSE NULL
      /\ \A t \in Thread : cont[t] = User
      /\ \A q \in QueueId : mq[q].size = 0
      /\ \A l \in ThreadList : l # SchedulerQueue => sched.head[l] = NULL
  BY LinkFacts DEF Init
<1>2. Accounts(sched, cont)
  BY <1>1, UserCode DEF Accounts, Accounted, Running, Unset, Waiting
<1>3. LiveWaits(cont, mq)
  BY <1>1, UserCode DEF LiveWaits
<1>4. Queues(sched, mq)
  BY <1>1, QueueLists DEF Queues
<1>5. Stage
  <2>1. Token \in QueueId /\ boot = "iosc"
    BY SizesAssumption DEF Token, QueueId, Init
  <2> QED BY <1>1, <2>1 DEF Stage
<1> QED BY <1>2, <1>3, <1>4, <1>5, InitLists DEF KInv

(* Only the thread that has the CPU calls.                                  *)
LEMMA CurrentCalls ==
  ASSUME NEW t \in Thread, Call(t)
  PROVE  Alive /\ t = sched.current /\ boot' = boot
<1>1. CASE InUser(t) \/ \E op \in ContOps : Resumes(t, op)
  BY <1>1 DEF Call, InUser, Resumes, IsCurrent, current, Alive
<1>2. CASE ThreadCall(t)
  BY <1>1, <1>2 DEF ThreadCall, YieldThread, CreateThread, StartThread, CancelThread,
                    JoinThread, SuspendThread, SetThreadPriority, MayCall
<1>3. CASE MessageCall(t)
  <2>1. PutResumes(t) \/ TakeResumes(t) \/ DestroyResumes(t)
           => \E op \in ContOps : Resumes(t, op)
    BY DEF PutResumes, TakeResumes, DestroyResumes, ContOps
  <2>2. \/ PutResumes(t) \/ TakeResumes(t) \/ DestroyResumes(t) \/ InUser(t)
    BY <1>3 DEF MessageCall, CreateMessageQueue, SendMessage, SendMessageNonblocking,
                JamMessage, ReceiveMessage, ReceiveMessageNonblocking,
                DestroyMessageQueue, MayCall
  <2> QED BY <1>1, <2>1, <2>2
<1>4. CASE EventCall(t)
  BY <1>1, <1>4 DEF EventCall, ClearAndEnableEvent, RegisterEventHandler,
                    UnregisterEventHandler, MayCall
<1>5. CASE IoscBegin(t) \/ IoscEnd(t) \/ BeginResumes(t)
  BY <1>1, <1>5 DEF IoscBegin, IoscEnd, BeginResumes, MayCall, ContOps
<1> QED BY <1>2, <1>3, <1>4, <1>5 DEF Call

LEMMA InvStep ==
  ASSUME TypeOK, IInv, Next, BootsFirst, boot = "iosc" \/ Proper
  PROVE  IInv'
<1> SUFFICES ASSUME sched'.status = "ok" PROVE KInv(sched', cont', mq') /\ Stage'
  BY DEF IInv, Alive
<1>1. CASE BootIosc
  <2>1. Alive /\ boot = "iosc" /\ boot' = "threads"
    BY <1>1 DEF BootIosc, Booting, InUser, IsCurrent, Alive
  <2>2. KInv(sched, cont, mq) /\ mq[Token].size = 0
    BY <2>1 DEF IInv, Stage
  <2>3. Ran(sched', cont', mq') /\ mq'[Token].size = 1
    BY <1>1, <2>2, BootIoscRuns
  <2> QED BY <2>1, <2>3 DEF Ran, Stage
<1>2. CASE BootThread \/ BootLower
  <2>1. Alive /\ boot = "threads" /\ boot' # "iosc" /\ mq' = mq
    BY <1>2 DEF BootThread, BootLower, Booting, InUser, IsCurrent, Alive
  <2>2. RanNow /\ mq[Token].size = 1
    BY <2>1 DEF IInv, Stage, RanNow, Ran
  <2>3. Ran(sched', cont', mq')
    BY <1>2, <2>2, BootThreadRuns, BootLowerRuns
  <2> QED BY <2>1, <2>2, <2>3 DEF Ran, Stage
<1>3. ASSUME NEW t \in Thread, Call(t) PROVE KInv(sched', cont', mq') /\ Stage'
  <2>1. /\ Alive /\ t = sched.current /\ boot' = boot
    BY <1>3, CurrentCalls
  <2>2. KInv(sched, cont, mq) /\ Stage
    BY <2>1 DEF IInv
  <2>3. boot # "iosc"
    <3>1. SUFFICES ASSUME boot = "iosc" PROVE FALSE
      OBVIOUS
    <3>2. sched.state[t] = Running
      BY <2>1, <2>2 DEF KInv, Settled, CurrentRuns
    <3>3. t = KernelThread
      BY <2>2, <3>1, <3>2 DEF Stage, Running, Unset
    <3> QED BY <1>3, <3>1, <3>3 DEF BootsFirst
  <2>4. RanNow /\ mq[Token].size = 1
    BY <2>2, <2>3 DEF Stage, RanNow, Ran
  <2>5. UsesLiveQueues(t) /\ SetsLivePriorities(t)
    BY <2>3 DEF Proper
  <2>6. Ran(sched', cont', mq') /\ mq'[Token].size = 1
    BY <1>3, <2>4, <2>5, CallRuns
  <2> QED BY <2>1, <2>3, <2>6 DEF Ran, Stage
<1>4. CASE IrqHandler /\ UNCHANGED <<boot, holding>>
  <2>1. Alive /\ boot' = boot
    BY <1>4 DEF IrqHandler, InUser, IsCurrent, Alive
  <2>2. KInv(sched, cont, mq) /\ Stage
    BY <2>1 DEF IInv
  <2>3. /\ KInv(sched', cont', mq') /\ SameSizes(mq, mq')
        /\ sched.next[Sentinel] = Sentinel => sched'.next[Sentinel] = Sentinel
        /\ \A t \in Thread : sched.state[t] = Unset => sched'.state[t] = Unset
    BY <1>4, <2>2, IrqHandlerRuns
  <2>4. Token \in QueueId
    BY SizesAssumption DEF Token, QueueId
  <2> QED BY <2>1, <2>2, <2>3, <2>4 DEF Stage, SameSizes
<1>5. CASE (\E d \in Device : Raise(d)) /\ UNCHANGED <<boot, holding>>
  <2>1. UNCHANGED <<sched, cont, mq, boot>> /\ Alive
    BY <1>5 DEF Raise, Alive
  <2>2. KInv(sched, cont, mq) /\ Stage
    BY <2>1 DEF IInv
  <2> QED BY <2>1, <2>2 DEF Stage
<1> QED BY <1>1, <1>2, <1>3, <1>4, <1>5 DEF Next, KernelMain, IrqStep

LEMMA InvStays ==
  TypeOK /\ IInv /\ [Next]_vars /\ [BootsFirst /\ Proper]_vars => IInv'
<1> SUFFICES ASSUME TypeOK, IInv, [Next]_vars, [BootsFirst /\ Proper]_vars PROVE IInv'
  OBVIOUS
<1>1. CASE UNCHANGED vars
  BY <1>1 DEF vars, IInv, Alive, Stage
<1>2. CASE Next /\ BootsFirst /\ Proper
  BY <1>2, InvStep
<1> QED BY <1>1, <1>2

(* The invariant is one of every run of the kernel whose programs make      *)
(* proper calls, whatever else they call and whatever interrupts them.      *)
THEOREM ListsStayWellFormed == Spec /\ [][BootsFirst /\ Proper]_vars => []IInv
BY TypeInit, TypeStep, InvInit, InvStays, PTL DEF Spec

(* Every wake up, preemption, suspension and change of priority leaves one  *)
(* thread Running and the scheduler's list holding exactly those that are   *)
(* ready, the first of them no higher than the one that runs.               *)
LEMMA InvAccountsScheduler == TypeOK /\ IInv => SchedulerAccounted /\ HighestPriorityRuns
<1> SUFFICES ASSUME TypeOK, IInv, Alive
             PROVE  /\ {t \in Thread : sched.state[t] = Running} = {sched.current}
                    /\ Members(SchedulerQueue) = {t \in Thread : sched.state[t] = Ready}
                    /\ HighestPriorityRuns
  BY DEF SchedulerAccounted, HighestPriorityRuns
<1> DEFINE c == sched.current
<1>1. /\ sched \in Sched /\ Lists(sched) /\ Placed(sched) /\ CurrentRuns(sched)
      /\ CurrentIsHighest(sched)
  BY DEF TypeOK, IInv, KInv, Settled
<1>2. {t \in Thread : sched.state[t] = Running} = {c}
  BY <1>1 DEF CurrentRuns
<1>3. Members(SchedulerQueue) = Listed(sched, SchedulerQueue)
  BY DEF Members, Listed, Reach
<1>4. Listed(sched, SchedulerQueue) = {t \in Thread : sched.state[t] = Ready}
  BY <1>1, ReachFacts, ListFacts DEF Placed
<1>5. ASSUME NEW t \in Thread, sched.state[t] = Ready
      PROVE  /\ sched.prio[t] <= sched.prio[c]
             /\ GetThreadPriority(c, t) <= GetThreadPriority(c, 0)
  <2>1. /\ c \in Thread /\ c \in Link /\ t \in Link /\ SchedulerQueue \in ThreadList
        /\ \A x \in Link : sched.prio[x] \in Int
        /\ sched.head[SchedulerQueue] \in Link /\ sched.prio[c] >= 0
    BY <1>1, LinkFacts, ListFacts DEF CurrentRuns, Sched, Lists
  <2>2. sched.prio[t] <= sched.prio[sched.head[SchedulerQueue]]
    BY <1>1, <1>4, <1>5, <2>1, HeadIsHighest DEF Lists
  <2>3. sched.prio[t] <= sched.prio[c]
    BY <1>1, <2>1, <2>2 DEF CurrentIsHighest
  <2>4. GetThreadPriority(c, 0) = sched.prio[c]
    BY DEF GetThreadPriority, Owns, Target
  <2>5. GetThreadPriority(c, t) \in {sched.prio[t], sched.prio[c], -4}
    BY DEF GetThreadPriority, Target
  <2> QED BY <2>1, <2>3, <2>4, <2>5
<1>6. HighestPriorityRuns
  BY <1>5 DEF HighestPriorityRuns
<1> QED BY <1>2, <1>3, <1>4, <1>6

LEMMA InvListsWaiters == TypeOK /\ IInv => WaitersAreListed
<1> SUFFICES ASSUME TypeOK, IInv, Alive
             PROVE  /\ \A q \in QueueId :
                         /\ Members(RecvQ(q)) = WaitingIn(InReceive(q))
                         /\ Members(SendQ(q)) = WaitingIn(InSend(q))
                    /\ \A l \in ThreadList : \A t \in Members(l) :
                         sched.next[t] \in Thread => sched.prio[sched.next[t]] <= sched.prio[t]
  BY DEF WaitersAreListed
<1>1. sched \in Sched /\ Lists(sched) /\ Placed(sched) /\ Accounts(sched, cont)
  BY DEF TypeOK, IInv, KInv, Settled
<1>2. \A l : Members(l) = Listed(sched, l)
  BY DEF Members, Listed, Reach
<1>3. \A l \in ThreadList : \A t \in Listed(sched, l) :
        sched.next[t] \in Thread => sched.prio[sched.next[t]] <= sched.prio[t]
  BY <1>1 DEF Lists, Chain
<1>4. ASSUME NEW l \in ThreadList \ {SchedulerQueue}
      PROVE  Listed(sched, l) = {t \in Thread : sched.state[t] = Waiting /\ WaitList(cont[t]) = l}
  <2>1. ASSUME NEW t \in Listed(sched, l)
        PROVE  t \in Thread /\ sched.state[t] = Waiting /\ WaitList(cont[t]) = l
    <3>1. t \in Thread /\ sched.state[t] = Waiting /\ sched.on[t] = l
      BY <1>1 DEF Placed, Listed
    <3>2. Accounted(sched.state[t], sched.on[t], cont[t]) /\ l # NULL
      BY <1>1, <3>1, QueueLists DEF Accounts
    <3> QED BY <3>1, <3>2 DEF Accounted
  <2>2. ASSUME NEW t \in Thread, sched.state[t] = Waiting, WaitList(cont[t]) = l
        PROVE  t \in Listed(sched, l)
    <3>1. Accounted(sched.state[t], sched.on[t], cont[t]) /\ l # NULL
      BY <1>1, QueueLists DEF Accounts
    <3>2. cont[t].op # "join"
      BY <2>2, <3>1 DEF WaitList
    <3>3. sched.on[t] \notin {NULL, SchedulerQueue} /\ t \in Listed(sched, sched.on[t])
      BY <1>1, <2>2, <3>1, <3>2 DEF Accounted, Placed
    <3>4. sched.on[t] = l
      BY <2>2, <3>1, <3>3 DEF Accounted
    <3> QED BY <3>3, <3>4
  <2> QED BY <2>1, <2>2
<1>5. ASSUME NEW q \in QueueId
      PROVE  Members(RecvQ(q)) = WaitingIn(InReceive(q)) /\ Members(SendQ(q)) = WaitingIn(InSend(q))
  <2>1. RecvQ(q) \in ThreadList \ {SchedulerQueue} /\ SendQ(q) \in ThreadList \ {SchedulerQueue}
    BY QueueLists
  <2>2. ASSUME NEW t \in Thread
        PROVE  /\ WaitList(cont[t]) = RecvQ(q) <=> t \in InReceive(q)
               /\ WaitList(cont[t]) = SendQ(q) <=> t \in InSend(q)
    <3>1. cont[t] \in Continuation
      BY DEF TypeOK
    <3>2. CASE cont[t].op \in {"recv", "begin"}
      <4>1. WaitList(cont[t]) = RecvQ(cont[t].queue) /\ cont[t].queue \in QueueId
        BY <3>1, <3>2 DEF WaitList, Continuation
      <4> QED BY <3>2, <4>1, QueueLists DEF InReceive, InSend
    <3>3. CASE cont[t].op \in {"send", "jam"}
      <4>1. WaitList(cont[t]) = SendQ(cont[t].queue) /\ cont[t].queue \in QueueId
        BY <3>1, <3>3 DEF WaitList, Continuation
      <4> QED BY <3>3, <4>1, QueueLists DEF InReceive, InSend
    <3>4. CASE cont[t].op \notin {"send", "jam", "recv", "begin"}
      <4>1. WaitList(cont[t]) = NULL
        BY <3>4 DEF WaitList
      <4> QED BY <2>1, <3>4, <4>1, QueueLists DEF InReceive, InSend
    <3> QED BY <3>2, <3>3, <3>4
  <2>3. \A t \in InReceive(q) \cup InSend(q) : t \in Thread
    BY DEF InReceive, InSend
  <2> QED BY <1>2, <1>4, <2>1, <2>2, <2>3 DEF WaitingIn
<1> QED BY <1>2, <1>3, <1>5

LEMMA InvStrandsJoiners == TypeOK /\ IInv => JoinersAreStranded
<1> SUFFICES ASSUME TypeOK, IInv, Alive, NEW t \in Thread, cont[t].op = "join",
                    sched.state[t] # Unset
             PROVE  /\ sched.state[t] \in {Waiting, Stopped, Dead}
                    /\ \A l \in ThreadList : t \notin Walk(sched, l, Thread)
  BY DEF JoinersAreStranded
<1>1. Placed(sched) /\ Accounted(sched.state[t], sched.on[t], cont[t])
  BY DEF IInv, KInv, Settled, Accounts
<1>2. sched.state[t] = Waiting /\ sched.on[t] = SchedulerQueue
  BY <1>1 DEF Accounted
<1>3. ASSUME NEW l \in ThreadList, t \in Walk(sched, l, Thread) PROVE FALSE
  <2>1. t \in Listed(sched, l)
    BY <1>3 DEF Listed, Reach
  <2>2. l = SchedulerQueue
    BY <1>1, <1>2, <2>1 DEF Placed
  <2>3. sched.state[t] = Ready
    BY <1>1, <2>1, <2>2 DEF Placed
  <2> QED BY <1>2, <2>3, StateFacts
<1> QED BY <1>2, <1>3

(* One thread runs, the ready ones and no other are on the scheduler's      *)
(* list, and none of them is of a higher priority (threads.c, irq.c).       *)
THEOREM SchedulerStaysAccounted ==
  Spec /\ [][BootsFirst /\ Proper]_vars => []SchedulerAccounted
BY ListsStayWellFormed, TypeCorrect, InvAccountsScheduler, PTL

(* Whenever a program runs, no thread that could run has a higher priority, *)
(* in the scheduler's table and as GetThreadPriority tells it (threads.c).  *)
THEOREM HighestPriorityStaysRunning ==
  Spec /\ [][BootsFirst /\ Proper]_vars => []HighestPriorityRuns
BY ListsStayWellFormed, TypeCorrect, InvAccountsScheduler, PTL

(* The threads on the two lists of a queue are exactly those that wait in a *)
(* receive or a send on it, in order of priority (messageQueue.c).          *)
THEOREM WaitersStayListed == Spec /\ [][BootsFirst /\ Proper]_vars => []WaitersAreListed
BY ListsStayWellFormed, TypeCorrect, InvListsWaiters, PTL

(* A thread that called JoinThread on a live thread is never on a list      *)
(* again: nobody wakes it (JoinThread and CancelThread of threads.c).       *)
THEOREM JoinersStayStranded == Spec /\ [][BootsFirst /\ Proper]_vars => []JoinersAreStranded
BY ListsStayWellFormed, TypeCorrect, InvStrandsJoiners, PTL

-----------------------------------------------------------------------------
(* The token.  Programs leave its queue, which is the kernel's, alone: the  *)
(* crypto system calls are the only ones to take it or put it back.         *)
LeavesToken ==
  \A t \in Thread :
    /\ ~ ReceiveMessage(t, Token) /\ ~ ReceiveMessageNonblocking(t, Token)
    /\ ~ DestroyMessageQueue(t, Token)
    /\ \A m \in Msg : /\ ~ SendMessage(t, Token, m) /\ ~ SendMessageNonblocking(t, Token, m)
                      /\ ~ JamMessage(t, Token, m)
    /\ \A d \in Device, m \in Msg \cup {NULL} : ~ RegisterEventHandler(t, d, Token, m)

(* Nobody is inside another call on the token's queue, and nobody who waits *)
(* for the token has it.                                                    *)
OffToken(c, h) ==
  /\ c.queue = Token => c.op \notin {"send", "jam", "recv", "destroy"}
  /\ c.op = "begin" => ~ h

NoTokenUse ==
  /\ \A d \in Device : eventHandlers[d].queue # Token
  /\ \A t \in Thread : OffToken(cont[t], t \in holding)

TokenThere ==
  IF boot = "iosc" THEN holding = {}
  ELSE mq[Token].size = 1 /\ mq[Token].used + Cardinality(holding) = 1

TInv == TokenThere /\ NoTokenUse /\ (boot = "iosc" => IInv)

LEMMA TokenFacts ==
  /\ Token \in QueueId /\ Token # NULL
  /\ \A h : OffToken(User, h)
  /\ \A h, u : OffToken(Cont("join", NULL, NULL, u), h)
  /\ \A q, x, op : q # Token /\ op # "begin" => \A h : OffToken(Cont(op, q, x, NULL), h)
<1>1. Token \in QueueId /\ Token # NULL
  BY SizesAssumption, PointersAssumption DEF Token, QueueId
<1> QED BY <1>1 DEF User, Cont, OffToken

LEMMA HoldersCount ==
  ASSUME NEW h, h \subseteq Thread
  PROVE  /\ IsFiniteSet(h) /\ Cardinality(h) \in Nat
         /\ \A t \in Thread : /\ t \notin h => Cardinality(h \cup {t}) = Cardinality(h) + 1
                              /\ t \in h => Cardinality(h \ {t}) = Cardinality(h) - 1
                                            /\ Cardinality(h) > 0
<1>1. IsFiniteSet(Thread)
  BY SizesAssumption, FS_Interval DEF Thread
<1>2. IsFiniteSet(h) /\ Cardinality(h) \in Nat
  BY <1>1, FS_Subset, FS_CardinalityType
<1>3. \A t \in Thread : t \notin h => Cardinality(h \cup {t}) = Cardinality(h) + 1
  BY <1>2, FS_AddElement
<1>4. ASSUME NEW t \in Thread, t \in h
      PROVE  Cardinality(h \ {t}) = Cardinality(h) - 1 /\ Cardinality(h) > 0
  <2>1. Cardinality(h \ {t}) = Cardinality(h) - 1
    BY <1>2, <1>4, FS_RemoveElement
  <2>2. Cardinality(h \ {t}) \in Nat
    BY <1>2, FS_RemoveElement, FS_CardinalityType
  <2> QED BY <1>2, <2>1, <2>2
<1> QED BY <1>2, <1>3, <1>4

(* A call on another queue, or on none.                                     *)
LeftAlone(t) ==
  mq'[Token] = mq[Token] /\ \A u \in Thread : cont'[u] = cont[u] \/ OffToken(cont'[u], u \in holding)

LEMMA WaitLeaves ==
  ASSUME TypeOK, NEW t \in Thread, NEW l, NEW d, \A h : OffToken(d, h), WaitOn(t, l, d)
  PROVE  LeftAlone(t)
BY DEF TypeOK, WaitOn, LeftAlone

LEMMA ReturnLeaves ==
  ASSUME TypeOK, NEW t \in Thread, Return(t)
  PROVE  LeftAlone(t)
BY TokenFacts DEF TypeOK, Return, LeftAlone

LEMMA PutLeaves ==
  ASSUME TypeOK, NEW t \in Thread, NEW op \in {"send", "jam"}, NEW q \in QueueId, q # Token,
         NEW x, PutLoop(t, op, q, x)
  PROVE  LeftAlone(t)
<1>1. CASE Full(mq[q])
  <2> DEFINE d == Cont(op, q, x, NULL)
  <2>1. \A h : OffToken(d, h)
    BY TokenFacts
  <2>2. WaitOn(t, SendQ(q), d)
    BY <1>1 DEF PutLoop
  <2> HIDE DEF d
  <2> QED BY <2>1, <2>2, WaitLeaves
<1>2. CASE ~ Full(mq[q])
  BY <1>2, TokenFacts DEF PutLoop, LeftAlone, TypeOK
<1> QED BY <1>1, <1>2

LEMMA TakeLeaves ==
  ASSUME TypeOK, NEW t \in Thread, NEW q \in QueueId, q # Token, TakeLoop(t, "recv", q)
  PROVE  LeftAlone(t)
<1>1. CASE mq[q].used = 0
  <2> DEFINE d == Cont("recv", q, NULL, NULL)
  <2>1. \A h : OffToken(d, h)
    BY TokenFacts
  <2>2. WaitOn(t, RecvQ(q), d)
    BY <1>1 DEF TakeLoop
  <2> HIDE DEF d
  <2> QED BY <2>1, <2>2, WaitLeaves
<1>2. CASE mq[q].used # 0
  BY <1>2, TokenFacts DEF TakeLoop, LeftAlone, TypeOK
<1> QED BY <1>1, <1>2

LEMMA DestroyLeaves ==
  ASSUME TypeOK, NEW t \in Thread, NEW q \in QueueId, q # Token, DestroyLoop(t, q)
  PROVE  LeftAlone(t)
<1> DEFINE d == Cont("destroy", q, NULL, NULL)
<1>1. \A h : OffToken(d, h)
  BY TokenFacts
<1>2. \/ cont' = [cont EXCEPT ![t] = d] /\ mq' = mq
      \/ cont' = [cont EXCEPT ![t] = User] /\ mq' = [mq EXCEPT ![q].size = 0]
  BY DEF DestroyLoop
<1> HIDE DEF d
<1> QED BY <1>1, <1>2, TokenFacts DEF LeftAlone, TypeOK

LEMMA MessageCallLeaves ==
  ASSUME TypeOK, NoTokenUse, LeavesToken, mq[Token].size = 1, NEW t \in Thread, MessageCall(t)
  PROVE  LeftAlone(t)
<1>0. OffToken(cont[t], t \in holding) /\ cont[t] \in Continuation
  BY DEF NoTokenUse, TypeOK
<1>1. ASSUME NEW n \in 1 .. MaxQueueSize, CreateMessageQueue(t, n) PROVE LeftAlone(t)
  <2>1. PICK q \in QueueId :
          /\ mq[q].size = 0
          /\ mq' = [mq EXCEPT ![q] = [@ EXCEPT !.proc = sched.proc[t], !.used = 0,
                                                !.first = 0, !.size = n]]
    BY <1>1 DEF CreateMessageQueue
  <2>2. q # Token /\ cont' = cont
    BY <1>1, <2>1 DEF CreateMessageQueue
  <2> QED BY <2>1, <2>2, TokenFacts DEF LeftAlone, TypeOK
<1>2. ASSUME NEW q \in QueueId, NEW m \in Msg,
             SendMessage(t, q, m) \/ SendMessageNonblocking(t, q, m) \/ JamMessage(t, q, m)
      PROVE  LeftAlone(t)
  <2>1. q # Token
    BY <1>2 DEF LeavesToken
  <2>2. PutLoop(t, "send", q, m) \/ PutLoop(t, "jam", q, m)
    BY <1>2 DEF SendMessage, SendMessageNonblocking, JamMessage
  <2> QED BY <2>1, <2>2, PutLeaves
<1>3. ASSUME NEW q \in QueueId, ReceiveMessage(t, q) \/ ReceiveMessageNonblocking(t, q)
      PROVE  LeftAlone(t)
  <2>1. q # Token /\ TakeLoop(t, "recv", q)
    BY <1>3 DEF LeavesToken, ReceiveMessage, ReceiveMessageNonblocking
  <2> QED BY <2>1, TakeLeaves
<1>4. ASSUME NEW q \in QueueId, DestroyMessageQueue(t, q) PROVE LeftAlone(t)
  <2>1. q # Token /\ DestroyLoop(t, q)
    BY <1>4 DEF LeavesToken, DestroyMessageQueue
  <2> QED BY <2>1, DestroyLeaves
<1>5. CASE PutResumes(t)
  <2>1. PICK op \in {"send", "jam"} :
          /\ Resumes(t, op)
          /\ Return(t) \/ PutLoop(t, op, cont[t].queue, cont[t].msg)
    BY <1>5 DEF PutResumes
  <2>2. cont[t].queue \in QueueId /\ cont[t].queue # Token
    BY <1>0, <2>1 DEF Resumes, OffToken, Continuation
  <2> DEFINE q == cont[t].queue
             x == cont[t].msg
  <2>3. Return(t) \/ PutLoop(t, op, q, x)
    BY <2>1
  <2> HIDE DEF q, x
  <2> QED BY <2>2, <2>3, PutLeaves, ReturnLeaves DEF q
<1>6. CASE TakeResumes(t)
  <2>1. Resumes(t, "recv") /\ (Return(t) \/ TakeLoop(t, "recv", cont[t].queue))
    BY <1>6 DEF TakeResumes
  <2>2. cont[t].queue \in QueueId /\ cont[t].queue # Token
    BY <1>0, <2>1 DEF Resumes, OffToken, Continuation
  <2> QED BY <2>1, <2>2, TakeLeaves, ReturnLeaves
<1>7. CASE DestroyResumes(t)
  <2>1. Resumes(t, "destroy") /\ DestroyLoop(t, cont[t].queue)
    BY <1>7 DEF DestroyResumes
  <2>2. cont[t].queue \in QueueId /\ cont[t].queue # Token
    BY <1>0, <2>1 DEF Resumes, OffToken, Continuation
  <2> QED BY <2>1, <2>2, DestroyLeaves
<1> QED BY <1>1, <1>2, <1>3, <1>4, <1>5, <1>6, <1>7 DEF MessageCall

LEMMA ThreadCallLeaves ==
  ASSUME TypeOK, NEW t \in Thread, ThreadCall(t), UNCHANGED mq
  PROVE  LeftAlone(t)
<1>1. CASE UNCHANGED cont
  BY <1>1 DEF LeftAlone
<1>2. ASSUME NEW p \in Priorities, NEW d \in BOOLEAN, CreateThread(t, p, d)
      PROVE  LeftAlone(t)
  <2>1. PICK u \in Thread : cont' = [cont EXCEPT ![u] = User]
    BY <1>2 DEF CreateThread
  <2> QED BY <2>1, TokenFacts DEF LeftAlone, TypeOK
<1>3. ASSUME NEW id \in Thread, JoinThread(t, id) PROVE LeftAlone(t)
  <2>1. UNCHANGED cont \/ \E u : cont' = [cont EXCEPT ![t] = Cont("join", NULL, NULL, u)]
    BY <1>3 DEF JoinThread
  <2>2. ASSUME NEW u, cont' = [cont EXCEPT ![t] = Cont("join", NULL, NULL, u)]
        PROVE  LeftAlone(t)
    <3> DEFINE d == Cont("join", NULL, NULL, u)
    <3>1. \A h : OffToken(d, h)
      BY TokenFacts
    <3> HIDE DEF d
    <3> QED BY <2>2, <3>1 DEF LeftAlone, TypeOK, d
  <2> QED BY <1>1, <2>1, <2>2
<1>4. ASSUME NEW id \in Thread, NEW p \in Priorities,
             \/ YieldThread(t) \/ StartThread(t, id) \/ CancelThread(t, id)
             \/ SuspendThread(t, id) \/ SetThreadPriority(t, id, p)
      PROVE  UNCHANGED cont
  BY <1>4 DEF YieldThread, StartThread, CancelThread, SuspendThread, SetThreadPriority
<1>5. YieldThread(t) => UNCHANGED cont
  BY DEF YieldThread
<1>6. \A id \in Thread : StartThread(t, id) \/ CancelThread(t, id) \/ SuspendThread(t, id)
                           => UNCHANGED cont
  BY DEF StartThread, CancelThread, SuspendThread
<1> QED BY <1>1, <1>2, <1>3, <1>4, <1>5, <1>6 DEF ThreadCall

LEMMA IrqHandlerLeaves ==
  ASSUME TypeOK, NoTokenUse, IrqHandler
  PROVE  mq'[Token] = mq[Token] /\ UNCHANGED <<cont, eventHandlers>>
<1> DEFINE raised == irqFlag \cap irqMask
           s0 == [ rings |-> mq, threads |-> Push([sched EXCEPT !.state[current] = Ready],
                                                  SchedulerQueue, current) ]
           Good(s) == s.rings \in [QueueId -> Ring] /\ s.rings[Token] = mq[Token]
<1>1. raised \subseteq Device /\ eventHandlers \in [Device -> EventHandler]
      /\ mq \in [QueueId -> Ring]
  BY DEF TypeOK
<1>2. ASSUME NEW s, Good(s), NEW d PROVE Good(EnqueuedIf(s, d, raised))
  <2>1. CASE d \notin raised
    BY <1>2, <2>1 DEF EnqueuedIf
  <2>2. CASE d \in raised
    <3> DEFINE h == eventHandlers[d]
    <3>1. h \in EventHandler /\ h.queue # Token
      BY <1>1, <2>2 DEF NoTokenUse
    <3>2. \/ Enqueued(s, d).rings = s.rings
          \/ /\ h.queue # NULL
             /\ Enqueued(s, d).rings = [s.rings EXCEPT ![h.queue] = Appended(@, h.msg)]
      <4>1. CASE h.queue = NULL \/ Full(s.rings[h.queue])
        BY <4>1 DEF Enqueued
      <4>2. CASE h.queue # NULL /\ ~ Full(s.rings[h.queue])
        BY <4>2 DEF Enqueued
      <4> QED BY <4>1, <4>2
    <3>3. h.queue # NULL => h.queue \in QueueId /\ h.msg \in Msg \cup {NULL}
      BY <3>1 DEF EventHandler
    <3>4. EnqueuedIf(s, d, raised) = Enqueued(s, d)
      BY <2>2 DEF EnqueuedIf
    <3> HIDE DEF h
    <3>5. h.queue # NULL => Appended(s.rings[h.queue], h.msg) \in Ring
      BY <1>2, <3>3, RingType
    <3> QED BY <1>2, <3>1, <3>2, <3>3, <3>4, <3>5, TokenFacts
  <2> QED BY <2>1, <2>2
<1>5. Good(s0)
  BY <1>1
<1> DEFINE s1 == EnqueuedIf(s0, "TIMER", raised)
           s2 == EnqueuedIf(s1, "OHCI1", raised)
           s3 == EnqueuedIf(s2, "IPC", raised)
           s4 == EnqueuedIf(s3, "SHA1", raised)
           s5 == EnqueuedIf(s4, "AES", raised)
<1>6. mq' = s5.rings /\ UNCHANGED <<cont, eventHandlers>>
  BY DEF IrqHandler
<1> HIDE DEF s0, Good
<1>7. Good(s1)
  BY <1>2, <1>5
<1> HIDE DEF s1
<1>8. Good(s2)
  BY <1>2, <1>7
<1> HIDE DEF s2
<1>9. Good(s3)
  BY <1>2, <1>8
<1> HIDE DEF s3
<1>10. Good(s4)
  BY <1>2, <1>9
<1> HIDE DEF s4
<1>11. Good(s5)
  BY <1>2, <1>10
<1> HIDE DEF s5
<1> QED BY <1>6, <1>11 DEF Good

(* Taking the token: it is gone from the queue and held.                    *)
LEMMA BeginKeepsToken ==
  ASSUME TypeOK, mq[Token].size = 1, mq[Token].used + Cardinality(holding) = 1,
         NEW t \in Thread, t \notin holding, BeginLoop(t)
  PROVE  /\ mq'[Token].size = 1 /\ mq'[Token].used + Cardinality(holding') = 1
         /\ \A u \in Thread : u # t => cont'[u] = cont[u] /\ (u \in holding' <=> u \in holding)
         /\ OffToken(cont'[t], t \in holding')
<1>1. Token \in QueueId /\ mq[Token] \in Ring /\ holding \subseteq Thread
      /\ cont \in [Thread -> Continuation] /\ mq \in [QueueId -> Ring]
  BY TokenFacts DEF TypeOK
<1>2. /\ Cardinality(holding) \in Nat
      /\ Cardinality(holding \cup {t}) = Cardinality(holding) + 1
  BY <1>1, HoldersCount
<1>3. CASE mq[Token].used = 0
  <2> DEFINE d == Cont("begin", Token, NULL, NULL)
  <2>1. mq' = mq /\ holding' = holding /\ cont' = [cont EXCEPT ![t] = d]
    BY <1>3 DEF BeginLoop, ReceiveMessageUnsafe, TakeLoop, WaitOn
  <2>2. OffToken(d, FALSE)
    BY DEF OffToken, Cont
  <2> HIDE DEF d
  <2>3. cont'[t] = d /\ (t \in holding') = FALSE
    BY <1>1, <2>1
  <2> QED BY <1>1, <2>1, <2>2, <2>3
<1>4. CASE mq[Token].used # 0
  <2>1. /\ mq' = [mq EXCEPT ![Token] = Taken(mq[Token])] /\ holding' = holding \cup {t}
        /\ cont' = [cont EXCEPT ![t] = User]
    BY <1>4 DEF BeginLoop, ReceiveMessageUnsafe, TakeLoop
  <2>2. Taken(mq[Token]).size = mq[Token].size /\ Taken(mq[Token]).used = mq[Token].used - 1
    BY <1>1 DEF Taken, Ring
  <2>3. mq'[Token] = Taken(mq[Token]) /\ cont'[t] = User
    BY <1>1, <2>1
  <2>4. mq[Token].used \in Nat
    BY <1>1 DEF Ring
  <2>5. mq'[Token].used + Cardinality(holding') = 1
    BY <1>2, <2>1, <2>2, <2>3, <2>4
  <2> QED BY <1>1, <2>1, <2>2, <2>3, <2>5, TokenFacts
<1> QED BY <1>3, <1>4

(* Putting it back: there is room, for the holder has what was in it.       *)
LEMMA EndKeepsToken ==
  ASSUME TypeOK, mq[Token].size = 1, mq[Token].used + Cardinality(holding) = 1,
         NEW t \in Thread, IoscEnd(t)
  PROVE  /\ mq'[Token].size = 1 /\ mq'[Token].used + Cardinality(holding') = 1
         /\ \A u \in Thread : u # t => cont'[u] = cont[u] /\ (u \in holding' <=> u \in holding)
         /\ OffToken(cont'[t], t \in holding')
<1>1. Token \in QueueId /\ mq[Token] \in Ring /\ holding \subseteq Thread
      /\ cont \in [Thread -> Continuation] /\ mq \in [QueueId -> Ring]
      /\ t \in holding /\ holding' = holding \ {t}
  BY TokenFacts DEF TypeOK, IoscEnd
<1>2. /\ Cardinality(holding) \in Nat /\ Cardinality(holding) > 0
      /\ Cardinality(holding \ {t}) = Cardinality(holding) - 1
  BY <1>1, HoldersCount
<1>3. mq[Token].used \in Nat
  BY <1>1 DEF Ring
<1>4. mq[Token].used = 0
  BY <1>2, <1>3
<1>5. ~ Full(mq[Token])
  BY <1>4 DEF Full
<1>6. /\ mq' = [mq EXCEPT ![Token] = Appended(mq[Token], NULL)]
      /\ cont' = [cont EXCEPT ![t] = User]
  BY <1>5 DEF IoscEnd, SendMessageUnsafe, PutLoop
<1>7. Appended(mq[Token], NULL).size = mq[Token].size
      /\ Appended(mq[Token], NULL).used = mq[Token].used + 1
  BY <1>1 DEF Appended, Stored, Ring
<1>8. mq'[Token] = Appended(mq[Token], NULL) /\ cont'[t] = User
  BY <1>1, <1>6
<1>9. mq'[Token].used + Cardinality(holding') = 1
  BY <1>1, <1>2, <1>3, <1>7, <1>8
<1> QED BY <1>1, <1>6, <1>7, <1>8, <1>9, TokenFacts

LEMMA CallKeepsToken ==
  ASSUME TypeOK, TInv, LeavesToken, boot # "iosc", NEW t \in Thread, Call(t)
  PROVE  TokenThere' /\ NoTokenUse'
<1>0. /\ mq[Token].size = 1 /\ mq[Token].used + Cardinality(holding) = 1 /\ NoTokenUse
      /\ boot' # "iosc"
  BY CurrentCalls DEF TInv, TokenThere
<1>1. ASSUME LeftAlone(t), holding' = holding, \A d \in Device : eventHandlers'[d].queue # Token
      PROVE  TokenThere' /\ NoTokenUse'
  <2>1. TokenThere'
    BY <1>0, <1>1 DEF TokenThere, LeftAlone
  <2>2. \A u \in Thread : OffToken(cont'[u], u \in holding')
    BY <1>0, <1>1 DEF LeftAlone, NoTokenUse
  <2> QED BY <1>1, <2>1, <2>2 DEF NoTokenUse
<1>2. ASSUME /\ mq'[Token].size = 1 /\ mq'[Token].used + Cardinality(holding') = 1
             /\ \A u \in Thread : u # t => cont'[u] = cont[u] /\ (u \in holding' <=> u \in holding)
             /\ OffToken(cont'[t], t \in holding'),
             UNCHANGED eventHandlers
      PROVE  TokenThere' /\ NoTokenUse'
  <2>1. TokenThere'
    BY <1>0, <1>2 DEF TokenThere
  <2>2. ASSUME NEW u \in Thread PROVE OffToken(cont'[u], u \in holding')
    <3>1. CASE u # t
      <4>1. OffToken(cont[u], u \in holding)
        BY <1>0 DEF NoTokenUse
      <4> QED BY <1>2, <3>1, <4>1 DEF OffToken
    <3> QED BY <1>2, <3>1
  <2> QED BY <1>0, <1>2, <2>1, <2>2 DEF NoTokenUse
<1>3. UNCHANGED eventHandlers => \A d \in Device : eventHandlers'[d].queue # Token
  BY <1>0 DEF NoTokenUse
<1>4. CASE ThreadCall(t) /\ delivered' = NoDelivery /\ UNCHANGED <<mq, irqVars, holding>>
  BY <1>1, <1>3, <1>4, ThreadCallLeaves DEF irqVars
<1>5. CASE MessageCall(t) /\ UNCHANGED <<irqVars, holding>>
  BY <1>0, <1>1, <1>3, <1>5, MessageCallLeaves DEF irqVars
<1>6. CASE EventCall(t) /\ UNCHANGED holding
  <2>1. LeftAlone(t)
    BY <1>6 DEF EventCall, ClearAndEnableEvent, RegisterEventHandler, UnregisterEventHandler,
                LeftAlone
  <2>2. ASSUME NEW d \in Device, ClearAndEnableEvent(t, d)
        PROVE  UNCHANGED eventHandlers
    BY <2>2 DEF ClearAndEnableEvent
  <2>3. ASSUME NEW d \in Device, NEW q \in QueueId, NEW m \in Msg \cup {NULL},
               RegisterEventHandler(t, d, q, m)
        PROVE  \A e \in Device : eventHandlers'[e].queue # Token
    <3>1. q # Token
      BY <2>3 DEF LeavesToken
    <3>2. eventHandlers' = [eventHandlers EXCEPT ![d] =
                              [queue |-> q, msg |-> m, proc |-> sched.proc[t]]]
      BY <2>3 DEF RegisterEventHandler
    <3> QED BY <1>0, <3>1, <3>2 DEF NoTokenUse, TypeOK
  <2>4. ASSUME NEW d \in Device, UnregisterEventHandler(t, d)
        PROVE  \A e \in Device : eventHandlers'[e].queue # Token
    <3>1. eventHandlers' = [eventHandlers EXCEPT ![d].queue = NULL, ![d].msg = NULL]
      BY <2>4 DEF UnregisterEventHandler
    <3>2. eventHandlers \in [Device -> EventHandler]
      BY DEF TypeOK
    <3>3. \A e \in Device : e # d => eventHandlers'[e] = eventHandlers[e]
      BY <3>1, <3>2
    <3>4. eventHandlers'[d].queue = NULL
      BY <3>1, <3>2 DEF EventHandler
    <3> QED BY <1>0, <3>3, <3>4, TokenFacts DEF NoTokenUse
  <2> QED BY <1>1, <1>3, <1>6, <2>1, <2>2, <2>3, <2>4 DEF EventCall
<1>7. CASE IoscBegin(t) /\ UNCHANGED irqVars /\ t \notin holding
  <2>1. BeginLoop(t) /\ UNCHANGED eventHandlers
    BY <1>7 DEF IoscBegin, irqVars
  <2> QED BY <1>0, <1>2, <1>7, <2>1, BeginKeepsToken
<1>8. CASE IoscEnd(t) /\ UNCHANGED <<irqVars, boot>>
  <2>1. UNCHANGED eventHandlers
    BY <1>8 DEF irqVars
  <2> QED BY <1>0, <1>2, <1>8, <2>1, EndKeepsToken
<1>9. CASE BeginResumes(t) /\ UNCHANGED <<irqVars, boot>>
  <2>1. UNCHANGED eventHandlers /\ cont[t].op = "begin"
    BY <1>9 DEF irqVars, BeginResumes, Resumes
  <2>2. t \notin holding
    BY <1>0, <2>1 DEF NoTokenUse, OffToken
  <2>3. CASE Return(t) /\ UNCHANGED holding
    BY <1>1, <1>3, <2>1, <2>3, ReturnLeaves
  <2>4. CASE BeginLoop(t)
    BY <1>0, <1>2, <2>1, <2>2, <2>4, BeginKeepsToken
  <2> QED BY <1>9, <2>3, <2>4 DEF BeginResumes
<1> QED BY <1>4, <1>5, <1>6, <1>7, <1>8, <1>9 DEF Call

LEMMA TokenStep ==
  ASSUME TypeOK, TInv, Next, BootsFirst, LeavesToken
  PROVE  TInv'
<1>1. boot' = "iosc" => IInv'
  <2> HAVE boot' = "iosc"
  <2>1. boot = "iosc"
    BY CurrentCalls DEF Next, KernelMain, BootIosc, BootThread, BootLower, Booting, IrqStep
  <2> QED BY <2>1, InvStep DEF TInv
<1>2. CASE BootIosc
  <2>1. boot = "iosc" /\ boot' = "threads" /\ holding = {} /\ NoTokenUse
        /\ UNCHANGED <<cont, eventHandlers, holding>>
    BY <1>2 DEF BootIosc, Booting, TInv, TokenThere, irqVars
  <2> DEFINE new == [mq[Token] EXCEPT !.proc = sched.proc[KernelThread], !.used = 0,
                                      !.first = 0, !.size = 1]
  <2>2. mq' = [mq EXCEPT ![Token] = Appended(new, NULL)]
    BY <1>2 DEF BootIosc
  <2>3. mq[Token] \in Ring /\ mq \in [QueueId -> Ring]
    BY TokenFacts DEF TypeOK
  <2>4. Appended(new, NULL).size = 1 /\ Appended(new, NULL).used = 1
    BY <2>3 DEF Ring, Appended, Stored
  <2> HIDE DEF new
  <2>5. mq'[Token].size = 1 /\ mq'[Token].used = 1
    BY <2>2, <2>3, <2>4, TokenFacts
  <2>6. TokenThere'
    BY <2>1, <2>5, FS_EmptySet DEF TokenThere
  <2>7. NoTokenUse'
    BY <2>1 DEF NoTokenUse
  <2> QED BY <1>1, <2>6, <2>7 DEF TInv
<1>3. CASE BootThread \/ BootLower
  <2>1. boot # "iosc" /\ boot' # "iosc" /\ UNCHANGED <<mq, cont, eventHandlers, holding>>
    BY <1>3 DEF BootThread, BootLower, Booting, irqVars
  <2> QED BY <1>1, <2>1 DEF TInv, TokenThere, NoTokenUse
<1>4. ASSUME NEW t \in Thread, Call(t) PROVE TInv'
  <2>1. boot # "iosc"
    <3>1. SUFFICES ASSUME boot = "iosc" PROVE FALSE
      OBVIOUS
    <3>2. Alive /\ t = sched.current
      BY <1>4, CurrentCalls
    <3>3. sched.state[t] = Running /\ Stage
      BY <3>1, <3>2 DEF TInv, IInv, KInv, Settled, CurrentRuns
    <3>4. t = KernelThread
      BY <3>1, <3>3 DEF Stage, Running, Unset
    <3> QED BY <1>4, <3>1, <3>4 DEF BootsFirst
  <2>2. TokenThere' /\ NoTokenUse'
    BY <1>4, <2>1, CallKeepsToken
  <2> QED BY <1>1, <2>2 DEF TInv
<1>5. CASE IrqHandler /\ UNCHANGED <<boot, holding>>
  <2>1. mq'[Token] = mq[Token] /\ UNCHANGED <<cont, eventHandlers>>
    BY <1>5, IrqHandlerLeaves DEF TInv
  <2> QED BY <1>1, <1>5, <2>1 DEF TInv, TokenThere, NoTokenUse
<1>6. CASE (\E d \in Device : Raise(d)) /\ UNCHANGED <<boot, holding>>
  <2>1. UNCHANGED <<mq, cont, eventHandlers, boot, holding>>
    BY <1>6 DEF Raise
  <2> QED BY <1>1, <2>1 DEF TInv, TokenThere, NoTokenUse
<1> QED BY <1>2, <1>3, <1>4, <1>5, <1>6 DEF Next, KernelMain, IrqStep

LEMMA TokenInit == Init => TInv
<1> SUFFICES ASSUME Init PROVE TInv
  OBVIOUS
<1>1. TokenThere
  BY DEF Init, TokenThere
<1>2. NoTokenUse
  <2>1. \A t \in Thread : cont[t] = User
    BY DEF Init
  <2>2. \A d \in Device : eventHandlers[d].queue = NULL
    BY DEF Init, IrqInit
  <2> QED BY <2>1, <2>2, TokenFacts DEF NoTokenUse
<1> QED BY <1>1, <1>2, InvInit DEF TInv

LEMMA TokenStays ==
  TypeOK /\ TInv /\ [Next]_vars /\ [BootsFirst /\ LeavesToken]_vars => TInv'
<1> SUFFICES ASSUME TypeOK, TInv, [Next]_vars, [BootsFirst /\ LeavesToken]_vars PROVE TInv'
  OBVIOUS
<1>1. CASE UNCHANGED vars
  <2>1. UNCHANGED <<sched, cont, mq, eventHandlers, boot, holding>>
    BY <1>1 DEF vars
  <2>2. IInv => IInv'
    BY <2>1 DEF IInv, Alive, Stage
  <2> QED BY <2>1, <2>2 DEF TInv, TokenThere, NoTokenUse
<1>2. CASE Next /\ BootsFirst /\ LeavesToken
  BY <1>2, TokenStep
<1> QED BY <1>1, <1>2

(* The crypto system calls exclude each other, for any number of threads    *)
(* and whatever preempts or suspends them inside: the token is in its queue *)
(* or one thread is between IOSC_BEGIN_ and the end of the wrapper (iosc.c).*)
THEOREM TokenStaysOne == Spec /\ [][BootsFirst /\ LeavesToken]_vars => []TokenIsConserved
<1>1. TInv => TokenIsConserved
  BY DEF TInv, TokenThere, TokenIsConserved
<1> QED BY <1>1, TypeInit, TypeStep, TokenInit, TokenStays, PTL DEF Spec

-----------------------------------------------------------------------------
(* Wake ups.  The threads inside a call that waits on the list l; those of  *)
(* them that do wait; those that were woken to look again at the queue.     *)
Side(c, l)  == {u \in Thread : c[u].op \in Inside /\ WaitList(c[u]) = l}
Waits(k, S) == {u \in S : k.state[u] = Waiting}
Took(k, S)  == {u \in S : k.state[u] # Waiting /\ k.r0[u] = Success}
Fits(k, S, n) == Waits(k, S) # {} => n <= Cardinality(Took(k, S))

(* While a thread waits for a message of q, or for room in it, there are    *)
(* no more of them than threads woken to take them.                         *)
Balanced(k, c, m) ==
  \A q \in QueueId : /\ Fits(k, Side(c, RecvQ(q)), m[q].used)
                     /\ Fits(k, Side(c, SendQ(q)), m[q].size - m[q].used)

(* Nobody inside such a call is stopped or gone.                            *)
Awake(k, c) == \A u \in Thread : c[u].op \in Inside => k.state[u] \in {Waiting, Ready, Running}

(* The interrupt handler looks one entry past the head for a receiver: the  *)
(* list it looks at does not end in NULL, as that of the token does.        *)
Ended(k, m) == \A q \in QueueId : q # Token /\ m[q].size > 0 => Sentinel \in Reach(k, RecvQ(q))

Guarded(k, c, m) == Ended(k, m) /\ Awake(k, c) /\ Balanced(k, c, m)

(* Of the threads other than t only h is touched: it is woken with ret.     *)
Stirred(k, r, c, e, t, h, ret) ==
  /\ \A u \in Thread : u # t =>
       /\ e[u] = c[u]
       /\ Like(r.state[u], IF u = h THEN Ready ELSE k.state[u])
       /\ r.r0[u] = IF u = h THEN ret ELSE k.r0[u]
  /\ \A l \in ThreadList \ {SchedulerQueue} : Sentinel \in Reach(k, l) => Sentinel \in Reach(r, l)

LEMMA WaitingLike ==
  ASSUME NEW a, NEW b, Like(a, b)
  PROVE  /\ a = Waiting <=> b = Waiting
         /\ b \in {Waiting, Ready, Running} => a \in {Waiting, Ready, Running}
BY StateFacts DEF Like

LEMMA SomeThreads ==
  ASSUME NEW A, A \subseteq Thread
  PROVE  /\ IsFiniteSet(A) /\ Cardinality(A) \in Nat
         /\ \A B : B \subseteq A => Cardinality(B) <= Cardinality(A)
         /\ \A t \in Thread \ A : Cardinality(A \cup {t}) = Cardinality(A) + 1
         /\ \A t : Cardinality(A \ {t}) >= Cardinality(A) - 1
<1>1. IsFiniteSet(A) /\ Cardinality(A) \in Nat
      /\ \A t \in Thread : /\ t \notin A => Cardinality(A \cup {t}) = Cardinality(A) + 1
                           /\ t \in A => Cardinality(A \ {t}) = Cardinality(A) - 1
  BY HoldersCount
<1>2. \A B : B \subseteq A => Cardinality(B) <= Cardinality(A)
  BY <1>1, FS_Subset
<1>3. ASSUME NEW t PROVE Cardinality(A \ {t}) >= Cardinality(A) - 1
  <2>1. CASE t \in A
    BY <1>1, <2>1
  <2>2. CASE t \notin A
    <3>1. A \ {t} = A
      BY <2>2
    <3>2. Cardinality(A \ {t}) = Cardinality(A)
      BY <3>1, Zenon
    <3>3. Cardinality(A) >= Cardinality(A) - 1
      BY <1>1
    <3> QED BY <3>2, <3>3
  <2> QED BY <2>1, <2>2
<1> QED BY <1>1, <1>2, <1>3

(* What becomes of those who wait and of those who were woken.              *)
LEMMA SideMoves ==
  ASSUME NEW k, NEW r, NEW c, NEW e, NEW t \in Thread, NEW h, NEW ret, NEW l,
         Stirred(k, r, c, e, t, h, ret), t \notin Side(e, l),
         h \in Side(c, l) => k.state[h] = Waiting
  PROVE  /\ Waits(r, Side(e, l)) \subseteq Waits(k, Side(c, l))
         /\ Took(k, Side(c, l)) \ {t} \subseteq Took(r, Side(e, l))
         /\ h \in Waits(k, Side(c, l)) /\ h # t /\ ret = Success =>
              h \in Took(r, Side(e, l)) \ Took(k, Side(c, l))
         /\ Took(k, Side(c, l)) \subseteq Thread /\ Took(r, Side(e, l)) \subseteq Thread
<1>1. ASSUME NEW u \in Thread, u # t
      PROVE  /\ u \in Side(e, l) <=> u \in Side(c, l)
             /\ u # h => (r.state[u] = Waiting <=> k.state[u] = Waiting) /\ r.r0[u] = k.r0[u]
             /\ u = h => r.state[u] # Waiting /\ r.r0[u] = ret
  <2>1. /\ e[u] = c[u]
        /\ Like(r.state[u], IF u = h THEN Ready ELSE k.state[u])
        /\ r.r0[u] = IF u = h THEN ret ELSE k.r0[u]
    BY <1>1 DEF Stirred
  <2>2. u \in Side(e, l) <=> u \in Side(c, l)
    BY <2>1 DEF Side
  <2>3. u # h => (r.state[u] = Waiting <=> k.state[u] = Waiting)
    BY <2>1, WaitingLike
  <2>4. u = h => r.state[u] # Waiting
    BY <2>1, WaitingLike, StateFacts
  <2> QED BY <2>1, <2>2, <2>3, <2>4
<1>2. Side(c, l) \subseteq Thread /\ Side(e, l) \subseteq Thread
  BY DEF Side
<1>3. Waits(r, Side(e, l)) \subseteq Waits(k, Side(c, l))
  <2> SUFFICES ASSUME NEW u \in Side(e, l), r.state[u] = Waiting
               PROVE  u \in Side(c, l) /\ k.state[u] = Waiting
    BY DEF Waits
  <2> QED BY <1>1, <1>2
<1>4. Took(k, Side(c, l)) \ {t} \subseteq Took(r, Side(e, l))
  <2> SUFFICES ASSUME NEW u \in Side(c, l), u # t, k.state[u] # Waiting, k.r0[u] = Success
               PROVE  u \in Side(e, l) /\ r.state[u] # Waiting /\ r.r0[u] = Success
    BY DEF Took
  <2>1. u # h
    OBVIOUS
  <2> QED BY <1>1, <1>2, <2>1
<1>5. ASSUME h \in Waits(k, Side(c, l)), h # t, ret = Success
      PROVE  h \in Took(r, Side(e, l)) \ Took(k, Side(c, l))
  <2>1. h \in Side(c, l) /\ k.state[h] = Waiting
    BY <1>5 DEF Waits
  <2>2. h \in Side(e, l) /\ r.state[h] # Waiting /\ r.r0[h] = Success
    BY <1>1, <1>2, <1>5, <2>1
  <2> QED BY <2>1, <2>2 DEF Took
<1> QED BY <1>2, <1>3, <1>4, <1>5 DEF Took

(* Nothing is added to what a side may take, and t did not take of it.      *)
LEMMA SideStays ==
  ASSUME NEW k, NEW r, NEW c, NEW e, NEW t \in Thread, NEW h, NEW ret, NEW l,
         Stirred(k, r, c, e, t, h, ret), t \notin Side(e, l),
         h \in Side(c, l) => k.state[h] = Waiting,
         NEW n \in Int, NEW n2 \in Int, Fits(k, Side(c, l), n),
         \/ n2 <= n /\ t \notin Took(k, Side(c, l))
         \/ n2 <= n - 1
         \/ n2 <= n + 1 /\ t \notin Took(k, Side(c, l)) /\ h # t /\ ret = Success
              /\ h \in Waits(k, Side(c, l))
         \/ Waits(k, Side(c, l)) = {}
  PROVE  Fits(r, Side(e, l), n2)
<1> DEFINE W  == Waits(k, Side(c, l))
           W2 == Waits(r, Side(e, l))
           A  == Took(k, Side(c, l))
           A2 == Took(r, Side(e, l))
<1>1. /\ W2 \subseteq W /\ A \ {t} \subseteq A2 /\ A \subseteq Thread /\ A2 \subseteq Thread
      /\ h \in W /\ h # t /\ ret = Success => h \in A2 \ A
  BY SideMoves
<1>2. W # {} => n <= Cardinality(A)
  BY DEF Fits
<1>3. \/ n2 <= n /\ t \notin A
      \/ n2 <= n - 1
      \/ n2 <= n + 1 /\ t \notin A /\ h # t /\ ret = Success /\ h \in W
      \/ W = {}
  OBVIOUS
<1> HIDE DEF W, W2, A, A2
<1>4. ASSUME W2 # {} PROVE n2 <= Cardinality(A2)
  <2>1. n <= Cardinality(A) /\ W # {}
    BY <1>1, <1>2, <1>4
  <2>2. Cardinality(A) \in Nat /\ Cardinality(A2) \in Nat
    BY <1>1, SomeThreads
  <2>3. CASE n2 <= n /\ t \notin A
    <3>1. A \subseteq A2
      BY <1>1, <2>3
    <3>2. Cardinality(A) <= Cardinality(A2)
      BY <1>1, <3>1, SomeThreads
    <3> QED BY <2>1, <2>2, <2>3, <3>2
  <2>4. CASE n2 <= n - 1
    <3>1. Cardinality(A \ {t}) >= Cardinality(A) - 1
      BY <1>1, SomeThreads
    <3>2. Cardinality(A \ {t}) <= Cardinality(A2)
      BY <1>1, SomeThreads
    <3>3. Cardinality(A \ {t}) \in Nat
      <4>1. A \ {t} \subseteq Thread
        BY <1>1
      <4> QED BY <4>1, SomeThreads
    <3> QED BY <2>1, <2>2, <2>4, <3>1, <3>2, <3>3
  <2>5. CASE n2 <= n + 1 /\ t \notin A /\ h # t /\ ret = Success /\ h \in W
    <3>1. h \in A2 /\ h \notin A /\ A \cup {h} \subseteq A2
      BY <1>1, <2>5
    <3>2. h \in Thread \ A
      BY <1>1, <3>1
    <3>3. Cardinality(A \cup {h}) = Cardinality(A) + 1
      BY <1>1, <3>2, SomeThreads
    <3>4. Cardinality(A \cup {h}) <= Cardinality(A2)
      BY <1>1, <3>1, SomeThreads
    <3> QED BY <2>1, <2>2, <2>5, <3>3, <3>4
  <2> QED BY <1>3, <2>1, <2>3, <2>4, <2>5
<1> QED BY <1>4 DEF Fits, W2, A2

(* A side that has nothing to take leaves nobody waiting in vain.           *)
LEMMA SideEmpty ==
  ASSUME NEW k, NEW c, NEW l, NEW n \in Int, n <= 0
  PROVE  Fits(k, Side(c, l), n)
<1>1. Took(k, Side(c, l)) \subseteq Thread
  BY DEF Took, Side
<1>2. Cardinality(Took(k, Side(c, l))) \in Nat
  BY <1>1, SomeThreads
<1> QED BY <1>2 DEF Fits

(* The threads that wait in a call on l are those of the list.              *)
LEMMA SideListed ==
  ASSUME NEW k \in Sched, NEW c \in [Thread -> Continuation], Placed(k), Accounts(k, c),
         NEW l \in ThreadList \ {SchedulerQueue}
  PROVE  Waits(k, Side(c, l)) = Listed(k, l)
<1>1. l # NULL /\ l # SchedulerQueue /\ l \in ThreadList
  BY QueueLists
<1>2. ASSUME NEW u \in Thread PROVE Accounted(k.state[u], k.on[u], c[u])
  BY DEF Accounts
<1>3. ASSUME NEW u \in Thread, c[u].op \in Inside, WaitList(c[u]) = l, k.state[u] = Waiting
      PROVE  u \in Listed(k, l)
  <2>1. k.on[u] # NULL /\ (k.on[u] # SchedulerQueue => u \in Listed(k, k.on[u]))
    BY <1>3 DEF Placed
  <2>2. k.on[u] # SchedulerQueue
    BY <1>2, <1>3 DEF Accounted, Inside
  <2>3. k.on[u] = l
    BY <1>2, <1>3, <2>1, <2>2 DEF Accounted
  <2> QED BY <2>1, <2>2, <2>3
<1>4. ASSUME NEW u \in Listed(k, l)
      PROVE  u \in Thread /\ c[u].op \in Inside /\ WaitList(c[u]) = l /\ k.state[u] = Waiting
  <2>1. u \in Thread
    BY DEF Listed
  <2>2. k.on[u] = l /\ k.state[u] = Waiting
    BY <1>1 DEF Placed
  <2>3. WaitList(c[u]) = l
    BY <1>1, <1>2, <2>1, <2>2 DEF Accounted
  <2>4. c[u].op \in Inside
    BY <1>1, <2>3 DEF WaitList, Inside
  <2> QED BY <2>1, <2>2, <2>3, <2>4
<1> QED BY <1>3, <1>4 DEF Waits, Side

(* A wake up of the list l wakes one who waits there, if anybody does.      *)
LEMMA HeadWaits ==
  ASSUME NEW k \in Sched, NEW c \in [Thread -> Continuation], Lists(k), Placed(k), Accounts(k, c),
         NEW l \in ThreadList \ {SchedulerQueue}
  PROVE  /\ k.head[l] \in Thread => k.head[l] \in Waits(k, Side(c, l))
         /\ k.head[l] \notin Thread => Waits(k, Side(c, l)) = {}
         /\ Sentinel \in Reach(k, l) /\ k.next[k.head[l]] = NULL => Waits(k, Side(c, l)) = {}
<1>1. Waits(k, Side(c, l)) = Listed(k, l)
  BY SideListed
<1>2. k.head[l] \in Link /\ k.head[l] \in Reach(k, l) /\ l \in ThreadList
  BY ReachFacts DEF Sched
<1>3. k.head[l] \in Thread => k.head[l] \in Listed(k, l)
  BY <1>2 DEF Listed
<1>4. k.head[l] \notin Thread => Listed(k, l) = {}
  BY <1>2, EmptyReach, LinkFacts
<1>5. ASSUME Sentinel \in Reach(k, l), k.next[k.head[l]] = NULL
      PROVE  Listed(k, l) = {}
  <2>1. SUFFICES ASSUME k.head[l] \in Thread PROVE FALSE
    BY <1>4
  <2>2. NULL \in Reach(k, l)
    BY <1>2, <1>3, <1>5, <2>1, ReachFacts
  <2>3. PICK x \in Ends : Reach(k, l) \cap Ends = {x}
    BY <1>2 DEF Lists, Chain
  <2> QED BY <1>5, <2>2, <2>3, LinkFacts
<1> QED BY <1>1, <1>3, <1>4, <1>5

(* A step of t concerns one queue: the sides of the others stay.            *)
LEMMA StirredGuards ==
  ASSUME NEW k, NEW r, NEW c, NEW e, NEW t \in Thread, NEW h, NEW ret,
         NEW m \in [QueueId -> Ring], NEW n \in [QueueId -> Ring], NEW q \in QueueId,
         Guarded(k, c, m), Stirred(k, r, c, e, t, h, ret),
         h \in Thread => k.state[h] = Waiting, SameSizes(m, n),
         \A p \in QueueId : p # q => n[p] = m[p],
         c[t].op \in Inside => WaitList(c[t]) \in {RecvQ(q), SendQ(q)},
         e[t].op \in Inside => WaitList(e[t]) \in {RecvQ(q), SendQ(q)} /\ r.state[t] = Waiting,
         Fits(r, Side(e, RecvQ(q)), n[q].used),
         Fits(r, Side(e, SendQ(q)), n[q].size - n[q].used)
  PROVE  Guarded(r, e, n)
<1>1. Ended(r, n)
  <2> SUFFICES ASSUME NEW p \in QueueId, p # Token, n[p].size > 0
               PROVE  Sentinel \in Reach(r, RecvQ(p))
    BY DEF Ended
  <2>1. Sentinel \in Reach(k, RecvQ(p))
    BY DEF Guarded, Ended, SameSizes
  <2> QED BY <2>1, QueueLists DEF Stirred
<1>2. Awake(r, e)
  <2> SUFFICES ASSUME NEW u \in Thread, e[u].op \in Inside
               PROVE  r.state[u] \in {Waiting, Ready, Running}
    BY DEF Awake
  <2>1. CASE u = t
    BY <2>1
  <2>2. CASE u # t
    <3>1. e[u] = c[u] /\ Like(r.state[u], IF u = h THEN Ready ELSE k.state[u])
      BY <2>2 DEF Stirred
    <3>2. k.state[u] \in {Waiting, Ready, Running}
      BY <3>1 DEF Guarded, Awake
    <3> QED BY <3>1, <3>2, WaitingLike
  <2> QED BY <2>1, <2>2
<1>3. ASSUME NEW p \in QueueId, p # q, NEW l, l = RecvQ(p) \/ l = SendQ(p), NEW x \in Int,
             Fits(k, Side(c, l), x)
      PROVE  Fits(r, Side(e, l), x)
  <2>1. l # RecvQ(q) /\ l # SendQ(q)
    BY <1>3, QueueLists
  <2>2. t \notin Side(e, l) /\ t \notin Took(k, Side(c, l))
    BY <2>1 DEF Side, Took
  <2>3. h \in Side(c, l) => k.state[h] = Waiting
    BY DEF Side
  <2> QED BY <1>3, <2>2, <2>3, SideStays
<1>4. Balanced(r, e, n)
  <2> SUFFICES ASSUME NEW p \in QueueId
               PROVE  /\ Fits(r, Side(e, RecvQ(p)), n[p].used)
                      /\ Fits(r, Side(e, SendQ(p)), n[p].size - n[p].used)
    BY DEF Balanced
  <2>1. CASE p = q
    BY <2>1
  <2>2. CASE p # q
    <3>1. n[p] = m[p] /\ m[p].used \in Int /\ m[p].size - m[p].used \in Int
      BY <2>2 DEF Ring
    <3>2. /\ Fits(k, Side(c, RecvQ(p)), m[p].used)
          /\ Fits(k, Side(c, SendQ(p)), m[p].size - m[p].used)
      BY DEF Guarded, Balanced
    <3>3. Fits(r, Side(e, RecvQ(p)), m[p].used)
      BY <1>3, <2>2, <3>1, <3>2
    <3>4. Fits(r, Side(e, SendQ(p)), m[p].size - m[p].used)
      BY <1>3, <2>2, <3>1, <3>2
    <3> QED BY <3>1, <3>3, <3>4
  <2> QED BY <2>1, <2>2
<1> QED BY <1>1, <1>2, <1>4 DEF Guarded

(* A step that touches nobody inside a call.                                *)
Calm(k, r, c, e) ==
  /\ \A u \in Thread : c[u].op \in Inside \/ e[u].op \in Inside =>
       e[u] = c[u] /\ Like(r.state[u], k.state[u]) /\ r.r0[u] = k.r0[u]
  /\ \A l \in ThreadList \ {SchedulerQueue} : Sentinel \in Reach(k, l) => Sentinel \in Reach(r, l)

LEMMA CalmGuards ==
  ASSUME NEW k, NEW r, NEW c, NEW e, NEW m, Guarded(k, c, m), Calm(k, r, c, e)
  PROVE  Guarded(r, e, m)
<1>1. Ended(r, m)
  BY QueueLists DEF Guarded, Ended, Calm
<1>2. Awake(r, e)
  <2> SUFFICES ASSUME NEW u \in Thread, e[u].op \in Inside
               PROVE  r.state[u] \in {Waiting, Ready, Running}
    BY DEF Awake
  <2>1. e[u] = c[u] /\ Like(r.state[u], k.state[u])
    BY DEF Calm
  <2>2. k.state[u] \in {Waiting, Ready, Running}
    BY <2>1 DEF Guarded, Awake
  <2> QED BY <2>1, <2>2, WaitingLike
<1>3. ASSUME NEW l
      PROVE  Side(e, l) = Side(c, l) /\ \A u \in Side(c, l) :
               (r.state[u] = Waiting <=> k.state[u] = Waiting) /\ r.r0[u] = k.r0[u]
  <2>1. Side(e, l) = Side(c, l)
    BY DEF Side, Calm
  <2>2. ASSUME NEW u \in Side(c, l)
        PROVE  (r.state[u] = Waiting <=> k.state[u] = Waiting) /\ r.r0[u] = k.r0[u]
    <3>1. Like(r.state[u], k.state[u]) /\ r.r0[u] = k.r0[u]
      BY DEF Side, Calm
    <3> QED BY <3>1, WaitingLike
  <2> QED BY <2>1, <2>2
<1>4. ASSUME NEW l
      PROVE  /\ Waits(r, Side(e, l)) = Waits(k, Side(c, l))
             /\ Took(r, Side(e, l)) = Took(k, Side(c, l))
  <2>1. Side(e, l) = Side(c, l)
    BY <1>3
  <2>2. \A u \in Side(c, l) : (r.state[u] = Waiting <=> k.state[u] = Waiting) /\ r.r0[u] = k.r0[u]
    BY <1>3
  <2> QED BY <2>1, <2>2 DEF Waits, Took
<1>5. \A l, n : Fits(k, Side(c, l), n) => Fits(r, Side(e, l), n)
  BY <1>4 DEF Fits
<1>6. Balanced(r, e, m)
  BY <1>5 DEF Balanced, Guarded
<1> QED BY <1>1, <1>2, <1>6 DEF Guarded

LEMMA AwakenedStirs ==
  ASSUME NEW k, NEW r, NEW l, NEW ret, Awakened(k, r, l, ret), k.next[Sentinel] = Sentinel,
         NEW c, NEW e, \A u \in Thread : u # k.current => e[u] = c[u]
  PROVE  Stirred(k, r, c, e, k.current, k.head[l], ret)
BY DEF Awakened, Stirred

LEMMA YieldedStirs ==
  ASSUME NEW k, NEW r, NEW s, NEW l, Yielded(k, r, s, l),
         NEW c, NEW e, \A u \in Thread : u # k.current => e[u] = c[u]
  PROVE  Stirred(k, r, c, e, k.current, NULL, Success)
BY LinkFacts DEF Yielded, WaitsOn, Stirred

LEMMA NothingStirs ==
  ASSUME NEW k, NEW t, NEW c, NEW e, \A u \in Thread : u # t => e[u] = c[u]
  PROVE  Stirred(k, k, c, e, t, NULL, Success)
BY LinkFacts DEF Stirred, Like

LEMMA UnblockStirs ==
  ASSUME NEW k \in Sched, NEW c, NEW m, Ran(k, c, m), NEW l \in ThreadList \ {SchedulerQueue},
         NEW ret \in Returns, NEW r, r = UnblockThread(k, l, ret), r.status = "ok",
         NEW e, \A u \in Thread : u # k.current => e[u] = c[u]
  PROVE  /\ Stirred(k, r, c, e, k.current, k.head[l], ret)
         /\ k.head[l] \in Thread => k.state[k.head[l]] = Waiting /\ k.head[l] # k.current
<1>1. Settled(k) /\ k.next[Sentinel] = Sentinel /\ l \in ThreadList /\ l # SchedulerQueue
  BY DEF Ran, KInv
<1>2. Awakened(k, r, l, ret)
  BY <1>1, UnblockLists
<1>3. Stirred(k, r, c, e, k.current, k.head[l], ret)
  BY <1>1, <1>2, AwakenedStirs
<1>4. k.head[l] \in Thread => k.state[k.head[l]] = Waiting
  <2>1. k.head[l] \in Thread => k.head[l] \in Listed(k, l)
    BY <1>2 DEF Awakened
  <2> QED BY <1>1, <2>1 DEF Settled, Placed
<1>5. k.state[k.current] = Running
  BY <1>1 DEF Settled, CurrentRuns
<1> QED BY <1>3, <1>4, <1>5, StateFacts

GuardedNow == Guarded(sched, cont, mq)
GuardedNext == Guarded(sched', cont', mq')

(* A thread in its program, or back in a call that waited on l, is the one  *)
(* that runs.                                                               *)
BackAt(t, l) == t = sched.current /\ (cont[t].op \in Inside => WaitList(cont[t]) = l)

LEMMA WaitGuards ==
  ASSUME TypeOK, RanNow, GuardedNow, NEW t \in Thread, NEW q \in QueueId,
         NEW l, l = RecvQ(q) \/ l = SendQ(q), BackAt(t, l),
         NEW d, d.op \in Inside, WaitList(d) = l, WaitOn(t, l, d), sched'.status = "ok",
         l = RecvQ(q) => mq[q].used = 0, l = SendQ(q) => Full(mq[q])
  PROVE  GuardedNext
<1>1. /\ sched' = YieldCurrentThread([sched EXCEPT !.state[sched.current] = Waiting], l)
      /\ cont' = [cont EXCEPT ![t] = d] /\ mq' = mq /\ t = sched.current
  BY DEF WaitOn, BackAt
<1>2. /\ sched \in Sched /\ cont \in [Thread -> Continuation] /\ mq \in [QueueId -> Ring]
      /\ Settled(sched) /\ l \in ThreadList \ {SchedulerQueue}
      /\ mq[q].used \in Int /\ mq[q].size - mq[q].used \in Int
  BY QueueLists DEF TypeOK, RanNow, Ran, KInv, Ring
<1>3. MayYield(Waiting, l)
  BY <1>2 DEF MayYield
<1>4. Yielded(sched, sched', Waiting, l)
  BY <1>1, <1>2, <1>3, YieldLists DEF Settled
<1>5. cont'[t] = d /\ \A u \in Thread : u # t => cont'[u] = cont[u]
  BY <1>1, <1>2
<1>6. Stirred(sched, sched', cont, cont', t, NULL, Success)
  BY <1>1, <1>4, <1>5, YieldedStirs
<1>7. sched'.state[t] = Waiting
  <2>1. Like(sched'.state[t], Waiting)
    BY <1>1, <1>4 DEF Yielded
  <2> QED BY <2>1, WaitingLike
<1>8. NULL \notin Thread /\ RecvQ(q) # SendQ(q)
  BY LinkFacts, QueueLists
<1>9. /\ Fits(sched, Side(cont, RecvQ(q)), mq[q].used)
      /\ Fits(sched, Side(cont, SendQ(q)), mq[q].size - mq[q].used)
  BY DEF GuardedNow, Guarded, Balanced
<1>10. ASSUME NEW j, j # l, NEW n \in Int, Fits(sched, Side(cont, j), n)
       PROVE  Fits(sched', Side(cont', j), n)
  <2>1. t \notin Side(cont', j) /\ t \notin Took(sched, Side(cont, j))
    BY <1>5, <1>10 DEF Side, Took, BackAt
  <2>2. NULL \notin Side(cont, j)
    BY <1>8 DEF Side
  <2> QED BY <1>6, <1>10, <2>1, <2>2, SideStays
<1>11. Fits(sched', Side(cont', RecvQ(q)), mq[q].used)
  <2>1. CASE l = RecvQ(q)
    BY <1>2, <2>1, SideEmpty
  <2>2. CASE l # RecvQ(q)
    BY <1>2, <1>9, <1>10, <2>2
  <2> QED BY <2>1, <2>2
<1>12. Fits(sched', Side(cont', SendQ(q)), mq[q].size - mq[q].used)
  <2>1. CASE l = SendQ(q)
    <3>1. mq[q].size - mq[q].used <= 0
      BY <1>2, <2>1 DEF Full, Ring
    <3> QED BY <1>2, <3>1, SideEmpty
  <2>2. CASE l # SendQ(q)
    BY <1>2, <1>9, <1>10, <2>2
  <2> QED BY <2>1, <2>2
<1>13. /\ cont[t].op \in Inside => WaitList(cont[t]) \in {RecvQ(q), SendQ(q)}
       /\ cont'[t].op \in Inside => WaitList(cont'[t]) \in {RecvQ(q), SendQ(q)}
  BY <1>5 DEF BackAt
<1>14. SameSizes(mq, mq) /\ Guarded(sched, cont, mq)
  BY DEF SameSizes, GuardedNow
<1>15. Guarded(sched', cont', mq)
  BY <1>2, <1>6, <1>7, <1>8, <1>11, <1>12, <1>13, <1>14, StirredGuards
<1> QED BY <1>1, <1>15 DEF GuardedNext

(* What t adds for the one side of a queue, with a wake up, it takes from   *)
(* the other.                                                               *)
LEMMA WakeFits ==
  ASSUME NEW k, NEW r, NEW c, NEW e, NEW t \in Thread, NEW h, Stirred(k, r, c, e, t, h, Success),
         NEW wl, NEW tl, wl # tl, c[t].op \in Inside => WaitList(c[t]) = tl, e[t].op \notin Inside,
         h \in Thread => h \in Waits(k, Side(c, wl)) /\ h # t,
         h \notin Thread => Waits(k, Side(c, wl)) = {},
         NEW x \in Int, Fits(k, Side(c, wl), x), NEW y \in Int, Fits(k, Side(c, tl), y)
  PROVE  Fits(r, Side(e, wl), x + 1) /\ Fits(r, Side(e, tl), y - 1)
<1>1. t \notin Side(e, wl) /\ t \notin Side(e, tl) /\ t \notin Took(k, Side(c, wl))
  BY DEF Side, Took
<1>2. \A l : h \in Side(c, l) => k.state[h] = Waiting
  BY DEF Side, Waits
<1>3. x + 1 \in Int /\ y - 1 \in Int /\ x + 1 <= x + 1 /\ y - 1 <= y - 1
  OBVIOUS
<1>4. Fits(r, Side(e, tl), y - 1)
  BY <1>1, <1>2, <1>3, SideStays
<1>5. Fits(r, Side(e, wl), x + 1)
  <2>1. CASE h \in Thread
    BY <1>1, <1>2, <1>3, <2>1, SideStays
  <2>2. CASE h \notin Thread
    BY <1>1, <1>2, <1>3, <2>2, SideStays
  <2> QED BY <2>1, <2>2
<1> QED BY <1>4, <1>5

(* The list woken by WakeReceiver, by WakeSender or by neither.             *)
Wakes(k, r, l) ==
  \/ r = UnblockThread(k, l, Success)
  \/ r = k /\ (k.head[l] = NULL \/ (Sentinel \in Reach(k, l) /\ k.next[k.head[l]] = NULL))

LEMMA WakesStir ==
  ASSUME NEW k \in Sched, NEW c \in [Thread -> Continuation], NEW m, Ran(k, c, m),
         NEW l \in ThreadList \ {SchedulerQueue}, NEW r, Wakes(k, r, l), r.status = "ok",
         NEW e, \A u \in Thread : u # k.current => e[u] = c[u]
  PROVE  \E h : /\ Stirred(k, r, c, e, k.current, h, Success)
                /\ h \in Thread => h \in Waits(k, Side(c, l)) /\ h # k.current
                /\ h \notin Thread => Waits(k, Side(c, l)) = {}
<1>1. Lists(k) /\ Placed(k) /\ Accounts(k, c) /\ CurrentRuns(k) /\ Success \in Returns
  BY DEF Ran, KInv, Settled, Returns
<1>2. /\ k.head[l] \in Thread => k.head[l] \in Waits(k, Side(c, l))
      /\ k.head[l] \notin Thread => Waits(k, Side(c, l)) = {}
      /\ Sentinel \in Reach(k, l) /\ k.next[k.head[l]] = NULL => Waits(k, Side(c, l)) = {}
  BY <1>1, HeadWaits
<1>3. CASE r = UnblockThread(k, l, Success)
  <2>1. /\ Stirred(k, r, c, e, k.current, k.head[l], Success)
        /\ k.head[l] \in Thread => k.head[l] # k.current
    BY <1>1, <1>3, UnblockStirs
  <2> QED BY <1>2, <2>1
<1>4. CASE r = k /\ (k.head[l] = NULL \/ (Sentinel \in Reach(k, l) /\ k.next[k.head[l]] = NULL))
  <2>1. Stirred(k, r, c, e, k.current, NULL, Success)
    BY <1>4, NothingStirs
  <2>2. Waits(k, Side(c, l)) = {} /\ NULL \notin Thread
    BY <1>2, <1>4, LinkFacts
  <2> QED BY <2>1, <2>2
<1> QED BY <1>3, <1>4 DEF Wakes

(* A message is put into q, or taken from it, and the other side woken.     *)
LEMMA PassGuards ==
  ASSUME TypeOK, RanNow, GuardedNow, NEW t \in Thread, NEW q \in QueueId,
         NEW wl, NEW tl, (wl = RecvQ(q) /\ tl = SendQ(q)) \/ (wl = SendQ(q) /\ tl = RecvQ(q)),
         BackAt(t, tl), Wakes(sched, sched', wl), sched'.status = "ok",
         cont' = [cont EXCEPT ![t] = User], NEW r \in Ring, mq' = [mq EXCEPT ![q] = r],
         r.size = mq[q].size,
         r.used = IF wl = RecvQ(q) THEN mq[q].used + 1 ELSE mq[q].used - 1
  PROVE  GuardedNext
<1>1. /\ sched \in Sched /\ cont \in [Thread -> Continuation] /\ mq \in [QueueId -> Ring]
      /\ Ran(sched, cont, mq) /\ wl \in ThreadList \ {SchedulerQueue} /\ wl # tl
      /\ mq[q].used \in Int /\ mq[q].size - mq[q].used \in Int
      /\ t = sched.current
  BY QueueLists DEF TypeOK, RanNow, Ring, BackAt
<1>2. cont'[t] = User /\ \A u \in Thread : u # t => cont'[u] = cont[u]
  BY <1>1
<1>3. PICK h : /\ Stirred(sched, sched', cont, cont', t, h, Success)
               /\ h \in Thread => h \in Waits(sched, Side(cont, wl)) /\ h # t
               /\ h \notin Thread => Waits(sched, Side(cont, wl)) = {}
  BY <1>1, <1>2, WakesStir
<1>4. cont'[t].op \notin Inside
  BY <1>2, UserCode
<1>5. /\ Fits(sched, Side(cont, RecvQ(q)), mq[q].used)
      /\ Fits(sched, Side(cont, SendQ(q)), mq[q].size - mq[q].used)
  BY DEF GuardedNow, Guarded, Balanced
<1>6. mq' \in [QueueId -> Ring] /\ mq'[q] = r /\ \A p \in QueueId : p # q => mq'[p] = mq[p]
  BY <1>1
<1>7. SameSizes(mq, mq')
  BY <1>6 DEF SameSizes
<1>8. h \in Thread => sched.state[h] = Waiting
  BY <1>3 DEF Waits
<1>9. cont[t].op \in Inside => WaitList(cont[t]) = tl
  BY DEF BackAt
<1>10. Fits(sched', Side(cont', RecvQ(q)), r.used)
       /\ Fits(sched', Side(cont', SendQ(q)), r.size - r.used)
  <2>0. ASSUME NEW x \in Int, NEW y \in Int,
               Fits(sched, Side(cont, wl), x), Fits(sched, Side(cont, tl), y)
        PROVE  Fits(sched', Side(cont', wl), x + 1) /\ Fits(sched', Side(cont', tl), y - 1)
    <3>1. wl # tl
      BY <1>1
    <3> QED BY <1>3, <1>4, <1>9, <2>0, <3>1, WakeFits
  <2>1. CASE wl = RecvQ(q) /\ tl = SendQ(q)
    <3>1. /\ Fits(sched', Side(cont', RecvQ(q)), mq[q].used + 1)
          /\ Fits(sched', Side(cont', SendQ(q)), (mq[q].size - mq[q].used) - 1)
      BY <1>1, <1>5, <2>0, <2>1
    <3>2. r.used = mq[q].used + 1 /\ r.size - r.used = (mq[q].size - mq[q].used) - 1
      BY <1>1, <2>1 DEF Ring
    <3> QED BY <3>1, <3>2
  <2>2. CASE wl = SendQ(q) /\ tl = RecvQ(q)
    <3> DEFINE x == mq[q].size - mq[q].used
    <3>0. /\ x \in Int /\ Fits(sched, Side(cont, wl), x) /\ Fits(sched, Side(cont, tl), mq[q].used)
      BY <1>1, <1>5, <2>2
    <3> HIDE DEF x
    <3>3. Fits(sched', Side(cont', wl), x + 1) /\ Fits(sched', Side(cont', tl), mq[q].used - 1)
      BY <1>1, <2>0, <3>0
    <3>1. /\ Fits(sched', Side(cont', SendQ(q)), (mq[q].size - mq[q].used) + 1)
          /\ Fits(sched', Side(cont', RecvQ(q)), mq[q].used - 1)
      BY <2>2, <3>3 DEF x
    <3>2. r.used = mq[q].used - 1 /\ r.size - r.used = (mq[q].size - mq[q].used) + 1
      BY <1>1, <2>2 DEF Ring
    <3> QED BY <3>1, <3>2
  <2> QED BY <2>1, <2>2
<1>11. Guarded(sched, cont, mq)
  BY DEF GuardedNow
<1>12. /\ cont[t].op \in Inside => WaitList(cont[t]) \in {RecvQ(q), SendQ(q)}
       /\ cont'[t].op \in Inside => WaitList(cont'[t]) \in {RecvQ(q), SendQ(q)}
                                   /\ sched'.state[t] = Waiting
  BY <1>4, <1>9
<1>13. /\ Fits(sched', Side(cont', RecvQ(q)), mq'[q].used)
       /\ Fits(sched', Side(cont', SendQ(q)), mq'[q].size - mq'[q].used)
  BY <1>6, <1>10
<1>14. mq \in [QueueId -> Ring] /\ Stirred(sched, sched', cont, cont', t, h, Success)
  BY <1>1, <1>3
<1>15. Guarded(sched', cont', mq')
  BY <1>6, <1>7, <1>8, <1>11, <1>12, <1>13, <1>14, StirredGuards
<1> QED BY <1>15 DEF GuardedNext

LEMMA PutGuards ==
  ASSUME TypeOK, RanNow, GuardedNow, mq' \in [QueueId -> Ring], NEW t \in Thread,
         NEW op \in {"send", "jam"}, NEW q \in QueueId, NEW x, BackAt(t, SendQ(q)),
         PutLoop(t, op, q, x), sched'.status = "ok"
  PROVE  GuardedNext
<1>1. CASE Full(mq[q])
  <2> DEFINE d == Cont(op, q, x, NULL)
  <2>1. d.op \in Inside /\ WaitList(d) = SendQ(q)
    BY DEF Cont, Inside, WaitList
  <2>2. WaitOn(t, SendQ(q), d)
    BY <1>1 DEF PutLoop
  <2>3. SendQ(q) # RecvQ(q)
    BY QueueLists
  <2> HIDE DEF d
  <2> QED BY <1>1, <2>1, <2>2, <2>3, WaitGuards
<1>2. CASE ~ Full(mq[q])
  <2> DEFINE y == IF op = "send" THEN Appended(mq[q], x) ELSE Jammed(mq[q], x)
  <2>1. /\ mq' = [mq EXCEPT ![q] = y] /\ sched' = WakeReceiver(sched, q)
        /\ cont' = [cont EXCEPT ![t] = User]
    BY <1>2 DEF PutLoop
  <2>2. mq[q] \in Ring
    BY DEF TypeOK
  <2>3. y.size = mq[q].size /\ y.used = mq[q].used + 1
    BY <2>2 DEF Appended, Jammed, Stored, Ring
  <2>4. y \in Ring
    <3>1. mq'[q] \in Ring
      OBVIOUS
    <3>2. mq'[q] = y
      BY <2>1 DEF TypeOK
    <3> QED BY <3>1, <3>2
  <2> HIDE DEF y
  <2>5. Wakes(sched, sched', RecvQ(q))
    <3>1. CASE sched.head[RecvQ(q)] = NULL
      BY <2>1, <3>1 DEF WakeReceiver, Wakes, HeadOf
    <3>2. CASE sched.head[RecvQ(q)] # NULL
      BY <2>1, <3>2 DEF WakeReceiver, Wakes, HeadOf
    <3> QED BY <3>1, <3>2
  <2>6. /\ cont' = [cont EXCEPT ![t] = User] /\ mq' = [mq EXCEPT ![q] = y]
        /\ y.used = IF RecvQ(q) = RecvQ(q) THEN mq[q].used + 1 ELSE mq[q].used - 1
    BY <2>1, <2>3
  <2> QED BY <2>3, <2>4, <2>5, <2>6, PassGuards
<1> QED BY <1>1, <1>2

LEMMA TakeGuards ==
  ASSUME TypeOK, RanNow, GuardedNow, mq' \in [QueueId -> Ring], NEW t \in Thread,
         NEW op \in {"recv", "begin"}, NEW q \in QueueId, BackAt(t, RecvQ(q)),
         TakeLoop(t, op, q), sched'.status = "ok"
  PROVE  GuardedNext
<1>1. CASE mq[q].used = 0
  <2> DEFINE d == Cont(op, q, NULL, NULL)
  <2>1. d.op \in Inside /\ WaitList(d) = RecvQ(q)
    BY DEF Cont, Inside, WaitList
  <2>2. WaitOn(t, RecvQ(q), d)
    BY <1>1 DEF TakeLoop
  <2>3. SendQ(q) # RecvQ(q)
    BY QueueLists
  <2> HIDE DEF d
  <2> QED BY <1>1, <2>1, <2>2, <2>3, WaitGuards
<1>2. CASE mq[q].used # 0
  <2> DEFINE y == Taken(mq[q])
  <2>1. /\ mq' = [mq EXCEPT ![q] = y] /\ sched' = WakeSender(sched, q)
        /\ cont' = [cont EXCEPT ![t] = User]
    BY <1>2 DEF TakeLoop
  <2>2. mq[q] \in Ring
    BY DEF TypeOK
  <2>3. y.size = mq[q].size /\ y.used = mq[q].used - 1
    BY <2>2 DEF Taken, Ring
  <2>4. y \in Ring
    <3>1. mq'[q] \in Ring
      OBVIOUS
    <3>2. mq'[q] = y
      BY <2>1 DEF TypeOK
    <3> QED BY <3>1, <3>2
  <2> HIDE DEF y
  <2>5. sched.head[SendQ(q)] = NULL \/ Sentinel \in Reach(sched, SendQ(q))
    BY <2>2 DEF RanNow, Ran, KInv, Queues, Ring
  <2>6. Wakes(sched, sched', SendQ(q))
    BY <2>1, <2>5 DEF WakeSender, Wakes, HeadOf
  <2>7. SendQ(q) # RecvQ(q)
    BY QueueLists
  <2> QED BY <2>1, <2>3, <2>4, <2>6, <2>7, PassGuards
<1> QED BY <1>1, <1>2

(* A call that returns took nothing: it was interrupted, or never waited.   *)
LEMMA ReturnGuards ==
  ASSUME TypeOK, RanNow, GuardedNow, NEW t \in Thread,
         cont[t].op \in Inside => sched.r0[t] # Success, Return(t)
  PROVE  GuardedNext
<1>1. /\ sched' = sched /\ mq' = mq /\ cont' = [cont EXCEPT ![t] = User]
      /\ cont \in [Thread -> Continuation] /\ mq \in [QueueId -> Ring]
  BY DEF Return, TypeOK
<1>2. cont'[t].op \notin Inside /\ \A u \in Thread : u # t => cont'[u] = cont[u]
  BY <1>1, UserCode
<1>3. Guarded(sched, cont, mq)
  BY DEF GuardedNow
<1>4. Stirred(sched, sched, cont, cont', t, NULL, Success)
  BY <1>2, NothingStirs
<1>5. NULL \notin Thread /\ \A l : NULL \notin Side(cont, l)
  BY LinkFacts DEF Side
<1>6. \A l : t \notin Side(cont', l) /\ t \notin Took(sched, Side(cont, l))
  BY <1>2 DEF Side, Took
<1>7. ASSUME NEW l, NEW n \in Int, Fits(sched, Side(cont, l), n)
      PROVE  Fits(sched, Side(cont', l), n)
  BY <1>4, <1>5, <1>6, <1>7, SideStays
<1>8. ASSUME NEW q \in QueueId
      PROVE  /\ Fits(sched, Side(cont', RecvQ(q)), mq[q].used)
             /\ Fits(sched, Side(cont', SendQ(q)), mq[q].size - mq[q].used)
  <2>1. mq[q].used \in Int /\ mq[q].size - mq[q].used \in Int
    BY <1>1 DEF Ring
  <2> QED BY <1>3, <1>7, <2>1 DEF Guarded, Balanced
<1>9. Awake(sched, cont')
  BY <1>2, <1>3 DEF Guarded, Awake
<1> QED BY <1>1, <1>3, <1>8, <1>9 DEF GuardedNext, Guarded, Balanced

(* Waking the senders of a queue that is to go, told that it goes.          *)
LEMMA DestroyGuards ==
  ASSUME TypeOK, RanNow, GuardedNow, NEW t \in Thread, t = sched.current,
         cont[t].op \notin Inside, NEW q \in QueueId, DestroyLoop(t, q), sched'.status = "ok"
  PROVE  GuardedNext
<1>0. /\ sched \in Sched /\ cont \in [Thread -> Continuation] /\ mq \in [QueueId -> Ring]
      /\ mq[q] \in Ring /\ Queues(sched, mq) /\ Ran(sched, cont, mq) /\ Guarded(sched, cont, mq)
  BY DEF TypeOK, RanNow, Ran, KInv, GuardedNow
<1>1. CASE mq[q].size > 0
  <2> DEFINE d  == Cont("destroy", q, NULL, NULL)
             k1 == UnblockThread(sched, SendQ(q), Interrupted)
  <2>1. Sentinel \in Reach(sched, SendQ(q)) /\ SendQ(q) \in ThreadList \ {SchedulerQueue}
        /\ SendQ(q) \in ThreadList
    BY <1>0, <1>1, QueueLists DEF Queues
  <2>2. HeadOf(sched, SendQ(q)) # NULL
    <3>1. SUFFICES ASSUME sched.head[SendQ(q)] = NULL PROVE FALSE
      BY DEF HeadOf
    <3>2. Reach(sched, SendQ(q)) = {NULL}
      BY <1>0, <2>1, <3>1, EmptyReach DEF Ends
    <3> QED BY <2>1, <3>2, LinkFacts
  <2>3. /\ sched' = IF k1 = sched THEN Stop(k1, "hung") ELSE k1
        /\ cont' = [cont EXCEPT ![t] = d] /\ mq' = mq
    BY <2>2 DEF DestroyLoop
  <2>4. sched' = k1
    BY <1>0, <2>3, StopFields DEF Statuses
  <2>5. d.op \notin Inside
    BY DEF Cont, Inside
  <2> HIDE DEF k1, d
  <2>6. cont'[t].op \notin Inside /\ \A u \in Thread : u # t => cont'[u] = cont[u]
    BY <1>0, <2>3, <2>5
  <2>7. PICK h : /\ Stirred(sched, sched', cont, cont', t, h, Interrupted)
                 /\ h \in Thread => sched.state[h] = Waiting
    BY <1>0, <2>1, <2>4, <2>6, UnblockStirs DEF k1, Returns
  <2>8. \A l : t \notin Side(cont', l) /\ t \notin Took(sched, Side(cont, l))
    BY <2>6 DEF Side, Took
  <2>9. \A l : h \in Side(cont, l) => sched.state[h] = Waiting
    BY <2>7 DEF Side
  <2>10. ASSUME NEW l, NEW n \in Int, Fits(sched, Side(cont, l), n)
         PROVE  Fits(sched', Side(cont', l), n)
    BY <2>7, <2>8, <2>9, <2>10, SideStays
  <2>11. /\ Fits(sched', Side(cont', RecvQ(q)), mq[q].used)
         /\ Fits(sched', Side(cont', SendQ(q)), mq[q].size - mq[q].used)
    <3>1. mq[q].used \in Int /\ mq[q].size - mq[q].used \in Int
      BY <1>0 DEF Ring
    <3> QED BY <1>0, <2>10, <3>1 DEF Guarded, Balanced
  <2>12. SameSizes(mq, mq)
    BY DEF SameSizes
  <2>13. Guarded(sched', cont', mq)
    BY <1>0, <2>6, <2>7, <2>11, <2>12, StirredGuards
  <2> QED BY <2>3, <2>13 DEF GuardedNext
<1>2. CASE mq[q].size = 0
  <2>1. HeadOf(sched, SendQ(q)) = NULL /\ HeadOf(sched, RecvQ(q)) = NULL
    BY <1>0, <1>2 DEF Queues, HeadOf
  <2>2. /\ mq' = [mq EXCEPT ![q].size = 0] /\ cont' = [cont EXCEPT ![t] = User]
        /\ sched' = sched
    BY <2>1 DEF DestroyLoop
  <2>3. mq' = mq
    BY <1>0, <1>2, <2>2 DEF Ring
  <2>4. Return(t)
    BY <2>2, <2>3 DEF Return
  <2> QED BY <2>4, ReturnGuards
<1> QED BY <1>0, <1>1, <1>2 DEF Ring

(* Nobody is inside a call on a queue that was not there.                   *)
LEMMA NewQueueGuards ==
  ASSUME TypeOK, KInv(sched, cont, mq), GuardedNow, NEW q \in QueueId, mq[q].size = 0,
         NEW k, QueueMade(sched, k, q), NEW n \in [QueueId -> Ring],
         \A p \in QueueId : p # q => n[p].size = mq[p].size /\ n[p].used = mq[p].used
  PROVE  Guarded(k, cont, n)
<1>1. /\ sched \in Sched /\ cont \in [Thread -> Continuation] /\ Settled(sched)
      /\ Guarded(sched, cont, mq) /\ LiveWaits(cont, mq) /\ Queues(sched, mq)
  BY DEF TypeOK, KInv, GuardedNow
<1>2. k \in Sched /\ k.state = sched.state /\ k.r0 = sched.r0 /\ k.head[RecvQ(q)] = Sentinel
  BY DEF QueueMade
<1>3. \A l \in ThreadList : l # RecvQ(q) /\ l # SendQ(q) => Reach(k, l) = Reach(sched, l)
  BY <1>1, QueueMadeLists DEF Queues
<1>4. Ended(k, n)
  <2> SUFFICES ASSUME NEW p \in QueueId, p # Token, n[p].size > 0
               PROVE  Sentinel \in Reach(k, RecvQ(p))
    BY DEF Ended
  <2>1. RecvQ(p) \in ThreadList
    BY QueueLists
  <2>2. CASE p = q
    BY <1>2, <2>1, <2>2, ReachFacts
  <2>3. CASE p # q
    <3>1. RecvQ(p) # RecvQ(q) /\ RecvQ(p) # SendQ(q)
      BY <2>3, QueueLists
    <3>2. Sentinel \in Reach(sched, RecvQ(p))
      BY <1>1, <2>3 DEF Guarded, Ended
    <3> QED BY <1>3, <2>1, <3>1, <3>2
  <2> QED BY <2>2, <2>3
<1>5. Awake(k, cont)
  BY <1>1, <1>2 DEF Guarded, Awake
<1>6. ASSUME NEW l, l = RecvQ(q) \/ l = SendQ(q) PROVE Side(cont, l) = {}
  <2> SUFFICES ASSUME NEW u \in Thread, cont[u].op \in Inside, WaitList(cont[u]) = l
               PROVE  FALSE
    BY DEF Side
  <2>1. cont[u].queue \in QueueId /\ mq[cont[u].queue].size > 0
    BY <1>1 DEF Continuation, Inside, LiveWaits
  <2>2. l = RecvQ(cont[u].queue) \/ l = SendQ(cont[u].queue)
    BY DEF WaitList, Inside
  <2>3. cont[u].queue = q
    BY <1>6, <2>1, <2>2, QueueLists
  <2> QED BY <2>1, <2>3
<1>7. ASSUME NEW l, NEW x, Fits(sched, Side(cont, l), x) PROVE Fits(k, Side(cont, l), x)
  BY <1>2, <1>7 DEF Fits, Waits, Took
<1>8. Balanced(k, cont, n)
  <2> SUFFICES ASSUME NEW p \in QueueId
               PROVE  /\ Fits(k, Side(cont, RecvQ(p)), n[p].used)
                      /\ Fits(k, Side(cont, SendQ(p)), n[p].size - n[p].used)
    BY DEF Balanced
  <2>1. CASE p = q
    BY <1>6, <2>1 DEF Fits, Waits
  <2>2. CASE p # q
    <3>1. /\ Fits(sched, Side(cont, RecvQ(p)), mq[p].used)
          /\ Fits(sched, Side(cont, SendQ(p)), mq[p].size - mq[p].used)
      BY <1>1 DEF Guarded, Balanced
    <3>2. n[p].size = mq[p].size /\ n[p].used = mq[p].used
      BY <2>2
    <3> QED BY <1>7, <3>1, <3>2
  <2> QED BY <2>1, <2>2
<1> QED BY <1>4, <1>5, <1>8 DEF Guarded

LEMMA CreateQueueGuards ==
  ASSUME TypeOK, RanNow, GuardedNow, mq' \in [QueueId -> Ring], NEW t \in Thread,
         NEW n \in 1 .. MaxQueueSize, CreateMessageQueue(t, n)
  PROVE  GuardedNext
<1>1. PICK q \in QueueId :
       /\ mq[q].size = 0
       /\ mq' = [mq EXCEPT ![q] = [@ EXCEPT !.proc = sched.proc[t], !.used = 0,
                                             !.first = 0, !.size = n]]
       /\ sched' = [sched EXCEPT !.head[RecvQ(q)] = Sentinel,
                                 !.head[SendQ(q)] = Sentinel]
       /\ cont' = cont
  BY DEF CreateMessageQueue
<1>2. \A p \in QueueId : p # q => mq'[p] = mq[p]
  BY <1>1 DEF TypeOK
<1>3. QueueMade(sched, sched', q)
  BY <1>1, QueueMadeFields DEF TypeOK
<1>4. KInv(sched, cont, mq)
  BY DEF RanNow, Ran
<1>5. Guarded(sched', cont, mq')
  BY <1>1, <1>2, <1>3, <1>4, NewQueueGuards
<1> QED BY <1>1, <1>5 DEF GuardedNext

-----------------------------------------------------------------------------
(* Calls on threads leave those alone that wait in a call, or were woken    *)
(* there, unless they suspend or cancel one.                                *)

LEMMA YieldedCalms ==
  ASSUME NEW k, NEW r, NEW s, NEW l, Yielded(k, r, s, l), NEW c, c[k.current].op \notin Inside,
         NEW e, \A u \in Thread : u # k.current => e[u] = c[u], e[k.current].op \notin Inside
  PROVE  Calm(k, r, c, e)
<1>1. ASSUME NEW u \in Thread, c[u].op \in Inside \/ e[u].op \in Inside
      PROVE  e[u] = c[u] /\ Like(r.state[u], k.state[u]) /\ r.r0[u] = k.r0[u]
  <2>1. u # k.current
    BY <1>1
  <2> QED BY <2>1 DEF Yielded
<1> QED BY <1>1 DEF Calm, Yielded, WaitsOn

LEMMA PutBackCalms ==
  ASSUME NEW k, NEW r, NEW u, NEW s, NEW l, PutBack(k, r, u, s, l),
         NEW c, c[k.current].op \notin Inside, c[u].op \notin Inside
  PROVE  Calm(k, r, c, c)
BY DEF Calm, PutBack

LEMMA MovedCalms ==
  ASSUME NEW k, NEW r, NEW u, Moved(k, r, u), NEW c, c[k.current].op \notin Inside
  PROVE  Calm(k, r, c, c)
BY DEF Calm, Moved

LEMMA CancelledCalms ==
  ASSUME NEW k, NEW r, NEW u, Cancelled(k, r, u), NEW c, c[k.current].op \notin Inside,
         c[u].op \notin Inside
  PROVE  Calm(k, r, c, c)
BY DEF Calm, Cancelled, SameWaits

(* The state of one thread outside any call is set and no list changes.     *)
LEMMA SetCalms ==
  ASSUME NEW k, NEW r, NEW u, NEW c, NEW e, c[u].op \notin Inside, e[u].op \notin Inside,
         \A v \in Thread : v # u => r.state[v] = k.state[v] /\ e[v] = c[v],
         r.r0 = k.r0,
         \A l \in ThreadList \ {SchedulerQueue} : Sentinel \in Reach(k, l) => Sentinel \in Reach(r, l)
  PROVE  Calm(k, r, c, e)
BY DEF Calm, Like

Undisturbed ==
  \A t \in Thread, id \in Thread : cont[Target(t, id)].op \in Inside =>
    ~ SuspendThread(t, id) /\ ~ CancelThread(t, id)

LEMMA ThreadCallGuards ==
  ASSUME TypeOK, RanNow, GuardedNow, Undisturbed, NEW t \in Thread, t = sched.current,
         cont[t].op \notin Inside, SetsLivePriorities(t), ThreadCall(t), sched'.status = "ok"
  PROVE  Guarded(sched', cont', mq)
<1>0. /\ sched \in Sched /\ cont \in [Thread -> Continuation] /\ mq \in [QueueId -> Ring]
      /\ \A id \in Thread : Target(t, id) \in Thread
      /\ Settled(sched) /\ sched.next[Sentinel] = Sentinel /\ Steady(sched)
      /\ sched.current \in Thread /\ sched.state[sched.current] = Running
      /\ cont[sched.current].op \notin Inside
      /\ Lists(sched) /\ Placed(sched) /\ CurrentRuns(sched)
  BY DEF TypeOK, Target, RanNow, Ran, KInv, Settled, CurrentRuns, Steady
<1>G. /\ \A r, e : Calm(sched, r, cont, e) => Guarded(r, e, mq)
      /\ \A u \in Thread : cont[u].op \in Inside => sched.state[u] \in {Waiting, Ready, Running}
  <2>1. Guarded(sched, cont, mq)
    BY DEF GuardedNow
  <2> QED BY <2>1, CalmGuards DEF Guarded, Awake
<1>1. CASE YieldThread(t)
  <2>1. /\ sched' = YieldCurrentThread([sched EXCEPT !.state[sched.current] = Ready],
                                       SchedulerQueue)
        /\ cont' = cont
    BY <1>1 DEF YieldThread
  <2>2. MayYield(Ready, SchedulerQueue)
    BY DEF MayYield
  <2>3. Yielded(sched, sched', Ready, SchedulerQueue)
    BY <1>0, <2>1, <2>2, YieldLists
  <2>4. Calm(sched, sched', cont, cont)
    BY <1>0, <2>3, YieldedCalms
  <2> QED BY <1>G, <2>1, <2>4
<1>2. ASSUME NEW p \in Priorities, NEW d \in BOOLEAN, CreateThread(t, p, d)
      PROVE  Guarded(sched', cont', mq)
  <2>1. PICK u \in Thread :
          /\ FreeSlot(sched, u)
          /\ sched' = Created(sched, u, p, d, sched.proc[t])
          /\ cont' = [cont EXCEPT ![u] = User]
    BY <1>2 DEF CreateThread
  <2>2. p \in Nat /\ sched.proc[t] \in Nat /\ sched.state[u] = Unset
    BY <1>0, <2>1, PrioritiesAssumption, LinkFacts DEF Sched, FreeSlot
  <2>3. Made(sched, sched', u)
    BY <1>0, <2>1, <2>2, CreatedLists
  <2>4. cont[u].op \notin Inside
    BY <1>G, <2>2 DEF Unset, Waiting, Ready, Running
  <2>5. cont'[u].op \notin Inside /\ \A v \in Thread : v # u => cont'[v] = cont[v]
    BY <1>0, <2>1, UserCode
  <2>6. \A v \in Thread : v # u => sched'.state[v] = sched.state[v]
    BY <1>0, <2>3, LinkFacts DEF Made, Sched
  <2>7. Calm(sched, sched', cont, cont')
    BY <2>3, <2>4, <2>5, <2>6, SetCalms DEF Made, SameWaits
  <2> QED BY <1>G, <2>7
<1>3. ASSUME NEW id \in Thread, StartThread(t, id) PROVE Guarded(sched', cont', mq)
  <2> DEFINE u == Target(t, id)
             s == IF sched.on[u] \in {NULL, SchedulerQueue} THEN Ready ELSE Waiting
             l == IF sched.on[u] \in {NULL, SchedulerQueue} THEN SchedulerQueue ELSE sched.on[u]
  <2>1. u \in Thread /\ sched.state[u] = Stopped /\ sched' = Started(sched, u) /\ cont' = cont
    BY <1>0, <1>3 DEF StartThread
  <2> HIDE DEF u
  <2>2. /\ sched.on[u] \in {NULL, SchedulerQueue} => s = Ready /\ l = SchedulerQueue
        /\ sched.on[u] \notin {NULL, SchedulerQueue} => s = Waiting /\ l = sched.on[u]
    OBVIOUS
  <2> HIDE DEF s, l
  <2>3. PutBack(sched, sched', u, s, l)
    BY <1>0, <2>1, <2>2, StartedLists
  <2>4. cont[u].op \notin Inside
    BY <1>G, <2>1 DEF Stopped, Waiting, Ready, Running
  <2>5. Calm(sched, sched', cont, cont)
    BY <1>0, <2>3, <2>4, PutBackCalms
  <2> QED BY <1>G, <2>1, <2>5
<1>4. ASSUME NEW id \in Thread, CancelThread(t, id) PROVE Guarded(sched', cont', mq)
  <2> DEFINE u  == Target(t, id)
             k1 == IF sched.state[u] = Stopped THEN sched
                   ELSE Remove(sched, SchedulerQueue, u)
             k2 == [k1 EXCEPT !.state[u] = IF k1.detached[u] THEN Unset ELSE Dead,
                              !.r0[sched.current] = Success]
  <2>1. /\ sched' = IF u = sched.current THEN ScheduleYield(k2) ELSE Preempt(k2)
        /\ cont' = cont /\ u \in Thread
    BY <1>0, <1>4 DEF CancelThread
  <2>2. cont[u].op \notin Inside
    BY <1>4 DEF Undisturbed
  <2>3. CutShort(sched, u, k1, k2)
    BY DEF CutShort
  <2> HIDE DEF k1, k2, u
  <2>4. Cancelled(sched, sched', u)
    BY <1>0, <2>1, <2>3, CancelLists
  <2>5. Calm(sched, sched', cont, cont)
    BY <1>0, <2>2, <2>4, CancelledCalms
  <2> QED BY <1>G, <2>1, <2>5
<1>5. ASSUME NEW id \in Thread, JoinThread(t, id) PROVE Guarded(sched', cont', mq)
  <2> DEFINE u == Target(t, id)
             d == Cont("join", NULL, NULL, u)
  <2>1. u \in Thread /\ d.op \notin Inside
    BY <1>0 DEF Cont, Inside
  <2>2. CASE sched.state[u] # Dead
    <3>1. /\ sched' = YieldCurrentThread([sched EXCEPT !.state[sched.current] = Waiting], NULL)
          /\ cont' = [cont EXCEPT ![sched.current] = d]
      BY <1>5, <2>2 DEF JoinThread
    <3> HIDE DEF d
    <3>2. MayYield(Waiting, NULL)
      BY DEF MayYield
    <3>3. Yielded(sched, sched', Waiting, NULL)
      BY <1>0, <3>1, <3>2, YieldLists
    <3>4. cont'[sched.current].op \notin Inside
          /\ \A v \in Thread : v # sched.current => cont'[v] = cont[v]
      BY <1>0, <2>1, <3>1
    <3>5. Calm(sched, sched', cont, cont')
      BY <1>0, <3>3, <3>4, YieldedCalms
    <3> QED BY <1>G, <3>5
  <2>3. CASE sched.state[u] = Dead
    <3>1. sched' = [sched EXCEPT !.state[u] = Unset] /\ cont' = cont
      BY <1>5, <2>3 DEF JoinThread
    <3>2. /\ sched' \in Sched /\ sched'.head = sched.head /\ sched'.next = sched.next
          /\ sched'.r0 = sched.r0 /\ \A v \in Thread : v # u => sched'.state[v] = sched.state[v]
      BY <1>0, <2>1, <3>1, LinkFacts, SMTT(60) DEF Sched, States
    <3> HIDE DEF u
    <3>3. \A l \in ThreadList : Reach(sched', l) = Reach(sched, l)
      BY <3>2 DEF Reach, Walk
    <3>4. cont[u].op \notin Inside
      BY <1>G, <2>1, <2>3 DEF Dead, Waiting, Ready, Running
    <3>5. Calm(sched, sched', cont, cont)
      BY <3>2, <3>3, <3>4, SetCalms
    <3> QED BY <1>G, <3>1, <3>5
  <2> QED BY <2>2, <2>3
<1>6. ASSUME NEW id \in Thread, SuspendThread(t, id) PROVE Guarded(sched', cont', mq)
  <2> DEFINE u == Target(t, id)
  <2>1. u \in Thread /\ cont' = cont /\ cont[u].op \notin Inside
    BY <1>0, <1>6 DEF SuspendThread, Undisturbed
  <2>2. CASE /\ sched.state[u] = Running
             /\ sched' = YieldCurrentThread([sched EXCEPT !.state[u] = Stopped], NULL)
    <3>1. u = sched.current
      BY <1>0, <2>1, <2>2 DEF CurrentRuns
    <3>2. sched' = YieldCurrentThread([sched EXCEPT !.state[sched.current] = Stopped], NULL)
      BY <2>2, <3>1
    <3>3. MayYield(Stopped, NULL)
      BY DEF MayYield
    <3>4. Yielded(sched, sched', Stopped, NULL)
      BY <1>0, <3>2, <3>3, YieldLists
    <3>5. Calm(sched, sched', cont, cont)
      BY <1>0, <3>4, YieldedCalms
    <3> QED BY <1>G, <2>1, <3>5
  <2>3. CASE /\ sched.state[u] \in {Ready, Waiting}
             /\ sched' = Remove([sched EXCEPT !.state[u] = Stopped], sched.on[u], u)
    <3> HIDE DEF u
    <3>1. TakenOff(sched, sched', u, sched.on[u], Stopped) /\ sched'.r0 = sched.r0
      BY <1>0, <2>1, <2>3, SuspendedLists
    <3>2. \A v \in Thread : v # u => sched'.state[v] = sched.state[v]
      BY <1>0, <3>1, LinkFacts DEF TakenOff, Sched
    <3>3. Calm(sched, sched', cont, cont)
      BY <2>1, <3>1, <3>2, SetCalms DEF TakenOff
    <3> QED BY <1>G, <2>1, <3>3
  <2> QED BY <1>6, <2>2, <2>3 DEF SuspendThread
<1>7. ASSUME NEW id \in Thread, NEW p \in Priorities, SetThreadPriority(t, id, p)
      PROVE  Guarded(sched', cont', mq)
  <2> DEFINE u == Target(t, id)
  <2>1. /\ u \in Thread /\ cont' = cont /\ sched' = Reprioritised(sched, u, p) /\ p \in Nat
        /\ sched.state[u] \notin {Unset, Dead}
    BY <1>0, <1>7, PrioritiesAssumption DEF SetThreadPriority, SetsLivePriorities
  <2> HIDE DEF u
  <2>2. Moved(sched, sched', u)
    BY <1>0, <2>1, ReprioritisedLists
  <2>3. Calm(sched, sched', cont, cont)
    BY <1>0, <2>2, MovedCalms
  <2> QED BY <1>G, <2>1, <2>3
<1> QED BY <1>1, <1>2, <1>3, <1>4, <1>5, <1>6, <1>7 DEF ThreadCall

-----------------------------------------------------------------------------
(* The interrupt handler, which posts to any queue but the token's.         *)
Minded(s) ==
  /\ Sound(s)
  /\ s.threads.status = "ok" =>
       Guarded(s.threads, cont, s.rings) /\ s.threads.next[Sentinel] = Sentinel

LEMMA WokeStirs ==
  ASSUME NEW k \in Sched, NEW r, NEW l \in ThreadList, NEW ret, Woke(k, r, l, ret),
         k.next[Sentinel] = Sentinel, NEW c, NEW t
  PROVE  Stirred(k, r, c, c, t, k.head[l], ret) /\ r.next[Sentinel] = Sentinel
<1>1. ASSUME NEW u \in Thread
      PROVE  /\ Like(r.state[u], IF u = k.head[l] THEN Ready ELSE k.state[u])
             /\ r.r0[u] = IF u = k.head[l] THEN ret ELSE k.r0[u]
  <2>1. r.state[u] = IF u = k.head[l] THEN Ready ELSE k.state[u]
    BY LinkFacts DEF Woke, Sched
  <2>2. r.r0[u] = IF u = k.head[l] THEN ret ELSE k.r0[u]
    BY LinkFacts DEF Woke, Sched
  <2> QED BY <2>1, <2>2 DEF Like
<1>2. \A m \in ThreadList \ {SchedulerQueue} : Sentinel \in Reach(k, m) => Sentinel \in Reach(r, m)
  BY DEF Woke
<1> QED BY <1>1, <1>2 DEF Stirred, Woke

LEMMA EnqueuedMinded ==
  ASSUME NEW s, Minded(s), NEW d \in Device, eventHandlers \in [Device -> EventHandler],
         eventHandlers[d].queue # Token,
         cont \in [Thread -> Continuation], NEW t \in Thread, cont[t].op \notin Inside
  PROVE  Minded(Enqueued(s, d))
<1> DEFINE h == eventHandlers[d]
           q == h.queue
           k == s.threads
           w == Enqueued(s, d)
<1>1. /\ h \in EventHandler /\ s.rings \in [QueueId -> Ring] /\ k \in Sched /\ Sound(s)
  BY DEF Both, Sound, Minded
<1>2. CASE q = NULL \/ Full(s.rings[q])
  <2>1. w = s
    BY <1>2 DEF Enqueued
  <2> QED BY <2>1
<1>3. CASE q # NULL /\ ~ Full(s.rings[q])
  <2> DEFINE y == Appended(s.rings[q], h.msg)
  <2>1. Sound(w)
    BY <1>1, EnqueuedSound
  <2>2. /\ w.rings = [s.rings EXCEPT ![q] = y]
        /\ w.threads = IF k.next[k.head[RecvQ(q)]] # NULL
                       THEN WakeHead(k, RecvQ(q), Success) ELSE k
    BY <1>3 DEF Enqueued, HeadOf
  <2>3. w.rings \in [QueueId -> Ring] /\ q \in QueueId /\ s.rings[q] \in Ring /\ q # Token
    BY <1>1, <1>3, <2>1 DEF Sound, Both, EventHandler
  <2>4. y.size = s.rings[q].size /\ y.used = s.rings[q].used + 1 /\ s.rings[q].size > 0
    BY <1>3, <2>3, SMTT(60) DEF Appended, Stored, Full, Ring
  <2>5. /\ w.rings[q].size = s.rings[q].size /\ w.rings[q].used = s.rings[q].used + 1
        /\ \A p \in QueueId : p # q => w.rings[p] = s.rings[p]
    BY <1>1, <2>2, <2>3, <2>4
  <2>6. SameSizes(s.rings, w.rings)
    BY <2>5 DEF SameSizes
  <2> HIDE DEF y, h
  <2> DEFINE l == RecvQ(q)
  <2>7. l \in ThreadList \ {SchedulerQueue} /\ l \in ThreadList /\ l # SchedulerQueue
        /\ l # SendQ(q) /\ Success \in Returns
    BY <2>3, QueueLists DEF Returns
  <2>8. ASSUME w.threads.status = "ok"
        PROVE  Guarded(w.threads, cont, w.rings) /\ w.threads.next[Sentinel] = Sentinel
    <3>1. k.status = "ok"
      BY <1>1, <2>2, <2>7, <2>8, WakeHeadStatus
    <3>2. /\ Guarded(k, cont, s.rings) /\ k.next[Sentinel] = Sentinel /\ Lists(k) /\ Placed(k)
          /\ Accounts(k, cont)
      BY <3>1 DEF Minded, Sound, Handling
    <3>3. /\ k.head[l] \in Thread => k.head[l] \in Waits(k, Side(cont, l))
          /\ k.head[l] \notin Thread => Waits(k, Side(cont, l)) = {}
          /\ Sentinel \in Reach(k, l) /\ k.next[k.head[l]] = NULL => Waits(k, Side(cont, l)) = {}
      BY <1>1, <2>7, <3>2, HeadWaits
    <3>4. Sentinel \in Reach(k, l)
      BY <2>3, <2>4, <3>2 DEF Guarded, Ended
    <3> DEFINE Stirs(x) ==
                 /\ Stirred(k, w.threads, cont, cont, t, x, Success)
                 /\ x \in Thread => x \in Waits(k, Side(cont, l)) /\ x # t
                 /\ x \notin Thread => Waits(k, Side(cont, l)) = {}
    <3>5. w.threads.next[Sentinel] = Sentinel /\ \E x : Stirs(x)
      <4>1. CASE k.next[k.head[l]] # NULL
        <5>1. w.threads = WakeHead(k, l, Success)
          BY <2>2, <4>1
        <5> HIDE DEF k, w
        <5>2. Woke(k, w.threads, l, Success)
          BY <1>1, <2>7, <2>8, <3>2, <5>1, WakeHeadLists
        <5>3. Stirred(k, w.threads, cont, cont, t, k.head[l], Success)
              /\ w.threads.next[Sentinel] = Sentinel
          BY <1>1, <2>7, <3>2, <5>2, WokeStirs
        <5>4. k.head[l] \in Thread => k.head[l] # t
          BY <3>3 DEF Waits, Side
        <5>5. Stirs(k.head[l])
          BY <3>3, <5>3, <5>4
        <5> QED BY <5>3, <5>5
      <4>2. CASE k.next[k.head[l]] = NULL
        <5>1. w.threads = k
          BY <2>2, <4>2
        <5> HIDE DEF k, w
        <5>2. Stirred(k, w.threads, cont, cont, t, NULL, Success)
          BY <5>1, NothingStirs
        <5>3. Stirs(NULL)
          BY <3>3, <3>4, <4>2, <5>2, LinkFacts
        <5> QED BY <3>2, <5>1, <5>3
      <4> QED BY <4>1, <4>2
    <3>6. PICK x : Stirs(x)
      BY <3>5
    <3> DEFINE a == s.rings[q].used
               b == s.rings[q].size - s.rings[q].used
    <3>7. a \in Int /\ b \in Int /\ w.rings[q].used = a + 1 /\ w.rings[q].size - w.rings[q].used = b - 1
      <4>1. s.rings[q].used \in Nat /\ s.rings[q].size \in Nat
        BY <2>3 DEF Ring
      <4>2. \A m, n \in Nat : m - (n + 1) = (m - n) - 1 /\ m - n \in Int
        OBVIOUS
      <4>3. w.rings[q].used = a + 1 /\ w.rings[q].size = s.rings[q].size
        BY <2>5
      <4> QED BY <4>1, <4>2, <4>3
    <3>8. Fits(k, Side(cont, l), a) /\ Fits(k, Side(cont, SendQ(q)), b)
      BY <2>3, <3>2 DEF Guarded, Balanced
    <3> HIDE DEF a, b, k, w
    <3>9. Fits(w.threads, Side(cont, l), a + 1) /\ Fits(w.threads, Side(cont, SendQ(q)), b - 1)
      BY <2>7, <3>6, <3>7, <3>8, WakeFits
    <3>10. x \in Thread => k.state[x] = Waiting
      BY <3>6 DEF Waits
    <3>11. Fits(w.threads, Side(cont, RecvQ(q)), w.rings[q].used)
           /\ Fits(w.threads, Side(cont, SendQ(q)), w.rings[q].size - w.rings[q].used)
      BY <3>7, <3>9
    <3>12. w.rings \in [QueueId -> Ring] /\ \A p \in QueueId : p # q => w.rings[p] = s.rings[p]
      BY <2>3, <2>5
    <3>13. Guarded(k, cont, s.rings) /\ Stirred(k, w.threads, cont, cont, t, x, Success)
           /\ s.rings \in [QueueId -> Ring] /\ q \in QueueId
      BY <1>1, <2>3, <3>2, <3>6
    <3> HIDE DEF Stirs, l, q
    <3>14. Guarded(w.threads, cont, w.rings)
      BY <2>6, <3>10, <3>11, <3>12, <3>13, StirredGuards
    <3> QED BY <3>5, <3>14
  <2> QED BY <2>1, <2>8 DEF Minded
<1> QED BY <1>2, <1>3

(* The handler starts by making the thread it interrupted ready.            *)
LEMMA PreparedMinded ==
  ASSUME TypeOK, RanNow, GuardedNow, cont[sched.current].op \notin Inside,
         NEW k, k = Push([sched EXCEPT !.state[sched.current] = Ready], SchedulerQueue,
                         sched.current)
  PROVE  Minded([rings |-> mq, threads |-> k])
<1> DEFINE k0 == [sched EXCEPT !.state[sched.current] = Ready]
           S  == SchedulerQueue
           s  == [rings |-> mq, threads |-> k]
<1>1. /\ sched \in Sched /\ Lists(sched) /\ Placed(sched) /\ CurrentRuns(sched)
      /\ sched.next[Sentinel] = Sentinel /\ mq \in [QueueId -> Ring]
      /\ sched.current \in Thread /\ sched.current \in Link /\ KInv(sched, cont, mq)
  BY LinkFacts DEF TypeOK, RanNow, Ran, KInv, Settled, CurrentRuns
<1>2. /\ k0 \in Sched /\ k0.head = sched.head /\ k0.next = sched.next /\ k0.prio = sched.prio
      /\ k0.on = sched.on /\ k0.current = sched.current /\ k0.status = sched.status
      /\ k0.state = [sched.state EXCEPT ![sched.current] = Ready] /\ k0.r0 = sched.r0
  BY <1>1 DEF Sched, States
<1>3. k = Push(k0, S, k0.current) /\ k = Push(k0, S, sched.current)
  BY <1>2
<1> HIDE DEF k0
<1>4. k \in Sched
  BY <1>1, <1>2, <1>3, PushType, ListFacts
<1>5. Sound(s)
  <2>1. k.status = "ok" => Handling(k, mq)
    BY <1>1, PreparedHandling
  <2> QED BY <1>1, <1>4, <2>1 DEF Sound, Both
<1>6. ASSUME k.status = "ok"
      PROVE  Guarded(k, cont, mq) /\ k.next[Sentinel] = Sentinel
  <2>1. MayYield(Ready, S)
    BY DEF MayYield
  <2>2. GivenUp(sched, k0, k, Ready, S)
    BY <1>1, <1>2, <1>3, <1>6, <2>1, GiveUpLists
  <2>3. /\ k.r0 = sched.r0 /\ k.state = [sched.state EXCEPT ![sched.current] = Ready]
        /\ WaitsOn(sched, k, S)
    BY <1>2, <2>2 DEF GivenUp
  <2>4. \A u \in Thread : u # sched.current => k.state[u] = sched.state[u]
    BY <1>1, <2>3, LinkFacts DEF Sched
  <2>5. Calm(sched, k, cont, cont)
    <3>1. \A l \in ThreadList \ {SchedulerQueue} :
            Sentinel \in Reach(sched, l) => Sentinel \in Reach(k, l)
      BY <2>3 DEF WaitsOn
    <3> QED BY <2>3, <2>4, <3>1, SetCalms
  <2>6. Guarded(sched, cont, mq)
    BY DEF GuardedNow
  <2> QED BY <1>1, <2>3, <2>5, <2>6, CalmGuards DEF WaitsOn
<1> QED BY <1>5, <1>6 DEF Minded

LEMMA IrqGuards ==
  ASSUME TypeOK, RanNow, GuardedNow, \A d \in Device : eventHandlers[d].queue # Token,
         IrqHandler, sched'.status = "ok"
  PROVE  GuardedNext
<1> DEFINE raised == irqFlag \cap irqMask
           k  == Push([sched EXCEPT !.state[sched.current] = Ready], SchedulerQueue,
                      sched.current)
           s0 == [ rings |-> mq, threads |-> k ]
<1>1. /\ raised \subseteq Device /\ eventHandlers \in [Device -> EventHandler]
      /\ cont \in [Thread -> Continuation] /\ cont' = cont
  BY DEF TypeOK, IrqHandler
<1>2. sched.current \in Thread /\ cont[sched.current].op \notin Inside
  BY DEF IrqHandler, InUser, IsCurrent, current, Inside
<1>3. ASSUME NEW s, Minded(s), NEW d PROVE Minded(EnqueuedIf(s, d, raised))
  <2>1. CASE d \in raised
    <3>1. d \in Device /\ eventHandlers[d].queue # Token
      BY <1>1, <2>1
    <3> QED BY <1>1, <1>2, <1>3, <2>1, <3>1, EnqueuedMinded DEF EnqueuedIf
  <2> QED BY <1>3, <2>1 DEF EnqueuedIf
<1>4. Minded(s0)
  BY <1>2, PreparedMinded
<1> DEFINE s1 == EnqueuedIf(s0, "TIMER", raised)
           s2 == EnqueuedIf(s1, "OHCI1", raised)
           s3 == EnqueuedIf(s2, "IPC", raised)
           s4 == EnqueuedIf(s3, "SHA1", raised)
           s5 == EnqueuedIf(s4, "AES", raised)
<1>5. mq' = s5.rings /\ sched' = ScheduleYield(s5.threads)
  BY DEF IrqHandler, current
<1> HIDE DEF s0
<1>6. Minded(s1)
  BY <1>3, <1>4
<1> HIDE DEF s1
<1>7. Minded(s2)
  BY <1>3, <1>6
<1> HIDE DEF s2
<1>8. Minded(s3)
  BY <1>3, <1>7
<1> HIDE DEF s3
<1>9. Minded(s4)
  BY <1>3, <1>8
<1> HIDE DEF s4
<1>10. Minded(s5)
  BY <1>3, <1>9
<1> HIDE DEF s5
<1> DEFINE w == s5.threads
<1>11. w \in Sched
  BY <1>10 DEF Minded, Sound, Both
<1>12. w.status = "ok"
  BY <1>5, <1>11, ScheduleYieldStatus
<1>13. Handling(w, mq') /\ Guarded(w, cont, mq')
  BY <1>5, <1>10, <1>12 DEF Minded, Sound
<1>14. sched' = ScheduleYield(w)
  BY <1>5
<1> HIDE DEF w
<1>15. Dispatched(w, sched')
  BY <1>11, <1>13, <1>14, ScheduleYieldLists DEF Handling
<1>16. Calm(w, sched', cont, cont)
  BY <1>15 DEF Dispatched, SameWaits, Calm
<1>17. Guarded(sched', cont, mq')
  BY <1>13, <1>16, CalmGuards
<1> QED BY <1>1, <1>17 DEF GuardedNext

-----------------------------------------------------------------------------
(* The calls of a program and the steps of kernel_main.                     *)

LEMMA UserBack ==
  ASSUME NEW t, InUser(t), NEW l
  PROVE  t \in Thread /\ BackAt(t, l) /\ cont[t].op \notin Inside /\ t = sched.current
BY DEF InUser, IsCurrent, current, BackAt, Inside

LEMMA PutResumesGuards ==
  ASSUME TypeOK, RanNow, GuardedNow, mq' \in [QueueId -> Ring], NEW t \in Thread,
         PutResumes(t), sched'.status = "ok"
  PROVE  GuardedNext
<1>1. PICK op \in {"send", "jam"} :
        /\ Resumes(t, op)
        /\ IF sched.r0[t] # Success
           THEN Return(t) /\ delivered' = NoDelivery
           ELSE PutLoop(t, op, cont[t].queue, cont[t].msg)
  BY DEF PutResumes
<1>2. t = sched.current /\ cont[t].op \in Inside /\ WaitList(cont[t]) = SendQ(cont[t].queue)
  BY <1>1 DEF Resumes, IsCurrent, current, Inside, WaitList
<1>3. cont[t].queue \in QueueId /\ BackAt(t, SendQ(cont[t].queue))
  BY <1>2, ResumedQueue DEF BackAt
<1>4. CASE sched.r0[t] # Success
  BY <1>1, <1>4, ReturnGuards
<1>5. CASE sched.r0[t] = Success
  <2> DEFINE q == cont[t].queue
             x == cont[t].msg
  <2>1. PutLoop(t, op, q, x)
    BY <1>1, <1>5
  <2> HIDE DEF q, x
  <2> QED BY <1>3, <2>1, PutGuards DEF q
<1> QED BY <1>4, <1>5

(* A taker that was woken: ReceiveMessageFromQueue, or IOSC_BEGIN_.         *)
LEMMA TakerGuards ==
  ASSUME TypeOK, RanNow, GuardedNow, mq' \in [QueueId -> Ring], NEW t \in Thread,
         NEW op \in {"recv", "begin"}, Resumes(t, op), NEW q \in QueueId, cont[t].queue = q,
         IF sched.r0[t] # Success THEN Return(t) ELSE TakeLoop(t, op, q), sched'.status = "ok"
  PROVE  GuardedNext
<1>1. BackAt(t, RecvQ(q))
  BY DEF Resumes, IsCurrent, current, WaitList, BackAt
<1>2. CASE sched.r0[t] # Success
  BY <1>2, ReturnGuards
<1>3. CASE sched.r0[t] = Success
  BY <1>1, <1>3, TakeGuards
<1> QED BY <1>2, <1>3

LEMMA MessageCallGuards ==
  ASSUME TypeOK, RanNow, GuardedNow, mq' \in [QueueId -> Ring], NEW t \in Thread,
         MessageCall(t), sched'.status = "ok"
  PROVE  GuardedNext
<1>1. CASE \E n \in 1 .. MaxQueueSize : CreateMessageQueue(t, n)
  BY <1>1, CreateQueueGuards
<1>2. CASE \E q \in QueueId, m \in Msg :
             SendMessage(t, q, m) \/ SendMessageNonblocking(t, q, m) \/ JamMessage(t, q, m)
  <2>1. PICK q \in QueueId, m \in Msg, op \in {"send", "jam"} : InUser(t) /\ PutLoop(t, op, q, m)
    BY <1>2 DEF SendMessage, SendMessageNonblocking, JamMessage, MayCall
  <2>2. BackAt(t, SendQ(q))
    BY <2>1, UserBack
  <2> QED BY <2>1, <2>2, PutGuards
<1>3. CASE \E q \in QueueId : ReceiveMessage(t, q) \/ ReceiveMessageNonblocking(t, q)
  <2>1. PICK q \in QueueId : InUser(t) /\ TakeLoop(t, "recv", q)
    BY <1>3 DEF ReceiveMessage, ReceiveMessageNonblocking, MayCall
  <2>2. BackAt(t, RecvQ(q))
    BY <2>1, UserBack
  <2> QED BY <2>1, <2>2, TakeGuards
<1>4. CASE \E q \in QueueId : DestroyMessageQueue(t, q)
  <2>1. PICK q \in QueueId : InUser(t) /\ DestroyLoop(t, q)
    BY <1>4 DEF DestroyMessageQueue, MayCall
  <2>2. t = sched.current /\ cont[t].op \notin Inside
    BY <2>1, UserBack
  <2> QED BY <2>1, <2>2, DestroyGuards
<1>5. CASE PutResumes(t)
  BY <1>5, PutResumesGuards
<1>6. CASE TakeResumes(t)
  <2>1. /\ Resumes(t, "recv") /\ cont[t].op \in Inside
        /\ IF sched.r0[t] # Success THEN Return(t) ELSE TakeLoop(t, "recv", cont[t].queue)
    BY <1>6 DEF TakeResumes, Resumes, Inside
  <2>2. cont[t].queue \in QueueId
    BY <2>1, ResumedQueue
  <2> QED BY <2>1, <2>2, TakerGuards
<1>7. CASE DestroyResumes(t)
  <2>1. t = sched.current /\ DestroyLoop(t, cont[t].queue) /\ cont[t].op = "destroy"
    BY <1>7 DEF DestroyResumes, Resumes, IsCurrent, current
  <2>2. cont[t].queue \in QueueId /\ cont[t].op \notin Inside
    BY <2>1 DEF TypeOK, Continuation, Inside
  <2> QED BY <2>1, <2>2, DestroyGuards
<1> QED BY <1>1, <1>2, <1>3, <1>4, <1>5, <1>6, <1>7 DEF MessageCall

(* Whoever waits to begin a crypto system call waits for the token.         *)
BeginsAtToken(c) == c.op = "begin" => c.queue = Token

LEMMA BeginsKept ==
  ASSUME TypeOK, \A u \in Thread : BeginsAtToken(cont[u]), NEW t \in Thread, Call(t)
  PROVE  \A u \in Thread : BeginsAtToken(cont'[u])
<1>0. cont \in [Thread -> Continuation]
  BY DEF TypeOK
<1>1. ASSUME NEW u \in Thread, NEW d, BeginsAtToken(d), cont' = [cont EXCEPT ![u] = d]
      PROVE  \A v \in Thread : BeginsAtToken(cont'[v])
  BY <1>0, <1>1
<1>2. /\ BeginsAtToken(User)
      /\ \A op \in {"send", "jam", "recv", "destroy", "join"} : \A q, m, u :
           BeginsAtToken(Cont(op, q, m, u))
      /\ \A m, u : BeginsAtToken(Cont("begin", Token, m, u))
  BY DEF BeginsAtToken, User, Cont
<1>3. CASE cont' = cont
  BY <1>3
<1>4. CASE Return(t)
  BY <1>1, <1>2, <1>4 DEF Return
<1>5. ASSUME NEW op \in {"send", "jam"}, NEW q, NEW m, PutLoop(t, op, q, m)
      PROVE  \A v \in Thread : BeginsAtToken(cont'[v])
  BY <1>1, <1>2, <1>5 DEF PutLoop, WaitOn
<1>6. ASSUME NEW op, NEW q, TakeLoop(t, op, q), op = "recv" \/ (op = "begin" /\ q = Token)
      PROVE  \A v \in Thread : BeginsAtToken(cont'[v])
  BY <1>1, <1>2, <1>6 DEF TakeLoop, WaitOn
<1>7. ASSUME NEW q, DestroyLoop(t, q)
      PROVE  \A v \in Thread : BeginsAtToken(cont'[v])
  BY <1>1, <1>2, <1>7 DEF DestroyLoop
<1>8. CASE ThreadCall(t)
  <2>1. \/ cont' = cont
        \/ \E u \in Thread : cont' = [cont EXCEPT ![u] = User]
        \/ \E u : cont' = [cont EXCEPT ![t] = Cont("join", NULL, NULL, u)]
    BY <1>8 DEF ThreadCall, YieldThread, CreateThread, StartThread, CancelThread, JoinThread,
                SuspendThread, SetThreadPriority
  <2> QED BY <1>1, <1>2, <1>3, <2>1
<1>9. CASE MessageCall(t)
  <2>1. CASE PutResumes(t)
    BY <1>4, <1>5, <2>1 DEF PutResumes
  <2>2. CASE TakeResumes(t)
    BY <1>4, <1>6, <2>2 DEF TakeResumes
  <2>3. CASE \E n \in 1 .. MaxQueueSize : CreateMessageQueue(t, n)
    BY <1>3, <2>3 DEF CreateMessageQueue
  <2>4. CASE \E q \in QueueId, m \in Msg :
               SendMessage(t, q, m) \/ SendMessageNonblocking(t, q, m) \/ JamMessage(t, q, m)
    BY <1>5, <2>4 DEF SendMessage, SendMessageNonblocking, JamMessage
  <2>5. CASE \E q \in QueueId : ReceiveMessage(t, q) \/ ReceiveMessageNonblocking(t, q)
    BY <1>6, <2>5 DEF ReceiveMessage, ReceiveMessageNonblocking
  <2>6. CASE DestroyResumes(t) \/ \E q \in QueueId : DestroyMessageQueue(t, q)
    BY <1>7, <2>6 DEF DestroyResumes, DestroyMessageQueue
  <2> QED BY <1>9, <2>1, <2>2, <2>3, <2>4, <2>5, <2>6 DEF MessageCall
<1>10. CASE EventCall(t)
  BY <1>3, <1>10 DEF EventCall, ClearAndEnableEvent, RegisterEventHandler, UnregisterEventHandler
<1>11. CASE IoscBegin(t) \/ BeginResumes(t)
  BY <1>4, <1>6, <1>11 DEF IoscBegin, BeginResumes, BeginLoop, ReceiveMessageUnsafe
<1>12. CASE IoscEnd(t)
  BY <1>4, <1>5, <1>12 DEF IoscEnd, SendMessageUnsafe
<1> QED BY <1>8, <1>9, <1>10, <1>11, <1>12 DEF Call

LEMMA IoscGuards ==
  ASSUME TypeOK, RanNow, GuardedNow, mq' \in [QueueId -> Ring], NEW t \in Thread,
         BeginsAtToken(cont[t]), IoscBegin(t) \/ IoscEnd(t) \/ BeginResumes(t),
         sched'.status = "ok"
  PROVE  GuardedNext
<1>1. Token \in QueueId
  BY TokenFacts
<1>2. CASE IoscBegin(t)
  <2>1. InUser(t) /\ TakeLoop(t, "begin", Token)
    BY <1>2 DEF IoscBegin, MayCall, BeginLoop, ReceiveMessageUnsafe
  <2>2. BackAt(t, RecvQ(Token))
    BY <2>1, UserBack
  <2> QED BY <1>1, <2>1, <2>2, TakeGuards
<1>3. CASE IoscEnd(t)
  <2>1. BackAt(t, SendQ(Token)) /\ cont[t].op \notin Inside
    BY <1>3, UserBack DEF IoscEnd
  <2>2. CASE Return(t)
    BY <2>1, <2>2, ReturnGuards
  <2>3. CASE PutLoop(t, "send", Token, NULL)
    BY <1>1, <2>1, <2>3, PutGuards
  <2> QED BY <1>3, <2>2, <2>3 DEF IoscEnd, SendMessageUnsafe
<1>4. CASE BeginResumes(t)
  <2>1. Resumes(t, "begin") /\ cont[t].queue = Token
    BY <1>4 DEF BeginResumes, Resumes, BeginsAtToken
  <2>2. IF sched.r0[t] # Success THEN Return(t) ELSE TakeLoop(t, "begin", Token)
    BY <1>4 DEF BeginResumes, BeginLoop, ReceiveMessageUnsafe
  <2> QED BY <1>1, <2>1, <2>2, TakerGuards
<1> QED BY <1>2, <1>3, <1>4

LEMMA CallGuards ==
  ASSUME TypeOK, RanNow, GuardedNow, mq' \in [QueueId -> Ring], Undisturbed, NEW t \in Thread,
         SetsLivePriorities(t), BeginsAtToken(cont[t]), Call(t), sched'.status = "ok"
  PROVE  GuardedNext
<1>1. CASE ThreadCall(t) /\ UNCHANGED mq
  <2>1. InUser(t)
    BY <1>1 DEF ThreadCall, YieldThread, CreateThread, StartThread, CancelThread, JoinThread,
                SuspendThread, SetThreadPriority, MayCall
  <2>2. t = sched.current /\ cont[t].op \notin Inside
    BY <2>1, UserBack
  <2>3. Guarded(sched', cont', mq)
    BY <1>1, <2>2, ThreadCallGuards
  <2> QED BY <1>1, <2>3 DEF GuardedNext
<1>2. CASE MessageCall(t)
  BY <1>2, MessageCallGuards
<1>3. CASE EventCall(t)
  <2>1. UNCHANGED <<sched, cont, mq>>
    BY <1>3 DEF EventCall, ClearAndEnableEvent, RegisterEventHandler, UnregisterEventHandler
  <2> QED BY <2>1 DEF GuardedNow, GuardedNext
<1>4. CASE IoscBegin(t) \/ IoscEnd(t) \/ BeginResumes(t)
  BY <1>4, IoscGuards
<1> QED BY <1>1, <1>2, <1>3, <1>4 DEF Call

LEMMA BootThreadGuards ==
  ASSUME TypeOK, RanNow, GuardedNow, BootThread, sched'.status = "ok"
  PROVE  GuardedNext
<1>1. PICK u \in DOMAIN Programs :
        /\ FreeSlot(sched, u)
        /\ sched' = Started(Created(sched, u, Programs[u].prio, Programs[u].detached,
                                    Programs[u].proc), u)
  BY DEF BootThread
<1>2. /\ u \in Thread /\ sched.state[u] = Unset
      /\ Programs[u].prio \in Nat /\ Programs[u].detached \in BOOLEAN /\ Programs[u].proc \in Nat
  BY <1>1, ProgramsAssumption DEF FreeSlot
<1>3. /\ sched \in Sched /\ cont \in [Thread -> Continuation] /\ mq \in [QueueId -> Ring]
      /\ cont' = cont /\ mq' = mq /\ cont[sched.current].op \notin Inside
      /\ Guarded(sched, cont, mq) /\ Ran(sched, cont, mq)
  BY DEF TypeOK, BootThread, Booting, InUser, IsCurrent, current, Inside, GuardedNow, RanNow
<1>4. cont[u].op \notin Inside
  BY <1>2, <1>3 DEF Guarded, Awake, Unset, Waiting, Ready, Running
<1>5. ASSUME NEW p \in Nat, NEW d \in BOOLEAN, NEW pid \in Nat,
             NEW k, k = Created(sched, u, p, d, pid), sched' = Started(k, u)
      PROVE  Guarded(sched', cont, mq)
  <2>1. k \in Sched /\ Ran(k, cont, mq) /\ k.state[u] = Stopped /\ Made(sched, k, u)
    <3>1. k = Created(sched, u, p, d, pid) /\ p \in Nat /\ d \in BOOLEAN /\ pid \in Nat
          /\ u \in Thread /\ sched.state[u] = Unset
      BY <1>2, <1>5
    <3>2. k \in Sched /\ Ran(k, cont, mq)
      BY <1>3, <3>1, CreateKeeps
    <3>3. k.state[u] = Stopped
      BY <1>3, <3>1, LinkFacts DEF Created, Sched
    <3>4. Settled(sched) /\ Steady(sched)
      BY <1>3 DEF Ran, KInv, Settled, Steady
    <3>5. Made(sched, k, u)
      BY <1>3, <3>1, <3>4, CreatedLists
    <3> QED BY <3>2, <3>3, <3>5
  <2>2. Calm(sched, k, cont, cont)
    <3>1. \A v \in Thread : v # u => k.state[v] = sched.state[v]
      BY <1>3, <2>1, LinkFacts DEF Made, Sched
    <3> QED BY <1>4, <2>1, <3>1, SetCalms DEF Made, SameWaits
  <2>3. Guarded(k, cont, mq) /\ k.current = sched.current
    BY <1>3, <2>1, <2>2, CalmGuards DEF Made
  <2> DEFINE s == IF k.on[u] \in {NULL, SchedulerQueue} THEN Ready ELSE Waiting
             l == IF k.on[u] \in {NULL, SchedulerQueue} THEN SchedulerQueue ELSE k.on[u]
  <2>4. /\ k.on[u] \in {NULL, SchedulerQueue} => s = Ready /\ l = SchedulerQueue
        /\ k.on[u] \notin {NULL, SchedulerQueue} => s = Waiting /\ l = k.on[u]
    OBVIOUS
  <2> HIDE DEF s, l
  <2>5. Settled(k) /\ k.next[Sentinel] = Sentinel /\ Steady(k)
    BY <2>1 DEF Ran, KInv, Settled, Steady
  <2>6. PutBack(k, sched', u, s, l)
    BY <1>2, <1>5, <2>1, <2>4, <2>5, StartedLists
  <2>7. Calm(k, sched', cont, cont)
    BY <1>3, <1>4, <2>3, <2>6, PutBackCalms
  <2> QED BY <2>3, <2>7, CalmGuards
<1> DEFINE k1 == Created(sched, u, Programs[u].prio, Programs[u].detached, Programs[u].proc)
<1>6. k1 = Created(sched, u, Programs[u].prio, Programs[u].detached, Programs[u].proc)
      /\ sched' = Started(k1, u)
  BY <1>1
<1> HIDE DEF k1
<1>7. Guarded(sched', cont, mq)
  BY <1>2, <1>5, <1>6
<1> QED BY <1>3, <1>7 DEF GuardedNext

LEMMA BootLowerGuards ==
  ASSUME TypeOK, RanNow, GuardedNow, BootLower, sched'.status = "ok"
  PROVE  GuardedNext
<1>1. /\ sched' = Reprioritised(sched, KernelThread, 0) /\ cont' = cont /\ mq' = mq
      /\ KernelThread = sched.current /\ cont[sched.current].op \notin Inside
  BY DEF BootLower, Booting, InUser, IsCurrent, current, Inside
<1>2. /\ sched \in Sched /\ Settled(sched) /\ sched.next[Sentinel] = Sentinel
      /\ KernelThread \in Thread /\ sched.state[KernelThread] = Running
      /\ Guarded(sched, cont, mq)
  BY <1>1 DEF TypeOK, RanNow, Ran, KInv, Settled, CurrentRuns, GuardedNow
<1>3. sched.state[KernelThread] \notin {Unset, Dead} /\ 0 \in Nat
  BY <1>2 DEF Unset, Dead, Running
<1>4. Moved(sched, sched', KernelThread)
  BY <1>1, <1>2, <1>3, ReprioritisedLists
<1>5. Calm(sched, sched', cont, cont)
  BY <1>1, <1>4, MovedCalms
<1> QED BY <1>1, <1>2, <1>5, CalmGuards DEF GuardedNext

(* Before kernel_main makes the token's queue there is no queue to wait on. *)
Empty(c, m) == /\ \A q \in QueueId : m[q].size = 0
               /\ \A t \in Thread : c[t].op \notin Inside

LEMMA BootIoscGuards ==
  ASSUME TypeOK, Empty(cont, mq), BootIosc
  PROVE  GuardedNext
<1>1. cont' = cont /\ \A q \in QueueId : q # Token => mq'[q] = mq[q]
  BY DEF TypeOK, BootIosc
<1>2. Ended(sched', mq') /\ Awake(sched', cont')
  BY <1>1 DEF Empty, Ended, Awake
<1>3. \A l : Side(cont', l) = {}
  BY <1>1 DEF Empty, Side
<1>4. Balanced(sched', cont', mq')
  BY <1>3 DEF Balanced, Fits, Waits
<1> QED BY <1>2, <1>4 DEF GuardedNext, Guarded

(* The invariant: once there are queues, nobody waits for what is there.    *)
NInv ==
  /\ IInv
  /\ \A d \in Device : eventHandlers[d].queue # Token
  /\ \A t \in Thread : BeginsAtToken(cont[t])
  /\ Alive => IF boot = "iosc" THEN Empty(cont, mq) ELSE GuardedNow

(* No program registers the token's queue, which is the kernel's: its list  *)
(* of receivers may hold one thread where the interrupt handler finds none. *)
NoTokenHandler ==
  \A t \in Thread, d \in Device, m \in Msg \cup {NULL} : ~ RegisterEventHandler(t, d, Token, m)

LEMMA GuardsInit == Init => NInv
<1> SUFFICES ASSUME Init PROVE NInv
  OBVIOUS
<1>1. \A t \in Thread : cont[t] = User
  BY DEF Init
<1>2. \A d \in Device : eventHandlers[d].queue = NULL
  BY DEF Init, IrqInit
<1>3. boot = "iosc" /\ \A q \in QueueId : mq[q].size = 0
  BY DEF Init
<1>4. Empty(cont, mq)
  BY <1>1, <1>3, UserCode DEF Empty
<1> QED BY <1>1, <1>2, <1>3, <1>4, InvInit, TokenFacts DEF NInv, BeginsAtToken, User, Cont

LEMMA HandlersKept ==
  ASSUME TypeOK, \A d \in Device : eventHandlers[d].queue # Token, NoTokenHandler, Next
  PROVE  \A d \in Device : eventHandlers'[d].queue # Token
<1>0. eventHandlers \in [Device -> EventHandler]
  BY DEF TypeOK
<1>1. CASE UNCHANGED eventHandlers
  BY <1>1
<1>2. ASSUME NEW t \in Thread, EventCall(t)
      PROVE  \A d \in Device : eventHandlers'[d].queue # Token
  <2>1. PICK d \in Device :
          \/ ClearAndEnableEvent(t, d)
          \/ \E q \in QueueId, m \in Msg \cup {NULL} : RegisterEventHandler(t, d, q, m)
          \/ UnregisterEventHandler(t, d)
    BY <1>2 DEF EventCall
  <2>2. CASE ClearAndEnableEvent(t, d)
    BY <1>1, <2>2 DEF ClearAndEnableEvent
  <2>3. CASE UnregisterEventHandler(t, d)
    <3>1. eventHandlers' = [eventHandlers EXCEPT ![d] = [@ EXCEPT !.queue = NULL, !.msg = NULL]]
      BY <2>3 DEF UnregisterEventHandler
    <3>2. eventHandlers'[d].queue = NULL /\ \A x \in Device : x # d => eventHandlers'[x] = eventHandlers[x]
      BY <1>0, <3>1 DEF EventHandler
    <3> QED BY <3>2, TokenFacts
  <2>4. ASSUME NEW q \in QueueId, NEW m \in Msg \cup {NULL}, RegisterEventHandler(t, d, q, m)
        PROVE  \A x \in Device : eventHandlers'[x].queue # Token
    <3>1. q # Token
      BY <2>4 DEF NoTokenHandler
    <3>2. eventHandlers' = [eventHandlers EXCEPT ![d] =
                              [queue |-> q, msg |-> m, proc |-> sched.proc[t]]]
      BY <2>4 DEF RegisterEventHandler
    <3> QED BY <1>0, <3>1, <3>2
  <2> QED BY <2>1, <2>2, <2>3, <2>4
<1>3. \/ UNCHANGED eventHandlers \/ \E t \in Thread : EventCall(t)
  BY DEF Next, KernelMain, BootIosc, BootThread, BootLower, Call, IrqStep, Raise, IrqHandler, irqVars
<1> QED BY <1>1, <1>2, <1>3

LEMMA GuardsStep ==
  ASSUME TypeOK, TypeOK', NInv, Next, BootsFirst, Proper, NoTokenHandler, Undisturbed
  PROVE  NInv'
<1>1. IInv' /\ \A d \in Device : eventHandlers'[d].queue # Token
  BY InvStep, HandlersKept DEF NInv
<1>2. \A t \in Thread : BeginsAtToken(cont'[t])
  <2>1. CASE cont' = cont
    BY <2>1 DEF NInv
  <2>2. CASE \E t \in Thread : Call(t)
    BY <2>2, BeginsKept DEF NInv
  <2> QED BY <2>1, <2>2 DEF Next, KernelMain, BootIosc, BootThread, BootLower, IrqStep, Raise,
                            IrqHandler
<1>3. ASSUME sched'.status = "ok"
      PROVE  IF boot' = "iosc" THEN Empty(cont', mq') ELSE GuardedNext
  <2>0. mq' \in [QueueId -> Ring]
    BY DEF TypeOK
  <2>1. CASE BootIosc
    <3>1. Alive /\ boot = "iosc" /\ boot' = "threads"
      BY <2>1 DEF BootIosc, Booting, InUser, IsCurrent, Alive
    <3> QED BY <2>1, <3>1, BootIoscGuards DEF NInv
  <2>2. CASE BootThread \/ BootLower
    <3>1. Alive /\ boot = "threads" /\ boot' # "iosc"
      BY <2>2 DEF BootThread, BootLower, Booting, InUser, IsCurrent, Alive
    <3>2. RanNow /\ GuardedNow
      BY <3>1 DEF NInv, IInv, Stage, RanNow, Ran
    <3> QED BY <1>3, <2>2, <3>1, <3>2, BootThreadGuards, BootLowerGuards
  <2>3. ASSUME NEW t \in Thread, Call(t)
        PROVE  IF boot' = "iosc" THEN Empty(cont', mq') ELSE GuardedNext
    <3>1. Alive /\ t = sched.current /\ boot' = boot
      BY <2>3, CurrentCalls
    <3>2. KInv(sched, cont, mq) /\ Stage
      BY <3>1 DEF NInv, IInv
    <3>3. boot # "iosc"
      <4>1. SUFFICES ASSUME boot = "iosc" PROVE FALSE
        OBVIOUS
      <4>2. sched.state[t] = Running
        BY <3>1, <3>2 DEF KInv, Settled, CurrentRuns
      <4>3. t = KernelThread
        BY <3>2, <4>1, <4>2 DEF Stage, Running, Unset
      <4> QED BY <2>3, <4>1, <4>3 DEF BootsFirst
    <3>4. RanNow /\ GuardedNow
      BY <3>1, <3>2, <3>3 DEF NInv, Stage, RanNow, Ran
    <3>5. SetsLivePriorities(t) /\ BeginsAtToken(cont[t])
      BY DEF Proper, NInv
    <3>6. GuardedNext
      BY <1>3, <2>0, <2>3, <3>4, <3>5, CallGuards
    <3> QED BY <3>1, <3>3, <3>6
  <2>4. CASE IrqHandler /\ UNCHANGED <<boot, holding>>
    <3>1. Alive /\ boot' = boot /\ cont' = cont
      BY <2>4 DEF IrqHandler, InUser, IsCurrent, Alive
    <3>2. KInv(sched, cont, mq) /\ Stage /\ \A d \in Device : eventHandlers[d].queue # Token
      BY <3>1 DEF NInv, IInv
    <3>3. CASE boot = "iosc"
      <4>1. SameSizes(mq, mq')
        BY <1>3, <2>4, <3>2, IrqHandlerRuns
      <4>2. Empty(cont, mq)
        BY <3>1, <3>3 DEF NInv
      <4>3. Empty(cont', mq')
        BY <3>1, <4>1, <4>2 DEF Empty, SameSizes
      <4> QED BY <3>1, <3>3, <4>3
    <3>4. CASE boot # "iosc"
      <4>1. RanNow /\ GuardedNow
        BY <3>1, <3>2, <3>4 DEF NInv, Stage, RanNow, Ran
      <4>2. GuardedNext
        BY <1>3, <2>4, <3>2, <4>1, IrqGuards
      <4> QED BY <3>1, <3>4, <4>2
    <3> QED BY <3>3, <3>4
  <2>5. CASE (\E d \in Device : Raise(d)) /\ UNCHANGED <<boot, holding>>
    <3>1. UNCHANGED <<sched, cont, mq, boot>> /\ Alive
      BY <2>5 DEF Raise, Alive
    <3> QED BY <3>1 DEF NInv, GuardedNow, GuardedNext
  <2> QED BY <2>1, <2>2, <2>3, <2>4, <2>5 DEF Next, KernelMain, IrqStep
<1> QED BY <1>1, <1>2, <1>3 DEF NInv, Alive, GuardedNow, GuardedNext

LEMMA GuardsStay ==
  TypeOK /\ TypeOK' /\ NInv /\ [Next]_vars
    /\ [BootsFirst /\ Proper /\ NoTokenHandler /\ Undisturbed]_vars => NInv'
<1> SUFFICES ASSUME TypeOK, TypeOK', NInv, [Next]_vars,
                    [BootsFirst /\ Proper /\ NoTokenHandler /\ Undisturbed]_vars
             PROVE  NInv'
  OBVIOUS
<1>1. CASE UNCHANGED vars
  <2>1. UNCHANGED <<sched, cont, mq, eventHandlers, boot>>
    BY <1>1 DEF vars, irqVars
  <2>2. IInv'
    BY <2>1 DEF NInv, IInv, Alive, Stage
  <2> QED BY <2>1, <2>2 DEF NInv, Alive, GuardedNow
<1>2. CASE Next /\ BootsFirst /\ Proper /\ NoTokenHandler /\ Undisturbed
  BY <1>2, GuardsStep
<1> QED BY <1>1, <1>2

LEMMA GuardedWakes == TypeOK /\ NInv => NoMissedWakeup
<1> SUFFICES ASSUME TypeOK, NInv, Alive, NEW q \in QueueId
             PROVE  /\ WaitingIn(InReceive(q)) # {} => mq[q].used <= Woken(InReceive(q))
                    /\ WaitingIn(InSend(q)) # {} => mq[q].size - mq[q].used <= Woken(InSend(q))
  BY DEF NoMissedWakeup
<1>0. cont \in [Thread -> Continuation] /\ mq[q] \in Ring
  BY DEF TypeOK
<1>1. Side(cont, RecvQ(q)) = InReceive(q) /\ Side(cont, SendQ(q)) = InSend(q)
  <2>1. ASSUME NEW u \in Thread, cont[u].op \in Inside
        PROVE  /\ cont[u].queue \in QueueId
               /\ WaitList(cont[u]) = IF cont[u].op \in {"recv", "begin"}
                                      THEN RecvQ(cont[u].queue) ELSE SendQ(cont[u].queue)
    BY <1>0, <2>1 DEF Inside, Continuation, WaitList
  <2>2. \A u \in Thread : u \in Side(cont, RecvQ(q)) <=> u \in InReceive(q)
    BY <2>1, QueueLists DEF Side, Inside, InReceive
  <2>3. \A u \in Thread : u \in Side(cont, SendQ(q)) <=> u \in InSend(q)
    BY <2>1, QueueLists DEF Side, Inside, InSend
  <2> QED BY <2>2, <2>3 DEF Side, InReceive, InSend
<1>2. ASSUME NEW S, S \subseteq Thread, NEW n \in Int, Fits(sched, S, n), WaitingIn(S) # {}
      PROVE  n <= Woken(S)
  <2>1. Waits(sched, S) = WaitingIn(S)
    BY DEF Waits, WaitingIn
  <2>2. n <= Cardinality(Took(sched, S))
    BY <1>2, <2>1 DEF Fits
  <2>3. Took(sched, S) \subseteq S \ WaitingIn(S) /\ S \ WaitingIn(S) \subseteq Thread
    BY <1>2 DEF Took, WaitingIn
  <2>4. /\ Cardinality(Took(sched, S)) <= Cardinality(S \ WaitingIn(S))
        /\ Cardinality(S \ WaitingIn(S)) \in Nat /\ Cardinality(Took(sched, S)) \in Nat
    <3>1. Took(sched, S) \subseteq Thread
      BY <2>3
    <3> QED BY <2>3, <3>1, SomeThreads
  <2> QED BY <2>2, <2>4 DEF Woken
<1>3. CASE boot = "iosc"
  <2>1. InReceive(q) = {} /\ InSend(q) = {}
    BY <1>3 DEF NInv, Empty, Inside, InReceive, InSend
  <2> QED BY <2>1 DEF WaitingIn
<1>4. CASE boot # "iosc"
  <2>1. /\ Fits(sched, InReceive(q), mq[q].used)
        /\ Fits(sched, InSend(q), mq[q].size - mq[q].used)
    BY <1>1, <1>4 DEF NInv, GuardedNow, Guarded, Balanced
  <2>2. mq[q].used \in Int /\ mq[q].size - mq[q].used \in Int
    BY <1>0 DEF Ring
  <2>3. InReceive(q) \subseteq Thread /\ InSend(q) \subseteq Thread
    BY DEF InReceive, InSend
  <2> QED BY <1>2, <2>1, <2>2, <2>3
<1> QED BY <1>3, <1>4

(* No wake up is lost, for any queues, threads and interrupts: as long as   *)
(* no thread suspends or cancels one that waits in a queue call or was just *)
(* woken there, nobody waits for a message, or for room, that no thread was *)
(* woken to take (messageQueue.c, irq.c, IOSC_BEGIN_ in iosc.c).            *)
THEOREM WakeupsAreNotMissed ==
  Spec /\ [][BootsFirst /\ Proper /\ NoTokenHandler /\ Undisturbed]_vars => []NoMissedWakeup
BY TypeInit, TypeStep, GuardsInit, GuardsStay, GuardedWakes, PTL DEF Spec

-----------------------------------------------------------------------------
(* The rings as mailboxes.  In a whole ring the cells that First and Used   *)
(* name are there, and a sent, jammed or taken message changes the sequence *)
(* that is read off them at one end only.                                   *)

Mail == Msg \cup {NULL}
Whole(r) == r.used <= r.size /\ (r.size > 0 => r.first < r.size)

LEMMA WholeRing ==
  ASSUME NEW r \in Ring, Whole(r)
  PROVE  /\ r.used \in Nat /\ r.first \in Nat /\ r.size \in Nat /\ r.size <= MaxQueueSize
         /\ r.heap \in [0 .. MaxQueueSize - 1 -> Mail]
         /\ r.used <= r.size
         /\ r.size > 0 => r.first < r.size
BY MaxQueueSizeAssumption DEF Ring, Whole, Mail

LEMMA ContentsAre ==
  ASSUME NEW r \in Ring, Whole(r)
  PROVE  /\ Contents(r) \in Seq(Mail)
         /\ Len(Contents(r)) = r.used
         /\ \A i \in 1 .. r.used : Contents(r)[i] = r.heap[Wrap(r, r.first + i - 1)]
<1>1. \A i \in 1 .. r.used : Wrap(r, r.first + i - 1) \in 0 .. MaxQueueSize - 1
  BY WholeRing, MaxQueueSizeAssumption DEF Wrap
<1>2. \A i \in 1 .. r.used : r.heap[Wrap(r, r.first + i - 1)] \in Mail
  BY <1>1, WholeRing
<1>3. r.used \in Nat
  BY WholeRing
<1>4. Contents(r) \in [1 .. r.used -> Mail]
  BY <1>2 DEF Contents
<1>5. Contents(r) \in Seq(Mail)
  BY <1>3, <1>4, SeqDef
<1>6. DOMAIN Contents(r) = 1 .. r.used
  BY DEF Contents
<1>7. Len(Contents(r)) = r.used
  BY <1>3, <1>5, <1>6, LenProperties
<1> QED BY <1>5, <1>7 DEF Contents

LEMMA AppendedContents ==
  ASSUME NEW r \in Ring, Whole(r), ~ Full(r), NEW m \in Mail
  PROVE  /\ Appended(r, m) \in Ring /\ Whole(Appended(r, m))
         /\ Contents(Appended(r, m)) = Append(Contents(r), m)
<1> DEFINE x == Appended(r, m)
           c == Wrap(r, r.first + r.used)
<1>1. x \in Ring
  BY RingType DEF Mail
<1>2. r.used < r.size
  BY WholeRing DEF Full
<1>3. c \in 0 .. MaxQueueSize - 1
  BY <1>2, WholeRing, MaxQueueSizeAssumption DEF Wrap
<1>4. /\ x.used = r.used + 1 /\ x.first = r.first /\ x.size = r.size
      /\ x.heap = [r.heap EXCEPT ![c] = m]
  BY DEF Appended, Stored, Ring
<1> HIDE DEF x
<1>5. Whole(x)
  BY <1>2, <1>4, WholeRing DEF Whole
<1>6. \A i \in 1 .. r.used : Wrap(x, x.first + i - 1) # c /\ Wrap(x, x.first + i - 1) = Wrap(r, r.first + i - 1)
  BY <1>2, <1>4, WholeRing DEF Wrap
<1>7. Wrap(x, x.first + (r.used + 1) - 1) = c
  BY <1>4, WholeRing DEF Wrap
<1> HIDE DEF c
<1>8. \A i \in 1 .. r.used : Contents(x)[i] = Contents(r)[i]
  <2>1. \A i \in 1 .. r.used : i \in 1 .. x.used
    BY <1>4, WholeRing
  <2>2. \A i \in 1 .. r.used : Contents(x)[i] = x.heap[Wrap(r, r.first + i - 1)]
    BY <1>1, <1>5, <1>6, <2>1, ContentsAre
  <2>3. \A i \in 1 .. r.used : x.heap[Wrap(r, r.first + i - 1)] = r.heap[Wrap(r, r.first + i - 1)]
    BY <1>4, <1>6, WholeRing
  <2> QED BY <2>2, <2>3, ContentsAre
<1>9. Contents(x)[r.used + 1] = m
  <2>1. r.used + 1 \in 1 .. x.used
    BY <1>4, WholeRing
  <2>2. Contents(x)[r.used + 1] = x.heap[c]
    BY <1>1, <1>5, <1>7, <2>1, ContentsAre
  <2> QED BY <1>3, <1>4, <2>2, WholeRing
<1>10. Contents(x) \in Seq(Mail) /\ Contents(r) \in Seq(Mail) /\ Len(Contents(x)) = r.used + 1 /\ Len(Contents(r)) = r.used
  BY <1>1, <1>4, <1>5, ContentsAre
<1>11. Contents(x) = Append(Contents(r), m)
  <2>1. /\ Append(Contents(r), m) \in Seq(Mail)
        /\ Len(Append(Contents(r), m)) = r.used + 1
        /\ \A i \in 1 .. r.used : Append(Contents(r), m)[i] = Contents(r)[i]
        /\ Append(Contents(r), m)[r.used + 1] = m
    BY <1>10, AppendProperties
  <2>2. \A i \in 1 .. r.used + 1 : Contents(x)[i] = Append(Contents(r), m)[i]
    <3>1. \A i \in 1 .. r.used + 1 : i \in 1 .. r.used \/ i = r.used + 1
      BY WholeRing
    <3> QED BY <1>8, <1>9, <2>1, <3>1
  <2> QED BY <1>10, <2>1, <2>2, SeqEqual
<1> QED BY <1>1, <1>5, <1>11 DEF x

LEMMA JammedContents ==
  ASSUME NEW r \in Ring, Whole(r), ~ Full(r), NEW m \in Mail
  PROVE  /\ Jammed(r, m) \in Ring /\ Whole(Jammed(r, m))
         /\ Contents(Jammed(r, m)) = <<m>> \o Contents(r)
<1> DEFINE x == Jammed(r, m)
           f == IF r.first = 0 THEN r.size - 1 ELSE r.first - 1
           y == [r EXCEPT !.first = f]
<1>1. x \in Ring
  BY RingType DEF Mail
<1>2. r.used < r.size
  BY WholeRing DEF Full
<1>3. f \in 0 .. MaxQueueSize - 1 /\ f \in Nat /\ f < r.size
  BY <1>2, WholeRing, MaxQueueSizeAssumption
<1>4. y.used = r.used /\ y.first = f /\ y.size = r.size /\ y.heap = r.heap /\ y \in Ring
  <2> HIDE DEF f
  <2> QED BY <1>3 DEF Ring
<1>5. /\ x.used = r.used + 1 /\ x.first = f /\ x.size = r.size
      /\ x.heap = [r.heap EXCEPT ![f] = m]
  <2>1. x = Stored(y, f, m)
    BY DEF Jammed
  <2> HIDE DEF x, y, f
  <2> QED BY <1>4, <2>1 DEF Stored, Ring
<1> HIDE DEF x, y
<1>6. Whole(x)
  <2> HIDE DEF f
  <2> QED BY <1>2, <1>3, <1>5, WholeRing DEF Whole
<1>7. \A i \in 1 .. r.used : /\ Wrap(x, x.first + (i + 1) - 1) # f
                             /\ Wrap(x, x.first + (i + 1) - 1) = Wrap(r, r.first + i - 1)
  BY <1>2, <1>5, WholeRing, SMTT(60) DEF Wrap
<1>8. Wrap(x, x.first + 1 - 1) = f
  BY <1>2, <1>5, WholeRing DEF Wrap
<1> HIDE DEF f
<1>9. \A i \in 1 .. r.used : Contents(x)[i + 1] = Contents(r)[i]
  <2>1. \A i \in 1 .. r.used : i + 1 \in 1 .. x.used
    BY <1>5, WholeRing
  <2>2. \A i \in 1 .. r.used : Contents(x)[i + 1] = x.heap[Wrap(r, r.first + i - 1)]
    BY <1>1, <1>6, <1>7, <2>1, ContentsAre
  <2>3. \A i \in 1 .. r.used : x.heap[Wrap(r, r.first + i - 1)] = r.heap[Wrap(r, r.first + i - 1)]
    BY <1>5, <1>7, WholeRing
  <2> QED BY <2>2, <2>3, ContentsAre
<1>10. Contents(x)[1] = m
  <2>1. 1 \in 1 .. x.used
    BY <1>5, WholeRing
  <2>2. Contents(x)[1] = x.heap[f]
    BY <1>1, <1>6, <1>8, <2>1, ContentsAre
  <2> QED BY <1>3, <1>5, <2>2, WholeRing
<1>11. Contents(x) \in Seq(Mail) /\ Contents(r) \in Seq(Mail) /\ Len(Contents(x)) = r.used + 1 /\ Len(Contents(r)) = r.used
  BY <1>1, <1>5, <1>6, ContentsAre
<1>12. Contents(x) = <<m>> \o Contents(r)
  <2>1. /\ <<m>> \in Seq(Mail) /\ Len(<<m>>) = 1 /\ <<m>>[1] = m
    OBVIOUS
  <2>2. /\ <<m>> \o Contents(r) \in Seq(Mail)
        /\ Len(<<m>> \o Contents(r)) = 1 + r.used
        /\ \A i \in 1 .. 1 + r.used : (<<m>> \o Contents(r))[i] =
             IF i <= 1 THEN <<m>>[i] ELSE Contents(r)[i - 1]
    BY <1>11, <2>1, ConcatProperties
  <2>3. \A i \in 1 .. r.used + 1 : Contents(x)[i] = (<<m>> \o Contents(r))[i]
    <3>1. ASSUME NEW i \in 1 .. r.used + 1, i # 1
          PROVE  i - 1 \in 1 .. r.used /\ (i - 1) + 1 = i /\ ~ i <= 1 /\ i \in 1 .. 1 + r.used
      BY <3>1, WholeRing
    <3>2. 1 \in 1 .. 1 + r.used
      BY WholeRing
    <3>3. ASSUME NEW i \in 1 .. r.used + 1, i # 1
          PROVE  Contents(x)[i] = (<<m>> \o Contents(r))[i]
      <4>1. Contents(x)[(i - 1) + 1] = Contents(r)[i - 1]
        BY <1>9, <3>1, <3>3
      <4> QED BY <2>2, <3>1, <3>3, <4>1
    <3>4. Contents(x)[1] = (<<m>> \o Contents(r))[1]
      BY <1>10, <2>1, <2>2, <3>2
    <3> QED BY <3>3, <3>4
  <2>4. Len(<<m>> \o Contents(r)) = r.used + 1
    BY <2>2, WholeRing
  <2> QED BY <1>11, <2>2, <2>3, <2>4, SeqEqual
<1> QED BY <1>1, <1>6, <1>12 DEF x

LEMMA TakenContents ==
  ASSUME NEW r \in Ring, Whole(r), r.used # 0
  PROVE  /\ Taken(r) \in Ring /\ Whole(Taken(r))
         /\ Contents(r) # << >>
         /\ Contents(Taken(r)) = Tail(Contents(r))
         /\ FirstMessage(r) = {Head(Contents(r))}
<1> DEFINE x == Taken(r)
           f == Wrap(r, r.first + 1)
<1>1. x \in Ring
  BY RingType DEF Ring
<1>2. r.used > 0 /\ r.size > 0 /\ r.first < r.size
  BY WholeRing
<1>3. f \in Nat /\ f < r.size
  <2>1. r.first \in Nat /\ r.size \in Nat
    BY WholeRing
  <2>2. \A a, b \in Nat : a < b => (IF b <= a + 1 THEN a + 1 - b ELSE a + 1) \in 0 .. b - 1
    OBVIOUS
  <2> QED BY <1>2, <2>1, <2>2 DEF Wrap
<1>4. x.used = r.used - 1 /\ x.first = f /\ x.size = r.size /\ x.heap = r.heap
  BY DEF Taken, Ring
<1> HIDE DEF x
<1>5. Whole(x)
  <2> HIDE DEF f
  <2> QED BY <1>2, <1>3, <1>4, WholeRing DEF Whole
<1>6. \A i \in 1 .. r.used - 1 : Wrap(x, x.first + i - 1) = Wrap(r, r.first + (i + 1) - 1)
  <2>1. /\ r.first \in Nat /\ r.size \in Nat /\ r.first < r.size
        /\ \A i \in 1 .. r.used - 1 : i \in Nat /\ 1 <= i /\ i < r.size
    BY <1>2, WholeRing
  <2>2. x.first = (IF r.size <= r.first + 1 THEN r.first + 1 - r.size ELSE r.first + 1) /\ x.size = r.size
    BY <1>4, <2>1 DEF Wrap
  <2>3. \A a, b, i \in Nat : a < b /\ 1 <= i /\ i < b =>
          \A g \in Nat : g = (IF b <= a + 1 THEN a + 1 - b ELSE a + 1) =>
            (IF b <= g + i - 1 THEN g + i - 1 - b ELSE g + i - 1)
              = (IF b <= a + (i + 1) - 1 THEN a + (i + 1) - 1 - b ELSE a + (i + 1) - 1)
    OBVIOUS
  <2>4. x.first \in Nat
    BY <1>3, <1>4
  <2> HIDE DEF f
  <2> QED BY <2>1, <2>2, <2>3, <2>4 DEF Wrap
<1>7. Wrap(r, r.first + 1 - 1) = r.first /\ r.first \in DOMAIN r.heap
  <2>1. /\ r.first \in Nat /\ r.size \in Nat /\ r.first < r.size /\ r.size <= MaxQueueSize
        /\ DOMAIN r.heap = 0 .. MaxQueueSize - 1
    BY <1>2, WholeRing
  <2>2. r.first + 1 - 1 = r.first
    BY <2>1
  <2>3. Wrap(r, r.first) = r.first
    BY <2>1 DEF Wrap
  <2> QED BY <2>1, <2>2, <2>3, MaxQueueSizeAssumption
<1> HIDE DEF f
<1>8. Contents(x) \in Seq(Mail) /\ Contents(r) \in Seq(Mail) /\ Len(Contents(x)) = r.used - 1 /\ Len(Contents(r)) = r.used
  BY <1>1, <1>4, <1>5, ContentsAre
<1>9. \A i \in 1 .. r.used - 1 : Contents(x)[i] = Contents(r)[i + 1]
  <2>1. \A i \in 1 .. r.used - 1 : i \in 1 .. x.used /\ i + 1 \in 1 .. r.used
    BY <1>4, WholeRing
  <2>2. \A i \in 1 .. r.used - 1 : Contents(x)[i] = x.heap[Wrap(r, r.first + (i + 1) - 1)]
    BY <1>1, <1>5, <1>6, <2>1, ContentsAre
  <2> QED BY <1>4, <2>1, <2>2, ContentsAre
<1>10. Contents(r) # << >>
  BY <1>2, <1>8, EmptySeq
<1>11. /\ Tail(Contents(r)) \in Seq(Mail)
       /\ Len(Tail(Contents(r))) = r.used - 1
       /\ \A i \in 1 .. r.used - 1 : Tail(Contents(r))[i] = Contents(r)[i + 1]
  BY <1>8, <1>10, HeadTailProperties
<1>12. Contents(x) = Tail(Contents(r))
  BY <1>8, <1>9, <1>11, SeqEqual
<1>13. Head(Contents(r)) = r.heap[r.first]
  <2>1. 1 \in 1 .. r.used
    BY <1>2, WholeRing
  <2>2. Contents(r)[1] = r.heap[r.first]
    BY <1>7, <2>1, ContentsAre
  <2> QED BY <1>8, <1>10, <2>2
<1>14. FirstMessage(r) = {Head(Contents(r))}
  BY <1>7, <1>13 DEF FirstMessage
<1> QED BY <1>1, <1>5, <1>10, <1>12, <1>14 DEF x

LEMMA EmptyContents ==
  ASSUME NEW r \in Ring, r.used = 0
  PROVE  Whole(r) => Contents(r) = << >>
<1>1. ASSUME Whole(r) PROVE Contents(r) \in Seq(Mail) /\ Len(Contents(r)) = 0
  BY <1>1, ContentsAre
<1> QED BY <1>1, EmptySeq

Boxes(m) == [q \in QueueId |-> Contents(m[q])]
RingsAreWhole == \A q \in QueueId : Whole(mq[q])
Promised == RingsAreWhole' /\ Promise!Next

LEMMA NothingHappens ==
  ASSUME RingsAreWhole, mq' = mq, delivered' = NoDelivery
  PROVE  Promised
<1>1. Promise!Nothing
  BY DEF Promise!Nothing
<1> QED BY <1>1 DEF Promised, RingsAreWhole, Promise!Next

LEMMA SentStep ==
  ASSUME mq \in [QueueId -> Ring], RingsAreWhole, delivered' = NoDelivery,
         NEW q \in QueueId, NEW m \in Mail, ~ Full(mq[q]),
         \/ mq' = [mq EXCEPT ![q] = Appended(mq[q], m)]
         \/ mq' = [mq EXCEPT ![q] = Jammed(mq[q], m)]
  PROVE  Promised
<1>1. mq[q] \in Ring /\ Whole(mq[q])
  BY DEF RingsAreWhole
<1>2. Boxes(mq)[q] = Contents(mq[q]) /\ Len(Boxes(mq)[q]) < MaxQueueSize
  <2>1. Len(Contents(mq[q])) = mq[q].used /\ mq[q].used < mq[q].size /\ mq[q].size <= MaxQueueSize
    BY <1>1, ContentsAre, WholeRing DEF Full
  <2> QED BY <1>1, <2>1, WholeRing, MaxQueueSizeAssumption DEF Boxes
<1>3. CASE mq' = [mq EXCEPT ![q] = Appended(mq[q], m)]
  <2>1. Whole(Appended(mq[q], m)) /\ Contents(Appended(mq[q], m)) = Append(Contents(mq[q]), m)
    BY <1>1, AppendedContents
  <2>2. RingsAreWhole'
    BY <1>3, <2>1 DEF RingsAreWhole
  <2>3. Boxes(mq') = [Boxes(mq) EXCEPT ![q] = Append(Boxes(mq)[q], m)]
    BY <1>2, <1>3, <2>1 DEF Boxes
  <2>4. Promise!Sent(q, m)
    BY <1>2, <2>3 DEF Promise!Sent, Boxes
  <2> QED BY <2>2, <2>4 DEF Promised, Promise!Next, Mail
<1>4. CASE mq' = [mq EXCEPT ![q] = Jammed(mq[q], m)]
  <2>1. Whole(Jammed(mq[q], m)) /\ Contents(Jammed(mq[q], m)) = <<m>> \o Contents(mq[q])
    BY <1>1, JammedContents
  <2>2. RingsAreWhole'
    BY <1>4, <2>1 DEF RingsAreWhole
  <2>3. Boxes(mq') = [Boxes(mq) EXCEPT ![q] = <<m>> \o Boxes(mq)[q]]
    BY <1>2, <1>4, <2>1 DEF Boxes
  <2>4. Promise!JammedIn(q, m)
    BY <1>2, <2>3 DEF Promise!JammedIn, Boxes
  <2> QED BY <2>2, <2>4 DEF Promised, Promise!Next, Mail
<1> QED BY <1>3, <1>4

LEMMA ReceivedStep ==
  ASSUME mq \in [QueueId -> Ring], RingsAreWhole, NEW q \in QueueId, mq[q].used # 0,
         NEW m \in FirstMessage(mq[q]), delivered' = [queue |-> q, msg |-> m],
         mq' = [mq EXCEPT ![q] = Taken(mq[q])]
  PROVE  Promised
<1>1. mq[q] \in Ring /\ Whole(mq[q]) /\ Boxes(mq)[q] = Contents(mq[q])
  BY DEF RingsAreWhole, Boxes
<1>2. /\ Whole(Taken(mq[q])) /\ Contents(mq[q]) # << >>
      /\ Contents(Taken(mq[q])) = Tail(Contents(mq[q])) /\ m = Head(Contents(mq[q]))
  BY <1>1, TakenContents
<1>3. RingsAreWhole'
  BY <1>2 DEF RingsAreWhole
<1>4. Boxes(mq') = [Boxes(mq) EXCEPT ![q] = Tail(Boxes(mq)[q])]
  BY <1>1, <1>2 DEF Boxes
<1>5. Promise!Received(q)
  BY <1>1, <1>2, <1>4 DEF Promise!Received, Boxes
<1> QED BY <1>3, <1>5 DEF Promised, Promise!Next

LEMMA OpenedStep ==
  ASSUME mq \in [QueueId -> Ring], RingsAreWhole, delivered' = NoDelivery,
         NEW q \in QueueId, NEW r \in Ring, r.used = 0, Whole(r), mq' = [mq EXCEPT ![q] = r]
  PROVE  Promised
<1>1. Contents(r) = << >>
  BY EmptyContents
<1>2. RingsAreWhole'
  BY DEF RingsAreWhole
<1>3. Boxes(mq') = [Boxes(mq) EXCEPT ![q] = << >>]
  BY <1>1 DEF Boxes
<1>4. Promise!Opened(q)
  BY <1>3 DEF Promise!Opened, Boxes
<1> QED BY <1>2, <1>4 DEF Promised, Promise!Next

LEMMA PutPromises ==
  ASSUME TypeOK, RingsAreWhole, NEW t \in Thread, NEW op \in {"send", "jam"}, NEW q \in QueueId,
         NEW m \in Mail, PutLoop(t, op, q, m)
  PROVE  Promised
<1>1. mq \in [QueueId -> Ring] /\ delivered' = NoDelivery
  BY DEF TypeOK, PutLoop
<1>2. CASE Full(mq[q])
  BY <1>1, <1>2, NothingHappens DEF PutLoop, WaitOn
<1>3. CASE ~ Full(mq[q])
  <2>1. \/ mq' = [mq EXCEPT ![q] = Appended(mq[q], m)]
        \/ mq' = [mq EXCEPT ![q] = Jammed(mq[q], m)]
    BY <1>1, <1>3 DEF PutLoop
  <2> QED BY <1>1, <1>3, <2>1, SentStep
<1> QED BY <1>2, <1>3

LEMMA TakePromises ==
  ASSUME TypeOK, RingsAreWhole, NEW t \in Thread, NEW op, NEW q \in QueueId, TakeLoop(t, op, q)
  PROVE  Promised
<1>1. mq \in [QueueId -> Ring]
  BY DEF TypeOK
<1>2. CASE mq[q].used = 0
  BY <1>1, <1>2, NothingHappens DEF TakeLoop, WaitOn
<1>3. CASE mq[q].used # 0
  <2>1. PICK m \in FirstMessage(mq[q]) : delivered' = [queue |-> q, msg |-> m]
    BY <1>3 DEF TakeLoop
  <2>2. mq' = [mq EXCEPT ![q] = Taken(mq[q])]
    BY <1>1, <1>3 DEF TakeLoop
  <2> QED BY <1>1, <1>3, <2>1, <2>2, ReceivedStep
<1> QED BY <1>2, <1>3

(* A queue is empty when it is destroyed: what it held would stay where the *)
(* arithmetic of a ring without cells no longer finds it.                   *)
Drained == \A q \in QueueId : mq[q].size # 0 /\ mq'[q].size = 0 => mq[q].used = 0

LEMMA DestroyPromises ==
  ASSUME TypeOK, RingsAreWhole, Drained, NEW t \in Thread, NEW q \in QueueId, DestroyLoop(t, q),
         delivered' = NoDelivery
  PROVE  Promised
<1>1. mq \in [QueueId -> Ring] /\ mq[q] \in Ring /\ Whole(mq[q])
  BY DEF TypeOK, RingsAreWhole
<1>2. CASE mq' = mq
  BY <1>2, NothingHappens
<1>3. CASE mq' # mq
  <2> DEFINE r == [mq[q] EXCEPT !.size = 0]
  <2>1. mq' = [mq EXCEPT ![q] = r]
    BY <1>1, <1>3 DEF DestroyLoop
  <2>2. r \in Ring /\ r.size = 0 /\ r.used = mq[q].used
    <3>1. 0 \in 0 .. MaxQueueSize /\ mq[q] \in Ring
      BY <1>1, MaxQueueSizeAssumption
    <3> QED BY <3>1 DEF Ring
  <2>3. mq'[q] = r
    BY <1>1, <2>1
  <2> HIDE DEF r
  <2>4. r.used = 0
    <3>1. CASE mq[q].size = 0
      BY <1>1, <2>2, <3>1, WholeRing
    <3>2. CASE mq[q].size # 0
      BY <2>2, <2>3, <3>2 DEF Drained
    <3> QED BY <3>1, <3>2
  <2>5. Whole(r)
    BY <2>2, <2>4 DEF Whole
  <2> QED BY <1>1, <2>1, <2>2, <2>4, <2>5, OpenedStep
<1> QED BY <1>2, <1>3

LEMMA MessageCallPromises ==
  ASSUME TypeOK, RingsAreWhole, Drained, NEW t \in Thread, MessageCall(t)
  PROVE  Promised
<1>0. mq \in [QueueId -> Ring] /\ cont[t] \in Continuation
  BY DEF TypeOK
<1>1. ASSUME NEW n \in 1 .. MaxQueueSize, CreateMessageQueue(t, n)
      PROVE  Promised
  <2>1. PICK q \in QueueId :
          mq' = [mq EXCEPT ![q] = [mq[q] EXCEPT !.proc = sched.proc[t], !.used = 0,
                                                !.first = 0, !.size = n]]
    BY <1>0, <1>1 DEF CreateMessageQueue
  <2> DEFINE r == [mq[q] EXCEPT !.proc = sched.proc[t], !.used = 0, !.first = 0, !.size = n]
  <2>2. mq[q] \in Ring /\ sched.proc[t] \in Nat /\ n \in 0 .. MaxQueueSize /\ n \in Nat /\ n > 0
    BY MaxQueueSizeAssumption DEF TypeOK, Sched, Link
  <2>3. r \in Ring /\ r.used = 0 /\ r.first = 0 /\ r.size = n
    BY <2>2 DEF Ring
  <2>4. mq' = [mq EXCEPT ![q] = r]
    BY <2>1
  <2> HIDE DEF r
  <2>5. Whole(r)
    BY <2>2, <2>3 DEF Whole
  <2>6. delivered' = NoDelivery
    BY <1>1 DEF CreateMessageQueue
  <2> QED BY <1>0, <2>3, <2>4, <2>5, <2>6, OpenedStep
<1>2. ASSUME NEW q \in QueueId, NEW m \in Msg,
             SendMessage(t, q, m) \/ SendMessageNonblocking(t, q, m) \/ JamMessage(t, q, m)
      PROVE  Promised
  BY <1>2, PutPromises DEF SendMessage, SendMessageNonblocking, JamMessage, Mail
<1>3. ASSUME NEW q \in QueueId, ReceiveMessage(t, q) \/ ReceiveMessageNonblocking(t, q)
      PROVE  Promised
  BY <1>3, TakePromises DEF ReceiveMessage, ReceiveMessageNonblocking
<1>4. ASSUME NEW q \in QueueId, DestroyMessageQueue(t, q)
      PROVE  Promised
  BY <1>4, DestroyPromises DEF DestroyMessageQueue
<1>5. ASSUME Return(t), delivered' = NoDelivery PROVE Promised
  BY <1>5, NothingHappens DEF Return
<1>6. ASSUME PutResumes(t) PROVE Promised
  <2>1. PICK op \in {"send", "jam"} :
          /\ cont[t].op = op
          /\ IF sched.r0[t] # Success
             THEN Return(t) /\ delivered' = NoDelivery
             ELSE PutLoop(t, op, cont[t].queue, cont[t].msg)
    BY <1>6 DEF PutResumes, Resumes
  <2>2. cont[t].queue \in QueueId /\ cont[t].msg \in Mail
    BY <1>0, <2>1 DEF Continuation, Mail
  <2> QED BY <1>5, <2>1, <2>2, PutPromises
<1>7. ASSUME TakeResumes(t) PROVE Promised
  <2>1. cont[t].queue \in QueueId
    BY <1>0, <1>7 DEF Continuation, TakeResumes, Resumes
  <2> QED BY <1>5, <1>7, <2>1, TakePromises DEF TakeResumes
<1>8. ASSUME DestroyResumes(t) PROVE Promised
  <2>1. cont[t].queue \in QueueId
    BY <1>0, <1>8 DEF Continuation, DestroyResumes, Resumes
  <2> QED BY <1>8, <2>1, DestroyPromises DEF DestroyResumes
<1> QED BY <1>1, <1>2, <1>3, <1>4, <1>6, <1>7, <1>8 DEF MessageCall

(* The crypto calls receive and send on the token's queue.                  *)
LEMMA IoscPromises ==
  ASSUME TypeOK, RingsAreWhole, NEW t \in Thread, IoscBegin(t) \/ BeginResumes(t) \/ IoscEnd(t)
  PROVE  Promised
<1>1. NULL \in Mail /\ Token \in QueueId
  BY TokenFacts DEF Mail
<1>2. ASSUME Return(t), delivered' = NoDelivery PROVE Promised
  BY <1>2, NothingHappens DEF Return
<1>3. CASE BeginLoop(t)
  BY <1>1, <1>3, TakePromises DEF BeginLoop, ReceiveMessageUnsafe
<1>4. CASE IoscEnd(t)
  BY <1>1, <1>2, <1>4, PutPromises DEF IoscEnd, SendMessageUnsafe
<1> QED BY <1>2, <1>3, <1>4 DEF IoscBegin, BeginResumes

(* What an interrupt adds to the rings: from[q] are the devices of D whose  *)
(* messages are now at the end of the queue q.                              *)
Grown(m0, m1, from) ==
  \A q \in QueueId :
    /\ Whole(m1[q])
    /\ \A p \in QueueId \ {q} : from[q] \cap from[p] = {}
    /\ Len(Contents(m1[q])) = Len(Contents(m0[q])) + Cardinality(from[q])
    /\ \A i \in 1 .. Len(Contents(m0[q])) : Contents(m1[q])[i] = Contents(m0[q])[i]

PostedBy(m0, m1, D) == \E from \in [QueueId -> SUBSET (D \cap Device)] : Grown(m0, m1, from)

LEMMA DevicesFinite == IsFiniteSet(Device)
<1>1. IsFiniteSet({"TIMER", "OHCI1", "IPC", "SHA1", "AES"})
  <2>1. IsFiniteSet({"TIMER"}) /\ IsFiniteSet({"OHCI1"}) /\ IsFiniteSet({"IPC"})
        /\ IsFiniteSet({"SHA1"}) /\ IsFiniteSet({"AES"})
    BY FS_Singleton
  <2>2. IsFiniteSet({"TIMER"} \cup {"OHCI1"}) /\ IsFiniteSet({"IPC"} \cup {"SHA1"})
    BY <2>1, FS_Union
  <2>3. IsFiniteSet(({"TIMER"} \cup {"OHCI1"}) \cup ({"IPC"} \cup {"SHA1"}))
    BY <2>2, FS_Union
  <2>4. IsFiniteSet((({"TIMER"} \cup {"OHCI1"}) \cup ({"IPC"} \cup {"SHA1"})) \cup {"AES"})
    BY <2>1, <2>3, FS_Union
  <2>5. {"TIMER", "OHCI1", "IPC", "SHA1", "AES"}
          = (({"TIMER"} \cup {"OHCI1"}) \cup ({"IPC"} \cup {"SHA1"})) \cup {"AES"}
    OBVIOUS
  <2> QED BY <2>4, <2>5
<1> QED BY <1>1, FS_Subset, DeviceAssumption

LEMMA MoreGrown ==
  ASSUME NEW m0 \in [QueueId -> Ring], NEW m1 \in [QueueId -> Ring], NEW D, NEW d \in Device,
         d \notin D, \A p \in QueueId : Whole(m0[p]), PostedBy(m0, m1, D),
         NEW q \in QueueId, NEW m \in Mail, ~ Full(m1[q]), NEW m2,
         m2 = [m1 EXCEPT ![q] = Appended(m1[q], m)]
  PROVE  PostedBy(m0, m2, D \cup {d})
<1>1. PICK from \in [QueueId -> SUBSET (D \cap Device)] : Grown(m0, m1, from)
  BY DEF PostedBy
<1> DEFINE new == [from EXCEPT ![q] = from[q] \cup {d}]
<1>2. new \in [QueueId -> SUBSET ((D \cup {d}) \cap Device)]
  OBVIOUS
<1>3. \A p \in QueueId : /\ p # q => new[p] = from[p]
                         /\ d \notin from[p]
  OBVIOUS
<1>4. new[q] = from[q] \cup {d}
  OBVIOUS
<1>5. Cardinality(new[q]) = Cardinality(from[q]) + 1 /\ Cardinality(from[q]) \in Nat
  <2>1. IsFiniteSet(from[q])
    BY DevicesFinite, FS_Subset
  <2> QED BY <1>3, <1>4, <2>1, FS_AddElement, FS_CardinalityType
<1> HIDE DEF new
<1>6. /\ m1[q] \in Ring /\ Whole(m1[q]) /\ m0[q] \in Ring /\ Whole(m0[q])
      /\ m2[q] = Appended(m1[q], m) /\ \A p \in QueueId : p # q => m2[p] = m1[p]
  BY <1>1 DEF Grown
<1>7. /\ Whole(m2[q])
      /\ Contents(m2[q]) = Append(Contents(m1[q]), m)
      /\ Contents(m1[q]) \in Seq(Mail) /\ Len(Contents(m0[q])) \in Nat
  <2>1. m0[q].used \in Nat
    BY <1>6, WholeRing
  <2> QED BY <1>6, <2>1, AppendedContents, ContentsAre
<1>8. /\ Len(Contents(m2[q])) = Len(Contents(m1[q])) + 1
      /\ \A i \in 1 .. Len(Contents(m1[q])) : Contents(m2[q])[i] = Contents(m1[q])[i]
  BY <1>7, AppendProperties, SMTT(60)
<1>9. /\ Len(Contents(m1[q])) = Len(Contents(m0[q])) + Cardinality(from[q])
      /\ \A i \in 1 .. Len(Contents(m0[q])) : Contents(m1[q])[i] = Contents(m0[q])[i]
  BY <1>1 DEF Grown
<1>10. /\ Len(Contents(m2[q])) = Len(Contents(m0[q])) + Cardinality(new[q])
       /\ \A i \in 1 .. Len(Contents(m0[q])) : Contents(m2[q])[i] = Contents(m0[q])[i]
  BY <1>5, <1>7, <1>8, <1>9
<1>11. \A r, p \in QueueId : p # r => new[r] \cap new[p] = {}
  <2>1. \A r, p \in QueueId : p # r => from[r] \cap from[p] = {}
    BY <1>1 DEF Grown
  <2> QED BY <1>3, <1>4, <2>1
<1>12. ASSUME NEW p \in QueueId, p # q
       PROVE  /\ Whole(m2[p])
              /\ Len(Contents(m2[p])) = Len(Contents(m0[p])) + Cardinality(new[p])
              /\ \A i \in 1 .. Len(Contents(m0[p])) : Contents(m2[p])[i] = Contents(m0[p])[i]
  <2>1. m2[p] = m1[p] /\ new[p] = from[p]
    BY <1>3, <1>6, <1>12
  <2> QED BY <1>1, <2>1 DEF Grown
<1>13. Grown(m0, m2, new)
  BY <1>7, <1>10, <1>11, <1>12 DEF Grown
<1> QED BY <1>2, <1>13 DEF PostedBy

LEMMA EnqueuedPosts ==
  ASSUME eventHandlers \in [Device -> EventHandler], NEW raised \in SUBSET Device,
         NEW m0 \in [QueueId -> Ring], \A p \in QueueId : Whole(m0[p]),
         NEW s, s \in Both, NEW d, NEW D, d \notin D, PostedBy(m0, s.rings, D)
  PROVE  /\ EnqueuedIf(s, d, raised) \in Both
         /\ PostedBy(m0, EnqueuedIf(s, d, raised).rings, D \cup {d})
<1> DEFINE r == EnqueuedIf(s, d, raised).rings
           h == eventHandlers[d]
<1>1. EnqueuedIf(s, d, raised) \in Both /\ s.rings \in [QueueId -> Ring]
  BY EnqueuedType DEF EnqueuedIf, Both
<1>2. CASE r = s.rings
  <2>1. PICK from \in [QueueId -> SUBSET (D \cap Device)] : Grown(m0, s.rings, from)
    BY DEF PostedBy
  <2>2. from \in [QueueId -> SUBSET ((D \cup {d}) \cap Device)]
    OBVIOUS
  <2>3. PostedBy(m0, s.rings, D \cup {d})
    BY <2>1, <2>2 DEF PostedBy
  <2> QED BY <1>1, <1>2, <2>3
<1>3. CASE r # s.rings
  <2>1. /\ d \in Device /\ h.queue # NULL /\ ~ Full(s.rings[h.queue])
        /\ r = [s.rings EXCEPT ![h.queue] = Appended(s.rings[h.queue], h.msg)]
    <3>1. d \in raised /\ r = Enqueued(s, d).rings
      BY <1>3 DEF EnqueuedIf
    <3>2. Enqueued(s, d).rings = s.rings
          \/ (h.queue # NULL /\ ~ Full(s.rings[h.queue]) /\
              Enqueued(s, d).rings = [s.rings EXCEPT ![h.queue] = Appended(@, h.msg)])
      BY DEF Enqueued
    <3>3. h.queue # NULL => h.queue \in QueueId
      BY <3>1 DEF EventHandler
    <3> HIDE DEF r, h
    <3> QED BY <1>1, <1>3, <3>1, <3>2, <3>3
  <2>2. h.queue \in QueueId /\ h.msg \in Mail
    BY <2>1 DEF EventHandler, Mail
  <2> HIDE DEF r, h
  <2>3. PostedBy(m0, r, D \cup {d})
    BY <1>1, <2>1, <2>2, MoreGrown
  <2> QED BY <1>1, <2>3 DEF r
<1> QED BY <1>2, <1>3

LEMMA IrqPosts ==
  ASSUME TypeOK, RingsAreWhole, IrqHandler
  PROVE  \E D : PostedBy(mq, mq', D)
<1> DEFINE raised == irqFlag \cap irqMask
           k0 == [sched EXCEPT !.state[current] = Ready]
           s0 == [ rings |-> mq, threads |-> Push(k0, SchedulerQueue, current) ]
           Good(s, D) == s \in Both /\ PostedBy(mq, s.rings, D)
<1>1. /\ raised \subseteq Device /\ eventHandlers \in [Device -> EventHandler]
      /\ mq \in [QueueId -> Ring] /\ \A p \in QueueId : Whole(mq[p])
  BY DEF TypeOK, RingsAreWhole
<1>2. ASSUME NEW s, NEW D, NEW d, d \notin D, Good(s, D)
      PROVE  Good(EnqueuedIf(s, d, raised), D \cup {d})
  <2> HIDE DEF raised
  <2> QED BY <1>1, <1>2, EnqueuedPosts
<1>3. k0 \in Sched /\ current \in Link
  BY DEF TypeOK, Sched, States, current
<1>4. Push(k0, SchedulerQueue, current) \in Sched
  BY <1>3, PushType, ListFacts
<1>5. Good(s0, {})
  <2>1. s0 \in Both /\ s0.rings = mq
    BY <1>1, <1>4 DEF Both
  <2> DEFINE none == [q \in QueueId |-> {}]
  <2>2. none \in [QueueId -> SUBSET ({} \cap Device)]
    OBVIOUS
  <2>3. \A q \in QueueId : Len(Contents(mq[q])) \in Nat
    <3> TAKE q \in QueueId
    <3>1. mq[q] \in Ring /\ Whole(mq[q])
      BY <1>1
    <3> QED BY <3>1, ContentsAre, WholeRing
  <2>4. \A q \in QueueId : none[q] = {} /\ Cardinality(none[q]) = 0
    BY FS_EmptySet
  <2> HIDE DEF none
  <2>5. Grown(mq, mq, none)
    BY <1>1, <2>3, <2>4 DEF Grown
  <2> QED BY <2>1, <2>2, <2>5 DEF PostedBy
<1> DEFINE s1 == EnqueuedIf(s0, "TIMER", raised)
           s2 == EnqueuedIf(s1, "OHCI1", raised)
           s3 == EnqueuedIf(s2, "IPC", raised)
           s4 == EnqueuedIf(s3, "SHA1", raised)
           s5 == EnqueuedIf(s4, "AES", raised)
           D1 == {} \cup {"TIMER"}
           D2 == D1 \cup {"OHCI1"}
           D3 == D2 \cup {"IPC"}
           D4 == D3 \cup {"SHA1"}
           D5 == D4 \cup {"AES"}
<1>6. mq' = s5.rings
  BY DEF IrqHandler
<1>7. "TIMER" \notin {} /\ "OHCI1" \notin D1 /\ "IPC" \notin D2 /\ "SHA1" \notin D3 /\ "AES" \notin D4
  OBVIOUS
<1> HIDE DEF s0, Good, D1, D2, D3, D4, D5
<1>8. Good(s1, D1)
  BY <1>2, <1>5, <1>7 DEF D1
<1> HIDE DEF s1
<1>9. Good(s2, D2)
  BY <1>2, <1>7, <1>8 DEF D2
<1> HIDE DEF s2
<1>10. Good(s3, D3)
  BY <1>2, <1>7, <1>9 DEF D3
<1> HIDE DEF s3
<1>11. Good(s4, D4)
  BY <1>2, <1>7, <1>10 DEF D4
<1> HIDE DEF s4
<1>12. Good(s5, D5)
  BY <1>2, <1>7, <1>11 DEF D5
<1> HIDE DEF s5
<1>13. PostedBy(mq, mq', D5)
  BY <1>6, <1>12 DEF Good
<1> QED BY <1>13

LEMMA SameCardinality == \A S : Promise!Cardinality(S) = Cardinality(S)
BY DEF Promise!Cardinality, Cardinality

LEMMA IrqPromises ==
  ASSUME TypeOK, TypeOK', RingsAreWhole, IrqHandler
  PROVE  Promised
<1>1. PICK D : PostedBy(mq, mq', D)
  BY IrqPosts
<1>2. PICK from \in [QueueId -> SUBSET (D \cap Device)] : Grown(mq, mq', from)
  BY <1>1 DEF PostedBy
<1>3. from \in [QueueId -> SUBSET Device]
  OBVIOUS
<1>4. /\ \A q \in QueueId : mq'[q] \in Ring /\ Whole(mq'[q])
      /\ RingsAreWhole' /\ delivered' = NoDelivery
  BY <1>2 DEF TypeOK, Grown, RingsAreWhole, IrqHandler
<1>5. ASSUME NEW q \in QueueId
      PROVE  /\ Len(Contents(mq'[q])) <= MaxQueueSize
             /\ \A i \in 1 .. Len(Contents(mq'[q])) : Contents(mq'[q])[i] \in Mail
  <2>1. mq'[q] \in Ring /\ Whole(mq'[q])
    BY <1>4
  <2>2. Contents(mq'[q]) \in Seq(Mail) /\ Len(Contents(mq'[q])) = mq'[q].used
    BY <2>1, ContentsAre
  <2>3. mq'[q].used <= mq'[q].size /\ mq'[q].size <= MaxQueueSize /\ mq'[q].size \in Nat /\ mq'[q].used \in Nat
    BY <2>1, WholeRing
  <2>4. Len(Contents(mq'[q])) <= MaxQueueSize
    BY <2>2, <2>3, MaxQueueSizeAssumption
  <2>5. \A i \in 1 .. Len(Contents(mq'[q])) : Contents(mq'[q])[i] \in Mail
    BY <2>2, ElementOfSeq
  <2> QED BY <2>4, <2>5
<1>6. /\ \A q \in QueueId : Boxes(mq)[q] = Contents(mq[q])
      /\ \A q \in QueueId : Boxes(mq')[q] = Contents(mq'[q])
  BY DEF Boxes
<1>7. \A q \in QueueId :
        /\ \A r \in QueueId \ {q} : from[q] \cap from[r] = {}
        /\ Len(Boxes(mq')[q]) = Len(Boxes(mq)[q]) + Cardinality(from[q])
        /\ Len(Boxes(mq')[q]) <= MaxQueueSize
        /\ \A i \in 1 .. Len(Boxes(mq)[q]) : Boxes(mq')[q][i] = Boxes(mq)[q][i]
        /\ \A i \in 1 .. Len(Boxes(mq')[q]) : i > Len(Boxes(mq)[q]) => Boxes(mq')[q][i] \in Mail
  BY <1>2, <1>5, <1>6 DEF Grown
<1>8. Promise!Posted(from)
  BY <1>4, <1>7, SameCardinality DEF Promise!Posted, Boxes, Mail
<1> QED BY <1>3, <1>4, <1>8 DEF Promised, Promise!Next

(* The invariant of the refinement.                                         *)
MInv == RingsAreWhole /\ (boot = "iosc" => IInv)

LEMMA MailInit == Init => MInv /\ Promise!Init
<1> SUFFICES ASSUME Init PROVE MInv /\ Promise!Init
  OBVIOUS
<1>1. /\ mq \in [QueueId -> Ring] /\ \A q \in QueueId : mq[q].size = 0 /\ mq[q].used = 0
      /\ delivered = NoDelivery
  BY TypeInit DEF TypeOK, Init
<1>2. \A q \in QueueId : mq[q] \in Ring /\ Whole(mq[q]) /\ mq[q].used = 0
  BY <1>1 DEF Whole
<1>3. \A q \in QueueId : Contents(mq[q]) = << >>
  BY <1>2, EmptyContents
<1>4. Promise!Init
  BY <1>1, <1>3 DEF Promise!Init
<1> QED BY <1>2, <1>4, InvInit DEF MInv, RingsAreWhole

LEMMA BootPromises ==
  ASSUME TypeOK, MInv, BootIosc
  PROVE  Promised
<1>1. Alive /\ boot = "iosc" /\ delivered' = NoDelivery /\ Token \in QueueId /\ KernelThread \in Thread
  BY TokenFacts DEF BootIosc, Booting, InUser, IsCurrent, Alive
<1>2. mq[Token].size = 0 /\ Whole(mq[Token]) /\ mq[Token] \in Ring /\ mq \in [QueueId -> Ring]
  BY <1>1 DEF MInv, IInv, Stage, RingsAreWhole, TypeOK
<1>3. mq[Token].used = 0 /\ Contents(mq[Token]) = << >>
  BY <1>2, WholeRing, EmptyContents
<1> DEFINE r == [mq[Token] EXCEPT !.proc = sched.proc[KernelThread], !.used = 0,
                                  !.first = 0, !.size = 1]
<1>4. 1 \in 0 .. MaxQueueSize /\ sched.proc[KernelThread] \in Nat
  BY <1>1, MaxQueueSizeAssumption DEF TypeOK, Sched, Link
<1>5. r.used = 0 /\ r.first = 0 /\ r.size = 1 /\ r \in Ring
  BY <1>2, <1>4 DEF Ring
<1>6. mq' = [mq EXCEPT ![Token] = Appended(r, NULL)]
  BY <1>2 DEF BootIosc
<1> HIDE DEF r
<1>7. Whole(r) /\ ~ Full(r) /\ NULL \in Mail
  BY <1>5 DEF Whole, Full, Mail
<1>8. Contents(r) = << >>
  BY <1>5, <1>7, EmptyContents
<1>9. Whole(Appended(r, NULL)) /\ Contents(Appended(r, NULL)) = Append(Contents(r), NULL)
  BY <1>5, <1>7, AppendedContents
<1>10. RingsAreWhole'
  BY <1>2, <1>6, <1>9 DEF MInv, RingsAreWhole
<1>11. Boxes(mq') = [Boxes(mq) EXCEPT ![Token] = Append(Boxes(mq)[Token], NULL)]
  BY <1>1, <1>2, <1>3, <1>6, <1>8, <1>9 DEF Boxes
<1>12. Len(Boxes(mq)[Token]) < MaxQueueSize
  BY <1>1, <1>3, EmptySeq, MaxQueueSizeAssumption DEF Boxes
<1>13. Promise!Sent(Token, NULL)
  BY <1>1, <1>11, <1>12 DEF Promise!Sent, Boxes
<1> QED BY <1>1, <1>7, <1>10, <1>13 DEF Promised, Promise!Next, Mail

LEMMA MailStep ==
  ASSUME TypeOK, TypeOK', MInv, Next, BootsFirst, Drained
  PROVE  MInv' /\ Promise!Next
<1>0. RingsAreWhole
  BY DEF MInv
<1>1. boot' = "iosc" => IInv'
  <2> HAVE boot' = "iosc"
  <2>1. boot = "iosc"
    BY CurrentCalls DEF Next, KernelMain, BootIosc, BootThread, BootLower, Booting, IrqStep
  <2> QED BY <2>1, InvStep DEF MInv
<1>2. CASE BootIosc
  BY <1>1, <1>2, BootPromises DEF Promised, MInv
<1>3. ASSUME mq' = mq, delivered' = NoDelivery PROVE Promised
  BY <1>0, <1>3, NothingHappens
<1>4. CASE BootThread \/ BootLower
  BY <1>1, <1>3, <1>4 DEF BootThread, BootLower, Promised, MInv
<1>5. ASSUME NEW t \in Thread, Call(t) PROVE Promised
  <2>1. CASE ThreadCall(t) /\ delivered' = NoDelivery /\ UNCHANGED <<mq, irqVars, holding>>
    BY <1>3, <2>1
  <2>2. CASE MessageCall(t)
    BY <1>0, <2>2, MessageCallPromises
  <2>3. CASE EventCall(t)
    BY <1>3, <2>3 DEF EventCall, ClearAndEnableEvent, RegisterEventHandler, UnregisterEventHandler
  <2>4. CASE IoscBegin(t) \/ BeginResumes(t) \/ IoscEnd(t)
    BY <1>0, <2>4, IoscPromises
  <2> QED BY <1>5, <2>1, <2>2, <2>3, <2>4 DEF Call
<1>6. ASSUME IrqHandler PROVE Promised
  BY <1>0, <1>6, IrqPromises
<1>7. ASSUME \E d \in Device : Raise(d) PROVE Promised
  BY <1>3, <1>7 DEF Raise
<1> QED BY <1>1, <1>2, <1>4, <1>5, <1>6, <1>7 DEF Next, KernelMain, IrqStep, Promised, MInv

(* The rings are bounded mailboxes, for any number of queues, threads and   *)
(* devices: every message that a send, a jam, an event or the token's       *)
(* return puts in is delivered once, in order, and no other is, whoever is  *)
(* woken, preempted or interrupted in between (messageQueue.c, irq.c).      *)
THEOREM RingsImplementMailboxes ==
  Spec /\ [][BootsFirst /\ Drained]_vars => ImplementsMailbox
<1>1. /\ TypeOK /\ TypeOK' /\ MInv /\ [Next]_vars /\ [BootsFirst /\ Drained]_vars => MInv'
      /\ TypeOK /\ TypeOK' /\ MInv /\ [Next]_vars /\ [BootsFirst /\ Drained]_vars
           => [Promise!Next]_<<[q \in QueueId |-> Contents(mq[q])], delivered>>
  <2> SUFFICES ASSUME TypeOK, TypeOK', MInv, [Next]_vars, [BootsFirst /\ Drained]_vars
               PROVE  MInv' /\ [Promise!Next]_<<[q \in QueueId |-> Contents(mq[q])], delivered>>
    OBVIOUS
  <2>1. CASE UNCHANGED vars
    <3>1. UNCHANGED <<sched, cont, mq, delivered, boot>>
      BY <2>1 DEF vars
    <3>2. IInv => IInv'
      BY <3>1 DEF IInv, Alive, Stage
    <3> QED BY <3>1, <3>2 DEF MInv, RingsAreWhole
  <2>2. CASE Next /\ BootsFirst /\ Drained
    BY <2>2, MailStep
  <2> QED BY <2>1, <2>2
<1> QED BY <1>1, TypeInit, TypeStep, MailInit, PTL DEF Spec, ImplementsMailbox, Promise!Spec
=============================================================================
