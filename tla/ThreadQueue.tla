----------------------------- MODULE ThreadQueue -----------------------------
(***************************************************************************)
(* The scheduler primitives of kernel/source/scheduler/threads.c and       *)
(* threads_asm.s: the singly linked, priority ordered thread lists and the *)
(* context switch.                                                         *)
(*                                                                         *)
(* All of Threads[], SchedulerQueue, the list heads inside MessageQueues[] *)
(* and CurrentThread are fields of one record, and a primitive is an       *)
(* operator from that record to the record it leaves behind.  A list is    *)
(* kept as the C code keeps it, as a head cell and the NextThread fields,  *)
(* because its two terminators (the ThreadStartingState sentinel, and the  *)
(* NULL that popping it leaves in a head) are told apart by some callers   *)
(* and not by others.                                                      *)
(***************************************************************************)
EXTENDS Integers

CONSTANTS
  NumThreads,     \* MAX_THREADS
  NumQueues,      \* MAX_MESSAGEQUEUES
  Sentinel,       \* &ThreadStartingState
  NULL,           \* the null pointer, as a thread, a queue or a message
  LowMemPriority  \* what NULL->Priority reads: the word at 0x4C of MEM1

ASSUME SizesAssumption ==
  /\ NumThreads \in Nat \ {0}
  /\ NumQueues \in Nat \ {0}
ASSUME PointersAssumption ==
  /\ Sentinel \notin Nat
  /\ NULL \notin Nat
  /\ Sentinel # NULL
ASSUME LowMemAssumption == LowMemPriority \in Int

Thread  == 0 .. NumThreads - 1
QueueId == 0 .. NumQueues - 1

(* What a NextThread field or a list head may hold.                        *)
Link == Thread \cup {Sentinel, NULL}

(* The list heads: the scheduler's and the two of every message queue.     *)
SchedulerQueue == <<"sched", 0>>
RecvQ(q) == <<"recv", q>>
SendQ(q) == <<"send", q>>
ThreadList == {SchedulerQueue} \cup {RecvQ(q) : q \in QueueId}
                               \cup {SendQ(q) : q \in QueueId}
ASSUME ListAssumption == NULL \notin ThreadList

Unset == "Unset"  Ready == "Ready"  Running == "Running"
Stopped == "Stopped"  Waiting == "Waiting"  Dead == "Dead"
States == {Unset, Ready, Running, Stopped, Waiting, Dead}

(* Context.Registers[0] as the code after YieldCurrentThread sees it: the  *)
(* value the waker stored, or the list pointer the yield itself saved.     *)
Success == "success"  Interrupted == "EINTR"  ListPointer == "list"
Returns == {Success, Interrupted, ListPointer}

(* "ok" while the CPU runs; otherwise it never leaves the current step: a  *)
(* list walk that does not end ("hung"), a NULL list dereferenced          *)
(* ("fault"), or the sentinel dispatched as if it were a thread ("lost").  *)
Statuses == {"ok", "hung", "fault", "lost"}

Sched ==
  [ head     : [ThreadList -> Link],               \* ThreadQueue.NextThread
    next     : [Link -> Link],                     \* ThreadInfo.NextThread
    prio     : [Link -> Int],                      \* Priority
    initPrio : [Link -> Int],                      \* InitialPriority
    state    : [Link -> States],                   \* ThreadState
    on       : [Link -> ThreadList \cup {NULL}],   \* ThreadInfo.ThreadQueue
    proc     : [Link -> Nat],                      \* ProcessId
    detached : [Link -> BOOLEAN],                  \* IsDetached
    r0       : [Link -> Returns],
    current  : Link,                               \* CurrentThread
    status   : Statuses ]

Stop(k, why) == IF k.status = "ok" THEN [k EXCEPT !.status = why] ELSE k

(***************************************************************************)
(* The entries a loop over the list l looks at when it steps past exactly  *)
(* the entries of C: the least set that holds the first entry and, with an *)
(* entry of C, the one after it.                                           *)
(***************************************************************************)
Walk(k, l, C) ==
  { x \in Link :
      \A X \in SUBSET Link :
        (k.head[l] \in X /\ \A y \in X \cap C : k.next[y] \in X) => x \in X }

(* Store v in the cell the entry x was read from: the head, or a NextThread.*)
Relink(k, l, C, x, v) ==
  IF k.head[l] = x
  THEN [k EXCEPT !.head[l] = v]
  ELSE [k EXCEPT !.next[CHOOSE p \in Walk(k, l, C) \cap C : k.next[p] = x] = v]

(* ThreadQueue_PushThread: in front of the first entry whose priority is   *)
(* not higher, so in front of those of the same priority.                  *)
Passed(k, t) == {x \in Link : k.prio[t] < k.prio[x]}

Push(k, l, t) ==
  IF l = NULL \/ t = NULL THEN k
  ELSE LET found == Walk(k, l, Passed(k, t)) \ Passed(k, t) IN
       IF found = {} THEN Stop(k, "hung")
       ELSE LET x == CHOOSE x \in found : TRUE
            IN  [Relink(k, l, Passed(k, t), x, t) EXCEPT !.on[t] = l, !.next[t] = x]

(* ThreadQueue_PopThread: the popped entry is HeadOf(k, l).                  *)
HeadOf(k, l) == k.head[l]
Pop(k, l)  == [k EXCEPT !.head[l] = k.next[k.head[l]]]

RemoveNothing(k, l, t) == k  \* mutant: the thread stays on the list

(* ThreadQueue_RemoveThread: while (thread), so it ends at t or at NULL.   *)
Remove(k, l, t) ==
  IF l = NULL THEN Stop(k, "fault")
  ELSE LET others == Link \ {t, NULL}
           found  == Walk(k, l, others) \ others
       IN  CASE found = {}    -> Stop(k, "hung")
             [] t \in found   -> Relink(k, l, others, t, k.next[t])
             [] OTHER         -> k

(* ScheduleYield: dispatch the head of the scheduler's list.               *)
ScheduleYield(k) ==
  LET t  == HeadOf(k, SchedulerQueue)
      k1 == [Pop(k, SchedulerQueue) EXCEPT !.current = t, !.state[t] = Running]
  IN  IF t \in Thread THEN k1 ELSE Stop(k1, "lost")

(* YieldCurrentThread: save the context, r0 holding the list pointer, queue *)
(* the caller on l unless l is NULL, and dispatch.                         *)
YieldCurrentThread(k, l) ==
  LET saved == [k EXCEPT !.r0[k.current] = IF l = NULL THEN Success ELSE ListPointer]
  IN  ScheduleYield(Push(saved, l, k.current))

(* The check that ends most calls: give way to a higher priority thread.   *)
Preempt(k) ==
  IF k.prio[k.current] < k.prio[k.head[SchedulerQueue]]
  THEN YieldCurrentThread([k EXCEPT !.state[k.current] = Ready], SchedulerQueue)
  ELSE k

(* Make the head of l ready, with ret as what its wait returns.            *)
WakeHead(k, l, ret) ==
  LET t == HeadOf(k, l)
  IN  Push([Pop(k, l) EXCEPT !.r0[t] = ret, !.state[t] = Ready], SchedulerQueue, t)

UnblockWithoutYield(k, l, ret) == WakeHead(k, l, ret)  \* mutant: no preemption
UnblockThread(k, l, ret) == Preempt(WakeHead(k, l, ret))
=============================================================================
