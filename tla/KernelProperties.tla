--------------------------- MODULE KernelProperties ---------------------------
(***************************************************************************)
(* What the kernel must keep true between any two steps.                   *)
(***************************************************************************)
EXTENDS Kernel, FiniteSets

(* Type correctness of every variable of the kernel.                       *)
TypeOK ==
  /\ sched \in Sched
  /\ cont \in [Thread -> Continuation]
  /\ mq \in [QueueId -> Ring]
  /\ delivered \in [queue : QueueId \cup {NULL}, msg : Msg \cup {NULL}]
  /\ eventHandlers \in [Device -> EventHandler]
  /\ irqFlag \subseteq Device /\ irqMask \subseteq Device
  /\ boot \in {"iosc", "threads", "idle"}
  /\ holding \subseteq Thread

Alive == sched.status = "ok"

-----------------------------------------------------------------------------
(* Strict priorities: whenever a program runs, no thread that could run    *)
(* has a higher priority.  Every call that makes a thread ready, raises or *)
(* lowers a priority must give way, and so must the interrupt handler.     *)
(* The program can tell: no thread it may ask about is ready with a        *)
(* priority above the one that GetThreadPriority(0) tells it.              *)
HighestPriorityRuns ==
  Alive /\ InUser(sched.current) =>
    \A t \in Thread : sched.state[t] = Ready =>
      /\ sched.prio[t] <= sched.prio[sched.current]
      /\ GetThreadPriority(sched.current, t) <= GetThreadPriority(sched.current, 0)

(* A thread that waits in JoinThread is on no list that anybody pops, so it *)
(* is never dispatched again, not even when the thread it joined dies.     *)
JoinersAreStranded ==
  Alive => \A t \in Thread : cont[t].op = "join" /\ sched.state[t] # Unset =>
             /\ sched.state[t] \in {Waiting, Stopped, Dead}
             /\ \A l \in ThreadList : t \notin Walk(sched, l, Thread)

(* The threads of a list, as a walk from its head finds them.              *)
Members(l) == Walk(sched, l, Thread) \cap Thread

(* One thread is Running and it is CurrentThread; the others that could    *)
(* run, and no more, are on the scheduler's list: no path through a yield, *)
(* a wake up, a cancel, a restart or an interrupt dispatches a second      *)
(* thread or the sentinel, loses a thread, leaves it on another list or    *)
(* lets one of lower priority go on.                                       *)
SchedulerAccounted ==
  Alive =>
    /\ {t \in Thread : sched.state[t] = Running} = {sched.current}
    /\ Members(SchedulerQueue) = {t \in Thread : sched.state[t] = Ready}
    /\ HighestPriorityRuns

(* The threads inside a call that waits for a message, or for room, in q.  *)
InReceive(q) == {t \in Thread : cont[t].op \in {"recv", "begin"} /\ cont[t].queue = q}
InSend(q)    == {t \in Thread : cont[t].op \in {"send", "jam"} /\ cont[t].queue = q}
WaitingIn(S) == {t \in S : sched.state[t] = Waiting}

(* The waiters of a queue are exactly the threads on its lists; and every  *)
(* list is in order of priority, so that its head is the next to run or to *)
(* be woken, whatever was pushed, removed and re-prioritised before.       *)
WaitersAreListed ==
  Alive =>
    /\ \A q \in QueueId :
         /\ Members(RecvQ(q)) = WaitingIn(InReceive(q))
         /\ Members(SendQ(q)) = WaitingIn(InSend(q))
    /\ \A l \in ThreadList : \A t \in Members(l) :
         sched.next[t] \in Thread => sched.prio[sched.next[t]] <= sched.prio[t]

(* No lost wake up: while a thread waits to receive, there are no more     *)
(* messages than threads already woken to take them; and while one waits   *)
(* to send, no more room than threads already woken to fill it.            *)
Woken(S) == Cardinality(S \ WaitingIn(S))
NoMissedWakeup ==
  Alive => \A q \in QueueId :
    /\ WaitingIn(InReceive(q)) # {} => mq[q].used <= Woken(InReceive(q))
    /\ WaitingIn(InSend(q)) # {} => mq[q].size - mq[q].used <= Woken(InSend(q))

(* The ring is never read or written outside its cells.                    *)
RingInBounds ==
  \A q \in QueueId : mq[q].size > 0 => mq[q].first < mq[q].size /\ mq[q].used <= mq[q].size

(* The rings implement the bounded sequences of Mailbox: whatever wakes,   *)
(* preempts or interrupts whom in between, a message is delivered once, in *)
(* the order of sends and jams, and none is lost or made up.               *)
Contents(r) == [i \in 1 .. r.used |-> r.heap[Wrap(r, r.first + i - 1)]]
Promise == INSTANCE Mailbox WITH
             box <- [q \in QueueId |-> Contents(mq[q])],
             Capacity <- MaxQueueSize, Payload <- Msg \cup {NULL}, None <- NoDelivery,
             Source <- Device
ImplementsMailbox == Promise!Spec

(* One token: it is in the queue or one thread is inside a crypto call.    *)
TokenIsConserved ==
  boot # "iosc" => mq[Token].used + Cardinality(holding) = 1

-----------------------------------------------------------------------------
(* Events are served: once a timer interrupt is raised while a queue is    *)
(* registered for it, something is received from that queue (the event, or *)
(* the older message whose place it could not have), or the handler goes.  *)
EventServed ==
  \A q \in QueueId :
    ("TIMER" \in irqFlag /\ eventHandlers["TIMER"].queue = q /\ mq[q].size > 0)
      ~> (delivered.queue = q \/ eventHandlers["TIMER"].queue # q)
=============================================================================
