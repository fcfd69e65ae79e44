------------------------------- MODULE Threads -------------------------------
(***************************************************************************)
(* The thread system calls of kernel/source/scheduler/threads.c.           *)
(*                                                                         *)
(* A system call runs with interrupts disabled from DisableInterrupts to   *)
(* RestoreInterrupts, so it is one step up to the point where it gives the *)
(* CPU away inside YieldCurrentThread.  Where code follows that point, it  *)
(* is a step of its own, taken when the thread is dispatched again:        *)
(* cont[t] says which code that is.  While the current thread has such     *)
(* code to run interrupts are disabled, so that step comes next.           *)
(* A call that fails its argument checks changes nothing and has no action.*)
(***************************************************************************)
EXTENDS ThreadQueue

CONSTANTS
  Calls,       \* Calls[t]: the system calls the program of thread t makes
  Priorities,  \* the priorities those programs pass
  Msg          \* the messages those programs pass

ASSUME CallsAssumption == Calls \in [Thread -> SUBSET STRING]
ASSUME PrioritiesAssumption == Priorities \subseteq 0 .. 127
ASSUME MsgAssumption == NULL \notin Msg

VARIABLES
  sched,  \* the thread table, the lists and CurrentThread (ThreadQueue!Sched)
  cont    \* per thread, the code that follows its last YieldCurrentThread

ContOps == {"user", "send", "jam", "recv", "begin", "join", "destroy"}
Continuation ==
  { c \in [ op    : ContOps,
            queue : QueueId \cup {NULL},
            msg   : Msg \cup {NULL},
            tid   : Thread \cup {NULL} ] :
      c.op \notin {"user", "join"} => c.queue \in QueueId }

Cont(op, q, m, t) == [op |-> op, queue |-> q, msg |-> m, tid |-> t]
User == Cont("user", NULL, NULL, NULL)

current == sched.current
IsCurrent(t) == sched.status = "ok" /\ t \in Thread /\ t = current

(* The current thread runs its own code, with interrupts enabled.          *)
InUser(t) == IsCurrent(t) /\ cont[t].op = "user"
MayCall(t, call) == InUser(t) /\ call \in Calls[t]

(* The current thread is back from a yield inside the kernel.              *)
Resumes(t, op) == IsCurrent(t) /\ cont[t].op = op

(* threadId 0 names the caller; a process other than 0 reaches only its own. *)
Target(t, id) == IF id = 0 THEN t ELSE id
Owns(t, u) == sched.proc[t] = 0 \/ sched.proc[u] = sched.proc[t]

-----------------------------------------------------------------------------
YieldThread(t) ==
  /\ MayCall(t, "YieldThread")
  /\ sched' = YieldCurrentThread([sched EXCEPT !.state[t] = Ready], SchedulerQueue)
  /\ UNCHANGED cont

(* The slot is the first unset one.  JoinQueue is set to NULL here and     *)
(* nowhere to anything else, so it is not a field of the model.            *)
FreeSlot(k, u) == k.state[u] = Unset /\ \A v \in Thread : k.state[v] = Unset => u <= v

Created(k, u, p, detached, pid) ==
  [k EXCEPT !.proc[u] = pid, !.state[u] = Stopped, !.prio[u] = p,
            !.initPrio[u] = p, !.next[u] = NULL, !.on[u] = NULL,
            !.detached[u] = detached]

CreateThread(t, p, detached) ==
  /\ MayCall(t, "CreateThread")
  /\ p <= sched.initPrio[t]
  /\ \E u \in Thread :
       /\ FreeSlot(sched, u)
       /\ sched' = Created(sched, u, p, detached, sched.proc[t])
       /\ cont' = [cont EXCEPT ![u] = User]

(* A stopped thread goes back to the list it was last put on.              *)
Started(k, u) ==
  Preempt(IF k.on[u] \in {NULL, SchedulerQueue}
          THEN Push([k EXCEPT !.state[u] = Ready], SchedulerQueue, u)
          ELSE Push([k EXCEPT !.state[u] = Waiting], k.on[u], u))

StartThread(t, id) ==
  LET u == Target(t, id) IN
  /\ MayCall(t, "StartThread")
  /\ Owns(t, u)
  /\ sched.state[u] = Stopped
  /\ sched' = Started(sched, u)
  /\ UNCHANGED cont

(* Only the scheduler's list is searched for the cancelled thread.         *)
CancelThread(t, id) ==
  LET u  == Target(t, id)
      k1 == IF sched.state[u] = Stopped THEN sched
            ELSE Remove(sched, SchedulerQueue, u)
      k2 == [k1 EXCEPT !.state[u] = IF k1.detached[u] THEN Unset ELSE Dead,
                       !.r0[t] = Success]
  IN
  /\ MayCall(t, "CancelThread")
  /\ Owns(t, u)
  /\ sched' = IF u = t THEN ScheduleYield(k2) ELSE Preempt(k2)
  /\ UNCHANGED cont

\* mutant: a joiner waits on the scheduler's list
JoinOnScheduler(t, id) ==
  LET u == Target(t, id) IN
  /\ MayCall(t, "JoinThread") /\ Owns(t, u)
  /\ u # t /\ ~ sched.detached[u] /\ sched.state[u] # Dead
  /\ sched' = YieldCurrentThread([sched EXCEPT !.state[t] = Waiting], SchedulerQueue)
  /\ cont' = [cont EXCEPT ![t] = Cont("join", NULL, NULL, u)]

(* JoinQueue is NULL, so a joiner of a live thread waits on no list, and   *)
(* CancelThread finds nobody to wake.  The code after the yield, which     *)
(* would free the slot of the dead thread, is therefore never reached and  *)
(* has no action; KernelProperties!JoinersAreStranded checks that.         *)
JoinThread(t, id) ==
  LET u == Target(t, id) IN
  /\ MayCall(t, "JoinThread")
  /\ Owns(t, u)
  /\ u # t /\ ~ sched.detached[u]
  /\ IF sched.state[u] # Dead
     THEN /\ sched' = YieldCurrentThread([sched EXCEPT !.state[t] = Waiting], NULL)
          /\ cont' = [cont EXCEPT ![t] = Cont("join", NULL, NULL, u)]
     ELSE /\ sched' = [sched EXCEPT !.state[u] = Unset]
          /\ UNCHANGED cont

SuspendThread(t, id) ==
  LET u == Target(t, id) IN
  /\ MayCall(t, "SuspendThread")
  /\ Owns(t, u)
  /\ \/ /\ sched.state[u] = Running
        /\ sched' = YieldCurrentThread([sched EXCEPT !.state[u] = Stopped], NULL)
     \/ /\ sched.state[u] \in {Ready, Waiting}
        /\ sched' = Remove([sched EXCEPT !.state[u] = Stopped], sched.on[u], u)
  /\ UNCHANGED cont

\* mutant: a waiter whose priority changes moves to the scheduler's list
ReprioritisedOnScheduler(k, u, p) ==
  LET k1 == [k EXCEPT !.prio[u] = p] IN
  Preempt(IF u # k.current /\ k.state[u] # Stopped
          THEN Push(Remove(k1, k.on[u], u), SchedulerQueue, u)
          ELSE k1)
Reprioritised(k, u, p) ==
  LET k1 == [k EXCEPT !.prio[u] = p] IN
  Preempt(IF u # k.current /\ k.state[u] # Stopped
          THEN Push(Remove(k1, k.on[u], u), k.on[u], u)
          ELSE k1)

SetThreadPriority(t, id, p) ==
  LET u == Target(t, id) IN
  /\ MayCall(t, "SetThreadPriority")
  /\ Owns(t, u)
  /\ p <= sched.initPrio[u]
  /\ p # sched.prio[u]
  /\ sched' = Reprioritised(sched, u, p)
  /\ UNCHANGED cont

(* What a program is told of a thread: -4 is IPC_EINVAL.                   *)
GetThreadPriority(t, id) ==
  IF Owns(t, Target(t, id)) THEN sched.prio[Target(t, id)] ELSE -4

ThreadCall(t) ==
  \/ YieldThread(t)
  \/ \E p \in Priorities, d \in BOOLEAN : CreateThread(t, p, d)
  \/ \E id \in Thread : \/ StartThread(t, id)
                        \/ CancelThread(t, id)
                        \/ JoinThread(t, id)
                        \/ SuspendThread(t, id)
                        \/ \E p \in Priorities : SetThreadPriority(t, id, p)
=============================================================================
