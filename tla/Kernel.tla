-------------------------------- MODULE Kernel --------------------------------
(***************************************************************************)
(* The running kernel: threads, message queues and interrupts composed,    *)
(* with the part of kernel_main (kernel/source/main.c) that brings the     *)
(* system up and the token by which the crypto system calls exclude each   *)
(* other (kernel/source/crypto/iosc.c).                                    *)
(***************************************************************************)
EXTENDS Irq

CONSTANT Programs  \* Programs[i]: priority, process and detachment of the
                   \* i-th thread that kernel_main creates, in slot i
ASSUME ProgramsAssumption ==
  \A i \in DOMAIN Programs :
    /\ i \in Thread \ {0}
    /\ Programs[i] \in [prio : 0 .. 127, proc : Nat, detached : BOOLEAN]

VARIABLES
  boot,     \* where kernel_main is: "iosc", "threads", "idle"
  holding   \* the threads between IOSC_BEGIN_ and IOSC_END_SAFETY_WRAPPER

vars == <<sched, cont, mq, delivered, eventHandlers, irqFlag, irqMask, boot, holding>>

(* _main has started kernel_main, thread 0, at the highest priority; the   *)
(* sentinel and the head of the scheduler's list are as statically         *)
(* initialised, everything else is zero.                                   *)
KernelThread == 0
KernelPriority == 127
Token == 0  \* IOSC_Information.messageQueueId: the first queue created

Init ==
  /\ sched = [ head     |-> [l \in ThreadList |->
                               IF l = SchedulerQueue THEN Sentinel ELSE NULL],
               next     |-> [x \in Link |-> IF x = KernelThread THEN Sentinel ELSE NULL],
               prio     |-> [x \in Link |-> CASE x = KernelThread -> KernelPriority
                                              [] x = Sentinel -> -1
                                              [] x = NULL -> LowMemPriority
                                              [] OTHER -> 0],
               initPrio |-> [x \in Link |-> IF x = KernelThread THEN KernelPriority ELSE 0],
               state    |-> [x \in Link |-> IF x = KernelThread THEN Running ELSE Unset],
               on       |-> [x \in Link |-> IF x = KernelThread THEN SchedulerQueue ELSE NULL],
               proc     |-> [x \in Link |-> 0],
               detached |-> [x \in Link |-> x = KernelThread],
               r0       |-> [x \in Link |-> Success],
               current  |-> KernelThread,
               status   |-> "ok" ]
  /\ cont = [t \in Thread |-> User]
  /\ mq = [q \in QueueId |-> [ proc |-> 0, used |-> 0, first |-> 0, size |-> 0,
                               heap |-> [i \in 0 .. MaxQueueSize - 1 |-> NULL] ]]
  /\ delivered = NoDelivery
  /\ IrqInit
  /\ boot = "iosc"
  /\ holding = {}

Booting(step) == boot = step /\ InUser(KernelThread)

(* IOSC_InitInformation: create the token's queue and put the token in it. *)
(* The send is the first in the system and nobody waits, so it pops the    *)
(* sentinel off the queue's list of receivers.                             *)
BootIosc ==
  /\ Booting("iosc")
  /\ LET k == [sched EXCEPT !.head[RecvQ(Token)] = Sentinel,
                            !.head[SendQ(Token)] = Sentinel]
     IN  sched' = WakeReceiver(k, Token)
  /\ mq' = [mq EXCEPT ![Token] = Appended(
             [@ EXCEPT !.proc = sched.proc[KernelThread], !.used = 0, !.first = 0, !.size = 1], NULL)]
  /\ boot' = "threads"
  /\ delivered' = NoDelivery
  /\ UNCHANGED <<cont, irqVars, holding>>

(* CreateThread, the ProcessId of the module, StartThread.                 *)
BootThread ==
  /\ Booting("threads")
  /\ \E u \in DOMAIN Programs :
       /\ FreeSlot(sched, u)
       /\ sched' = Started(Created(sched, u, Programs[u].prio, Programs[u].detached,
                                   Programs[u].proc), u)
  /\ delivered' = NoDelivery
  /\ UNCHANGED <<cont, mq, irqVars, boot, holding>>

(* SetThreadPriority(0, 0): from here kernel_main runs when nobody else can. *)
BootLower ==
  /\ Booting("threads")
  /\ \A u \in DOMAIN Programs : sched.state[u] # Unset
  /\ sched' = Reprioritised(sched, KernelThread, 0)
  /\ boot' = "idle"
  /\ delivered' = NoDelivery
  /\ UNCHANGED <<cont, mq, irqVars, holding>>

(* The wrapper around a crypto system call takes the token, waiting for it, *)
(* and puts it back.  In between the call can be preempted.  The token's   *)
(* queue belongs to the kernel; the Unsafe calls do not ask whose it is.   *)
(* Sending, as it is used, does not block.                                 *)
ReceiveMessageUnsafe(t, op, q) == TakeLoop(t, op, q)
SendMessageUnsafe(t, q, m) ==
  IF Full(mq[q]) THEN Return(t) /\ delivered' = NoDelivery ELSE PutLoop(t, "send", q, m)

BeginLoop(t) ==
  /\ ReceiveMessageUnsafe(t, "begin", Token)
  /\ holding' = IF mq[Token].used = 0 THEN holding ELSE holding \cup {t}

IoscBegin(t) == MayCall(t, "Iosc") /\ BeginLoop(t)

\* mutant: a thread woken for the token does not look again whether it is there
BeginTrustsWake(t) ==
  /\ Resumes(t, "begin")
  /\ Return(t) /\ delivered' = NoDelivery
  /\ holding' = holding \cup {t}
BeginResumes(t) ==
  /\ Resumes(t, "begin")
  /\ IF sched.r0[t] # Success
     THEN Return(t) /\ delivered' = NoDelivery /\ UNCHANGED holding
     ELSE BeginLoop(t)

IoscEnd(t) ==
  /\ t \in holding /\ InUser(t)
  /\ SendMessageUnsafe(t, Token, NULL)
  /\ holding' = holding \ {t}

KernelMain == BootIosc \/ BootThread \/ BootLower

(* A thread inside a crypto call makes no other.                           *)
Call(t) ==
  \/ /\ t \notin holding
     /\ \/ ThreadCall(t) /\ delivered' = NoDelivery /\ UNCHANGED <<mq, irqVars, holding>>
        \/ MessageCall(t) /\ UNCHANGED <<irqVars, holding>>
        \/ EventCall(t) /\ UNCHANGED holding
        \/ IoscBegin(t) /\ UNCHANGED irqVars
     /\ UNCHANGED boot
  \/ /\ IoscEnd(t) \/ BeginResumes(t)
     /\ UNCHANGED <<irqVars, boot>>

Next ==
  \/ KernelMain
  \/ \E t \in Thread : Call(t)
  \/ IrqStep /\ UNCHANGED <<boot, holding>>

Spec == Init /\ [][Next]_vars

(* Fairness is that of the processor.  An interrupt that is raised and     *)
(* enabled is taken when interrupts are enabled: if not now then the next  *)
(* time (strong fairness).  A thread that has the CPU for good takes its   *)
(* next step (weak fairness).  Both name the state in which the step is    *)
(* due instead of ENABLED; Proceeds asks for less than ENABLED Call(t).    *)
(* Nothing is assumed of the devices, nor of which call a program makes.   *)
InterruptDue == (\E t \in Thread : InUser(t)) /\ irqFlag \cap irqMask # {}
Proceeds(t) ==
  /\ IsCurrent(t)
  /\ \/ cont[t].op \in {"send", "jam", "recv", "begin", "destroy"}
     \/ /\ InUser(t) /\ t \notin holding
        /\ {"SendMessage", "ReceiveMessage"} \cap Calls[t] # {}
        /\ \E q \in QueueId : OwnsQueue(t, q)

Fairness ==
  /\ []<>InterruptDue => []<><<IrqHandler>>_vars
  /\ \A t \in Thread : <>[]Proceeds(t) => []<><<Call(t)>>_vars

FairSpec == Spec /\ Fairness
=============================================================================
