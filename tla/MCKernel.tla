------------------------------- MODULE MCKernel -------------------------------
(***************************************************************************)
(* Small instances of the kernel for model checking: which threads there   *)
(* are and which calls the program of each makes.                          *)
(***************************************************************************)
EXTENDS KernelProperties, TLC
CONSTANT m1
OneMsg == {m1}

Prog(p, pid) == [prio |-> p, proc |-> pid, detached |-> FALSE]
NoPriorities == {}

(* Threads that exchange messages, make crypto calls and move one another  *)
(* up and down, the first of them also woken by the timer.                 *)
MailPrograms == 1 :> Prog(70, 1) @@ 2 :> Prog(60, 1) @@ 3 :> Prog(50, 1)
MailCalls == [t \in Thread |->
  CASE t = 1 -> {"CreateMessageQueue", "RegisterEventHandler", "ReceiveMessage"}
    [] t = 2 -> {"SendMessage", "ReceiveMessage", "Iosc"}
    [] t = 3 -> {"JamMessage", "ReceiveMessageNonblocking", "Iosc", "SetThreadPriority"}
    [] OTHER -> {}]
MailDevices == {"TIMER"}
MailPriorities == {40}

(* A process 0 thread that creates, starts, suspends, cancels and joins the *)
(* others; one of them waits on a queue and gets destroyed under it.        *)
LifePrograms == 1 :> Prog(60, 0) @@ 2 :> Prog(50, 1)
LifeCalls == [t \in Thread |->
  CASE t = 1 -> {"CreateThread", "StartThread", "SuspendThread", "JoinThread",
                 "CancelThread", "DestroyMessageQueue"}
    [] t = 2 -> {"CreateMessageQueue", "ReceiveMessage", "SuspendThread", "YieldThread"}
    [] t = 3 -> {"YieldThread", "StartThread"}
    [] OTHER -> {}]
LifePriorities == {40}
NoDevices == {}
(* The event loop of the OHCI module, process 5, and the thread that sets  *)
(* it up and competes with it for the room in its queue.                   *)
EventPrograms == 1 :> Prog(70, 5) @@ 2 :> Prog(60, 5)
EventCalls == [t \in Thread |->
  CASE t = 1 -> {"CreateMessageQueue", "ReceiveMessage"}
    [] t = 2 -> {"RegisterEventHandler", "UnregisterEventHandler",
                 "ClearAndEnableEvent", "SendMessage", "SendMessageNonblocking"}
    [] OTHER -> {}]
EventDevices == {"TIMER", "OHCI1"}
=============================================================================
