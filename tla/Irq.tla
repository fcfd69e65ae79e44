--------------------------------- MODULE Irq ---------------------------------
(***************************************************************************)
(* Interrupts and event handlers, kernel/source/interrupt/irq.c: a device  *)
(* interrupt preempts whatever runs with interrupts enabled and is turned  *)
(* into a message on the queue registered for the device.                  *)
(***************************************************************************)
EXTENDS MessageQueue

CONSTANT Device  \* the event devices of the instance
ASSUME DeviceAssumption == Device \subseteq {"TIMER", "OHCI1", "IPC", "SHA1", "AES"}

VARIABLES
  eventHandlers,  \* eventHandlers[]
  irqFlag,        \* HW_ARMIRQFLAG: the raised interrupts
  irqMask         \* HW_ARMIRQMASK: the enabled ones

irqVars == <<eventHandlers, irqFlag, irqMask>>

EventHandler == [queue : QueueId \cup {NULL}, msg : Msg \cup {NULL}, proc : Nat]

(* Masked by their own handling, until ClearAndEnableEvent is called by    *)
(* the process that owns the device.                                       *)
SelfMasking == {"OHCI1", "IPC"}
DeviceOwner(d) == IF d = "OHCI1" THEN 5 ELSE 0

(* IrqInit enables the timer and the two crypto engines.                   *)
IrqInit ==
  /\ eventHandlers = [d \in Device |-> [queue |-> NULL, msg |-> NULL, proc |-> 0]]
  /\ irqFlag = {}
  /\ irqMask = Device \ SelfMasking

(* The device raises its interrupt.                                        *)
Raise(d) ==
  /\ sched.status = "ok"
  /\ d \notin irqFlag
  /\ irqFlag' = irqFlag \cup {d}
  /\ delivered' = NoDelivery
  /\ UNCHANGED <<sched, cont, mq, eventHandlers, irqMask>>

(* ClearAndEnableEvent acknowledges what was raised meanwhile, unhandled.  *)
ClearAndEnableEvent(t, d) ==
  /\ MayCall(t, "ClearAndEnableEvent")
  /\ d \in SelfMasking /\ sched.proc[t] = DeviceOwner(d)
  /\ irqFlag' = irqFlag \ {d}
  /\ irqMask' = irqMask \cup {d}
  /\ delivered' = NoDelivery
  /\ UNCHANGED <<sched, cont, mq, eventHandlers>>

RegisterEventHandler(t, d, q, m) ==
  /\ MayCall(t, "RegisterEventHandler")
  /\ OwnsQueue(t, q)
  /\ eventHandlers' = [eventHandlers EXCEPT ![d] =
                         [queue |-> q, msg |-> m, proc |-> sched.proc[t]]]
  /\ delivered' = NoDelivery
  /\ UNCHANGED <<sched, cont, mq, irqFlag, irqMask>>

UnregisterEventHandler(t, d) ==
  /\ MayCall(t, "UnregisterEventHandler")
  /\ eventHandlers[d].proc = sched.proc[t]
  /\ eventHandlers' = [eventHandlers EXCEPT ![d].queue = NULL, ![d].msg = NULL]
  /\ delivered' = NoDelivery
  /\ UNCHANGED <<sched, cont, mq, irqFlag, irqMask>>

\* mutant: the message is left without waking its receiver
EnqueuedSilently(s, d) ==
  LET h == eventHandlers[d] IN
  IF h.queue = NULL THEN s
  ELSE IF Full(s.rings[h.queue]) THEN s
  ELSE [s EXCEPT !.rings[h.queue] = Appended(@, h.msg)]

(* The lists and rings after EnqueueEventHandler(d): nothing when no queue *)
(* is registered or it is full, otherwise the message is appended and the  *)
(* first receiver made ready, looking one entry past the head as           *)
(* ReceiveMessageFromQueue does and as SendMessageToQueue does not.        *)
Enqueued(s, d) ==
  LET h == eventHandlers[d]
      q == h.queue
  IN  IF q = NULL THEN s
      ELSE IF Full(s.rings[q]) THEN s
      ELSE [ rings   |-> [s.rings EXCEPT ![q] = Appended(@, h.msg)],
             threads |-> IF s.threads.next[HeadOf(s.threads, RecvQ(q))] # NULL
                         THEN WakeHead(s.threads, RecvQ(q), Success)
                         ELSE s.threads ]

EnqueuedIf(s, d, raised) == IF d \in raised THEN Enqueued(s, d) ELSE s

(* IrqHandler: the interrupted thread becomes ready, every interrupt that  *)
(* is raised and enabled is acknowledged and handled, and the head of the  *)
(* scheduler's list is dispatched.  With none of Device raised it stands   *)
(* for the interrupts that send no message (NAND, GPIO, reset).            *)
IrqHandler ==
  /\ \E t \in Thread : InUser(t)
  /\ LET raised == irqFlag \cap irqMask
         s0 == [ rings   |-> mq,
                 threads |-> Push([sched EXCEPT !.state[current] = Ready],
                                  SchedulerQueue, current) ]
         s1 == EnqueuedIf(s0, "TIMER", raised)
         s2 == EnqueuedIf(s1, "OHCI1", raised)
         s3 == EnqueuedIf(s2, "IPC", raised)
         s4 == EnqueuedIf(s3, "SHA1", raised)
         s5 == EnqueuedIf(s4, "AES", raised)
     IN  /\ mq' = s5.rings
         /\ sched' = ScheduleYield(s5.threads)
         /\ irqFlag' = irqFlag \ raised
         /\ irqMask' = irqMask \ (SelfMasking \cap raised)
  /\ delivered' = NoDelivery
  /\ UNCHANGED <<cont, eventHandlers>>

IrqStep ==
  \/ \E d \in Device : Raise(d)
  \/ IrqHandler

EventCall(t) ==
  \E d \in Device :
    \/ ClearAndEnableEvent(t, d)
    \/ \E q \in QueueId, m \in Msg \cup {NULL} : RegisterEventHandler(t, d, q, m)
    \/ UnregisterEventHandler(t, d)
=============================================================================
