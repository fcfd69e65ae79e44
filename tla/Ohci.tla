---------------------------------- MODULE Ohci ----------------------------------
(***************************************************************************)
(* The two threads of the OHCI module, modules/oh1/source.  main starts up *)
(* and then serves the messages of the device queue: requests of clients   *)
(* and the worker's reports that the root hub changed.  The worker, of the *)
(* higher priority, serves the controller's interrupt.                     *)
(* No descriptor is ever had: they are asked for with alignment 0x10       *)
(* (memory.c:52, 81), which the kernel's heaps refuse (heaps.c:111).  So   *)
(* nothing is transferred: a device found at start-up ends the module,     *)
(* messages to a device fail, the controller has nothing to write back,    *)
(* and the worker never sleeps.  A step of main ends where it blocks or    *)
(* where a change of the hub may come between.                             *)
(***************************************************************************)
EXTENDS Naturals, Sequences, FiniteSets, SequencesExt

CONSTANTS
  Request,   \* messages of clients; what one asks for is told when main takes it
  Ports,     \* NumberOfDownstreamPorts
  Slots,     \* MAX_USB_DEVICES, also the length of the device queue
  Attempts,  \* how often ResetDevice looks
  MaxEvents, \* bound: how often the hub or the controller raise an interrupt
  NULL

Port == 1..Ports
StatusChange == "cafef00d"  \* _statusChangeMessage

ASSUME PortsAssumption == Ports \in Nat
ASSUME AttemptsAssumption == Attempts \in Nat
ASSUME SlotsAssumption == Slots \in Nat \ {0}
ASSUME RequestAssumption == StatusChange \notin Request /\ NULL \notin Request

VARIABLES
  main,    \* where main is, what comes after a sleep, and its locals
  worker,  \* where the worker is, and what it read of InterruptStatus
  queue,   \* the device queue
  hub,     \* RootHubPortStatus; a change is fresh until main looks at it
  hc,      \* InterruptStatus, and whether RHSC is masked
  req,     \* what became of a request
  hook,    \* Devices[0].IpcMessage
  opened,  \* a client has the handle of /dev/usb/oh1/0/0, the hub's own slot
  serving  \* module->State has both its bits

vars == <<main, worker, queue, hub, hc, req, hook, opened, serving>>

Init ==
  /\ main = [at |-> "start", then |-> "start", port |-> 1, tries |-> 0, found |-> 0, req |-> NULL]
  /\ worker = [at |-> "off", change |-> FALSE, other |-> FALSE]
  /\ queue = << >>
  /\ \E there \in [Port -> BOOLEAN] :
       hub = [p \in Port |-> [ connected |-> there[p], csc |-> there[p], prsc |-> FALSE,
                               reset |-> FALSE, fresh |-> FALSE ]]
  /\ hc = [rhsc |-> FALSE, other |-> FALSE, masked |-> FALSE, events |-> 0]
  /\ req = [r \in Request |-> "idle"]
  /\ hook = NULL /\ opened = FALSE /\ serving = FALSE

-----------------------------------------------------------------------------
(* What the module asks of its heap for the controller, and what fails     *)
(* without it.                                                             *)
MallocateOnHeap(alignment) == alignment >= 32
AllocateTransferDescriptor == MallocateOnHeap(16)
SendControlMessageAsync == AllocateTransferDescriptor
SendControlMessage == SendControlMessageAsync
ConfigureDevice == SendControlMessage

-----------------------------------------------------------------------------
(* The root hub and the controller, and the clients.                       *)

Event(rhsc, other) ==
  /\ hc.events < MaxEvents
  /\ hc' = [hc EXCEPT !.rhsc = @ \/ rhsc, !.other = @ \/ other, !.events = @ + 1]
  /\ UNCHANGED <<main, worker, queue, req, hook, opened, serving>>

PlugOrPull(p) ==
  /\ Event(TRUE, FALSE)
  /\ hub' = [hub EXCEPT ![p].connected = ~ @, ![p].csc = TRUE, ![p].fresh = serving]

(* A change that is none of the connection, or another interrupt: the      *)
(* frame number overflows, scheduling overruns.                            *)
OtherEvent == \E rhsc \in BOOLEAN : Event(rhsc, ~ rhsc) /\ UNCHANGED hub

ResetEnds(p) ==
  /\ hub[p].reset
  /\ hub' = [hub EXCEPT ![p].reset = FALSE, ![p].prsc = TRUE]
  /\ hc' = [hc EXCEPT !.rhsc = TRUE]
  /\ UNCHANGED <<main, worker, queue, req, hook, opened, serving>>

(* A port without a device is not reset but reports a change.              *)
StartReset(p) ==
  IF hub[p].connected
  THEN hub' = [hub EXCEPT ![p].reset = TRUE] /\ UNCHANGED hc
  ELSE hub' = [hub EXCEPT ![p].csc = TRUE] /\ hc' = [hc EXCEPT !.rhsc = TRUE]

(* The kernel delivers a request.                                          *)
Post(r) ==
  /\ req[r] = "idle" /\ Len(queue) < Slots
  /\ req' = [req EXCEPT ![r] = "held"]
  /\ queue' = Append(queue, r)
  /\ UNCHANGED <<main, worker, hub, hc, hook, opened, serving>>

-----------------------------------------------------------------------------
(* WorkerThread.                                                           *)

Interrupt == hc.other \/ (hc.rhsc /\ ~ hc.masked)

(* InterruptStatus also tells of a change that is masked.                  *)
WorkerLooks ==
  /\ worker.at = "wait" /\ Interrupt
  /\ worker' = [at |-> "report", change |-> hc.rhsc, other |-> hc.other]
  /\ UNCHANGED <<main, queue, hub, hc, req, hook, opened, serving>>

\* mutant: the message is dropped when the queue is full
WorkerReportsAtOnce ==
  /\ worker.at = "report"
  /\ queue' = IF worker.change /\ serving /\ Len(queue) < Slots THEN Append(queue, StatusChange) ELSE queue
  /\ hc' = [hc EXCEPT !.rhsc = @ /\ ~ worker.change, !.other = @ /\ ~ worker.other]
  /\ worker' = [at |-> "wait", change |-> FALSE, other |-> FALSE]
  /\ UNCHANGED <<main, hub, req, hook, opened, serving>>
(* Report a change, for which there must be room, and clear what was read. *)
WorkerReports ==
  /\ worker.at = "report"
  /\ IF worker.change /\ serving
     THEN Len(queue) < Slots /\ queue' = Append(queue, StatusChange)
     ELSE UNCHANGED queue
  /\ hc' = [hc EXCEPT !.rhsc = @ /\ ~ worker.change, !.other = @ /\ ~ worker.other]
  /\ worker' = [at |-> "wait", change |-> FALSE, other |-> FALSE]
  /\ UNCHANGED <<main, hub, req, hook, opened, serving>>

WorkerThread == WorkerLooks \/ WorkerReports

(* main runs when the worker waits.                                        *)
WorkerBlocked ==
  CASE worker.at = "off" -> TRUE
    [] worker.at = "wait" -> ~ Interrupt
    [] worker.at = "report" -> worker.change /\ serving /\ Len(queue) = Slots

-----------------------------------------------------------------------------
(* main: start-up.                                                         *)

MainAt(place) == main.at = place /\ WorkerBlocked
Goes(place) == main' = [main EXCEPT !.at = place]
GoesTo(place, p) == main' = [main EXCEPT !.at = place, !.port = p, !.tries = 0]

(* SleepModule.  Nobody else uses the timer or its queue.                  *)
MainWakes ==
  /\ MainAt("sleep")
  /\ main' = [main EXCEPT !.at = main.then, !.then = "start"]
  /\ UNCHANGED <<worker, queue, hub, hc, req, hook, opened, serving>>
Sleeps(next) == main' = [main EXCEPT !.at = "sleep", !.then = next]

(* The controller must be of revision 1.0, given up by its owner, and come *)
(* out of a reset.  The worker starts before the priority is lowered.      *)
MainStarts ==
  /\ MainAt("start")
  /\ \/ /\ Goes("ended")
        /\ UNCHANGED <<worker, hc>>
     \/ /\ Goes("power")
        /\ worker' = [worker EXCEPT !.at = "wait"]
        /\ hc' = [hc EXCEPT !.rhsc = FALSE, !.other = FALSE]
  /\ UNCHANGED <<queue, hub, req, hook, opened, serving>>

MainPowersUp ==
  /\ MainAt("power")
  /\ Sleeps("query")
  /\ UNCHANGED <<worker, queue, hub, hc, req, hook, opened, serving>>

(* ResetDevice: a bit of the port that OHCI reserves tells if it may be.   *)
NotReset == IF serving THEN Goes("acknowledge") ELSE GoesTo("query", main.port + 1)

ResetDevice ==
  \/ /\ StartReset(main.port)
     /\ main' = [main EXCEPT !.at = "sleep", !.then = "reset", !.tries = Attempts]
  \/ NotReset /\ UNCHANGED <<hub, hc>>

(* It is done when the port says so; a sleep follows every look that fails. *)
MainLooksAtReset ==
  /\ MainAt("reset")
  /\ IF main.tries = 0
     THEN NotReset /\ UNCHANGED hub
     ELSE IF hub[main.port].prsc
     THEN /\ hub' = [hub EXCEPT ![main.port].prsc = FALSE]
          /\ Goes(IF serving THEN "acknowledge" ELSE "device")
     ELSE /\ main' = [main EXCEPT !.at = "sleep", !.then = "reset", !.tries = @ - 1]
          /\ UNCHANGED hub
  /\ UNCHANGED <<worker, queue, hc, req, hook, opened, serving>>

(* QueryModuleDevices, port after port.                                    *)
MainQueries ==
  /\ MainAt("query")
  /\ IF main.port \in Port THEN ResetDevice ELSE Goes("finish") /\ UNCHANGED <<hub, hc>>
  /\ UNCHANGED <<worker, queue, req, hook, opened, serving>>

(* GetAvailableDeviceIndex takes a slot, if there is one, and goes on      *)
(* without its descriptors.                                                *)
MainAddsDevice ==
  /\ MainAt("device")
  /\ IF main.found < Slots - 1
     THEN main' = [main EXCEPT !.at = "query", !.port = @ + 1, !.tries = 0, !.found = @ + 1]
     ELSE Goes("finish")
  /\ UNCHANGED <<worker, queue, hub, hc, req, hook, opened, serving>>

(* The first message to a device found fails, and with it the module.      *)
MainFinishes ==
  /\ MainAt("finish")
  /\ hub' = [p \in Port |-> [hub[p] EXCEPT !.csc = FALSE]]
  /\ GoesTo(IF main.found = 0 \/ ConfigureDevice THEN "serve" ELSE "ended", 1)
  /\ UNCHANGED <<worker, queue, hc, req, hook, opened, serving>>

-----------------------------------------------------------------------------
(* ProcessEvents.                                                          *)

MainServes ==
  /\ MainAt("serve")
  /\ serving' = TRUE
  /\ Goes("receive")
  /\ UNCHANGED <<worker, queue, hub, hc, req, hook, opened>>

Receives(m) == MainAt("receive") /\ queue # << >> /\ Head(queue) = m /\ queue' = Tail(queue)
ResourceReply(r) == req' = [req EXCEPT ![r] = "answered"]

(* HandleOpen of the slot, whose vendor and product are 0.                 *)
MainOpens(r) ==
  /\ Receives(r)
  /\ ResourceReply(r)
  /\ opened' = TRUE
  /\ UNCHANGED <<main, worker, hub, hc, hook, serving>>

(* Hub and port status, device list; closes of the hub; what is refused.   *)
MainAnswers(r) ==
  /\ Receives(r)
  /\ ResourceReply(r)
  /\ UNCHANGED <<main, worker, hub, hc, hook, opened, serving>>

\* mutant: what fails in a request that is answered later is not reported
MainFailsSilently(r) ==
  /\ Receives(r) /\ opened
  /\ UNCHANGED <<main, worker, hub, hc, req, hook, opened, serving>>
(* What is accepted would be answered by the worker.                       *)
ProcessControlMessage(r) ==
  /\ Receives(r) /\ opened
  /\ IF SendControlMessageAsync THEN UNCHANGED req ELSE ResourceReply(r)
  /\ UNCHANGED <<main, worker, hub, hc, hook, opened, serving>>

(* The slot has no endpoint but the first, which is not for these.         *)
ProcessInterruptBlockMessage(r) == opened /\ MainAnswers(r)

(* The port of the slot is the first.  One that resumes tells of it.       *)
SuspendDevice(r) == opened /\ MainAnswers(r)
ResumeDevice(r) ==
  /\ Receives(r) /\ opened
  /\ \/ UNCHANGED hc
     \/ 1 \in Port /\ hub[1].connected /\ hc' = [hc EXCEPT !.rhsc = TRUE]
  /\ ResourceReply(r)
  /\ UNCHANGED <<main, worker, hub, hook, opened, serving>>

(* SetDeviceIPCMessage keeps the first one.                                *)
MainHook(r) ==
  /\ Receives(r) /\ opened
  /\ IF hook = NULL
     THEN hook' = r /\ UNCHANGED req
     ELSE ResourceReply(r) /\ UNCHANGED hook
  /\ UNCHANGED <<main, worker, hub, hc, opened, serving>>

(* A client may write what it likes to a port.                             *)
MainSetsPort(r) ==
  /\ Receives(r)
  /\ \/ UNCHANGED <<hub, hc>>
     \/ \E p \in Port : hub' = [hub EXCEPT ![p].csc = FALSE] /\ UNCHANGED hc
     \/ \E p \in Port : hub' = [hub EXCEPT ![p].prsc = FALSE] /\ UNCHANGED hc
     \/ \E p \in Port : StartReset(p)
  /\ ResourceReply(r)
  /\ UNCHANGED <<main, worker, hook, opened, serving>>

(* CloseDevice: the slot has one endpoint, at address 0, where DisableEnd- *)
(* point writes; CloseEndpoint finds no descriptor of the heap there.      *)
MainCloses(r) ==
  /\ Receives(r) /\ opened
  /\ main' = [main EXCEPT !.at = "sleep", !.then = "closed", !.req = r]
  /\ UNCHANGED <<worker, hub, hc, req, hook, opened, serving>>

MainClosed ==
  /\ MainAt("closed")
  /\ ResourceReply(main.req)
  /\ main' = [main EXCEPT !.at = "receive", !.req = NULL]
  /\ UNCHANGED <<worker, queue, hub, hc, hook, opened, serving>>

-----------------------------------------------------------------------------
(* HandleStatusChange, port after port.                                    *)

MainStatusChange ==
  /\ Receives(StatusChange)
  /\ hc' = [hc EXCEPT !.masked = TRUE]
  /\ GoesTo("port", 1)
  /\ UNCHANGED <<worker, hub, req, hook, opened, serving>>

(* HandleDisconnection looks for a device and finds none: no hook is       *)
(* answered.                                                               *)
HandleDisconnection == UNCHANGED <<req, hook>>

MainLooksAtPort ==
  /\ MainAt("port") /\ main.port \in Port
  /\ LET p == main.port IN
       /\ hub' = [hub EXCEPT ![p].fresh = FALSE]
       /\ IF ~ hub[p].csc THEN GoesTo("port", p + 1) /\ UNCHANGED <<req, hook>>
          ELSE IF hub[p].connected THEN Goes("connection") /\ UNCHANGED <<req, hook>>
          ELSE Goes("acknowledge") /\ HandleDisconnection
  /\ UNCHANGED <<worker, queue, hc, opened, serving>>

MainConnection ==
  /\ MainAt("connection")
  /\ ResetDevice
  /\ UNCHANGED <<worker, queue, req, hook, opened, serving>>

(* RH_PS_PESC & RH_PS_CSC is zero, and writing it clears nothing.          *)
MainAcknowledges ==
  /\ MainAt("acknowledge")
  /\ GoesTo("port", main.port + 1)
  /\ UNCHANGED <<worker, queue, hub, hc, req, hook, opened, serving>>

\* mutant: RHSC stays masked
MainLeavesMasked ==
  /\ MainAt("port") /\ main.port \notin Port
  /\ GoesTo("receive", 1)
  /\ UNCHANGED <<worker, queue, hub, hc, req, hook, opened, serving>>
MainUnmasks ==
  /\ MainAt("port") /\ main.port \notin Port
  /\ hc' = [hc EXCEPT !.masked = FALSE]
  /\ GoesTo("receive", 1)
  /\ UNCHANGED <<worker, queue, hub, req, hook, opened, serving>>

-----------------------------------------------------------------------------
QueryModuleDevices == MainPowersUp \/ MainQueries \/ MainAddsDevice \/ MainFinishes
ProcessEvents ==
  \E r \in Request :
    \/ MainOpens(r) \/ MainAnswers(r) \/ MainHook(r) \/ MainSetsPort(r) \/ MainCloses(r)
    \/ ProcessControlMessage(r) \/ ProcessInterruptBlockMessage(r)
    \/ SuspendDevice(r) \/ ResumeDevice(r)
HandleStatusChange ==
  \/ MainStatusChange \/ MainLooksAtPort \/ MainConnection \/ MainAcknowledges \/ MainUnmasks
MainThread ==
  \/ MainStarts \/ QueryModuleDevices \/ MainWakes \/ MainLooksAtReset
  \/ MainServes \/ ProcessEvents \/ MainClosed \/ HandleStatusChange
RootHub == OtherEvent \/ \E p \in Port : PlugOrPull(p) \/ ResetEnds(p)

Next == RootHub \/ WorkerThread \/ MainThread \/ \E r \in Request : Post(r)

Spec == Init /\ [][Next]_vars

(* The kernel runs the threads, and the timer, main's only wait but for a  *)
(* message, fires.  Nothing is assumed of the hub or the clients.          *)
FairSpec == Spec /\ WF_vars(WorkerThread) /\ WF_vars(MainThread)

-----------------------------------------------------------------------------
(* The ports the running HandleStatusChange has still to look at.          *)
ToLookAt ==
  CASE main.at = "port" -> main.port..Ports
    [] main.at \in {"sleep", "connection", "reset", "acknowledge"} /\ main.req = NULL -> (main.port + 1)..Ports
    [] OTHER -> {}

(* No connection or removal while the module serves is lost: one that main *)
(* has not looked at is pending in the controller, read by the worker, on  *)
(* the device queue, or at a port main is about to come to.  The worker    *)
(* clears bits that it read before it waited for room; main masks the      *)
(* interrupt and sleeps while it goes through the ports.                   *)
NoLostChange ==
  \A p \in Port : hub[p].fresh =>
    hc.rhsc \/ worker.change \/ StatusChange \in ToSet(queue) \/ p \in ToLookAt

(* And main gets to look at it in the end: the worker that waits for room, *)
(* the mask, and main that resets one port after the other do not hold     *)
(* each other up, although a change is never acknowledged and each reset   *)
(* brings the next message.                                                *)
Noticed == \A p \in Port : hub[p].fresh ~> ~ hub[p].fresh

(* Every request is answered, between the messages of the worker and also  *)
(* where a message fails, but for the removal hook that the module keeps   *)
(* (a removal finds no device), and unless the module ended at start-up.   *)
Answered ==
  \A r \in Request : req[r] = "held" ~> req[r] = "answered" \/ hook = r \/ main.at = "ended"
=============================================================================
