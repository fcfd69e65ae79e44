-------------------------------- MODULE Filedesc --------------------------------
(***************************************************************************)
(* File descriptors and resource managers: kernel/source/filedesc/,        *)
(* kernel/source/messaging/resourceManager.c and the two functions of      *)
(* ipc.c that carry a call to a manager and its result back.  A system     *)
(* call runs with interrupts disabled, so it is one step up to where it    *)
(* blocks: on a manager's full queue, or for the reply to a synchronous    *)
(* call.  The queues are the sequences that Mailbox promises.  What the    *)
(* programs and the managers do between their calls is external.           *)
(***************************************************************************)
EXTENDS Integers, Sequences, FiniteSets

CONSTANTS
  Thread,         \* the threads that make calls
  ProcessOf,      \* their process: 15 for the thread of the IpcHandler
  Limit,          \* thread_open_msg_limit of each
  Device,         \* the device names; each is served by a process of its own
  Path, Matches,  \* the paths that are opened, and the device names they begin with
  App,            \* the messages programs pass to asynchronous calls
  Passes,         \* those each thread passes; NULL: it makes synchronous calls
  Handle,         \* what a manager may answer to an open
  MaxFds,         \* MAX_PROCESS_FDS
  MaxDevices,     \* MAX_DEVICES
  ExtraMessages,  \* IPC_EXTRA_MESSAGES
  QueueSize,      \* the capacity of a manager's queue
  CallbackSize,   \* that of the queue a process has its replies sent to
  NULL

ASSUME NamesAssumption ==
  /\ NULL \notin Thread \cup Device \cup App \cup Handle \cup Path
  /\ Passes \in [Thread -> SUBSET (App \cup {NULL})]
  /\ Matches \subseteq Path \X Device /\ Thread \cap Nat = {}
  /\ Handle \cap {"none", "ok", "error", "ENOENT"} = {}
ASSUME LimitsAssumption ==
  /\ Limit \in [Thread -> Nat] /\ {MaxFds, MaxDevices, ExtraMessages} \subseteq Nat
  /\ {QueueSize, CallbackSize} \subseteq Nat \ {0}

VARIABLES
  resources,  \* the devices of ResourceManagers[], in order of registration
  fds,        \* ProcessFileDescriptors[][]
  message,    \* IpcMessageArray[]: one message per thread, then the extra ones
  usage,      \* ThreadMessageUsageArray[]
  queue,      \* the queue of each device's manager
  reply,      \* IpcMessageQueueArray[]: the queue of each thread, of size 1
  callback,   \* the queue each process receives its asynchronous replies in
  call,       \* per thread, the call it is blocked in
  serving,    \* the messages each manager holds
  handles,    \* the handles each manager has open
  awaiting    \* the messages whose asynchronous call is not yet answered

kernelVars == <<resources, fds, message, usage, queue, reply, call>>
vars == <<kernelVars, callback, serving, handles, awaiting>>

Process == {ProcessOf[t] : t \in Thread}
Fd == 0 .. MaxFds - 1
Extra == 1 .. ExtraMessages
Message == Thread \cup Extra

Results == Handle \cup {"none", "ok", "error", "ENOENT"}
IpcMessage ==
  [ command : {"none", "open", "close", "use"},  \* "use": read, write, seek, ioctl, ioctlv
    handle  : Handle \cup {NULL},                \* Request.FileDescriptor
    result  : Results,                           \* Request.Result
    caller  : App \cup {NULL},                   \* CallerData, with a Callback if not NULL
    user    : Thread \cup {NULL},                \* UsedByThreadId
    server  : Device \cup {NULL},                \* UsedByProcessId
    inQueue : BOOLEAN ]                          \* IsInQueue
FileDescriptor == [device : Device \cup {NULL}, handle : Handle \cup {NULL}]
BlockedCall ==
  [ op      : {"none", "send", "receive"},
    command : {"none", "open", "close", "use"},
    message : Message \cup {NULL},
    device  : Device \cup {NULL},
    fd      : Fd \cup {NULL},
    path    : Path \cup {NULL},  \* of an open, and where its search is
    at      : 0 .. MaxDevices,
    caller  : App \cup {NULL} ]  \* of OpenFDAsync

(* What a message holds while nobody uses it is never read.                *)
NoMessage == [ command |-> "none", handle |-> NULL, result |-> "none", caller |-> NULL,
               user |-> NULL, server |-> NULL, inQueue |-> FALSE ]
NoFd == [device |-> NULL, handle |-> NULL]
NoCall == [ op |-> "none", command |-> "none", message |-> NULL, device |-> NULL,
            fd |-> NULL, path |-> NULL, at |-> 0, caller |-> NULL ]

Init ==
  /\ resources = << >>
  /\ fds = [p \in Process |-> [i \in Fd |-> NoFd]]
  /\ message = [m \in Message |-> NoMessage]
  /\ usage = [t \in Thread |-> 0]
  /\ queue = [d \in Device |-> << >>]
  /\ reply = [t \in Thread |-> << >>]
  /\ callback = [p \in Process |-> << >>]
  /\ call = [t \in Thread |-> NoCall]
  /\ serving = [d \in Device |-> {}]
  /\ handles = [d \in Device |-> {}]
  /\ awaiting = {}

InUser(t) == call[t].op = "none"
Room(d) == Len(queue[d]) < QueueSize

(* A second registration of a name, or one too many, changes nothing.      *)
RegisterResourceManager(d) ==
  /\ \A i \in DOMAIN resources : resources[i] # d
  /\ Len(resources) < MaxDevices
  /\ resources' = Append(resources, d)
  /\ UNCHANGED <<fds, message, usage, queue, reply, call, callback, serving, handles, awaiting>>

-----------------------------------------------------------------------------
(* The message of c goes to the manager of its device, or the thread waits *)
(* for room; then an asynchronous call returns and a synchronous one waits *)
(* for the reply.  Close forgets the descriptor as it returns, whatever    *)
(* the result.                                                             *)

\* mutant: an asynchronous close keeps the descriptor
KeptUnlessSynchronous(t, c) ==
  IF c.command = "close" /\ c.message = t THEN [fds EXCEPT ![ProcessOf[t]][c.fd] = NoFd] ELSE fds
Closed(t, c) ==
  IF c.command = "close" THEN [fds EXCEPT ![ProcessOf[t]][c.fd] = NoFd] ELSE fds

(* SendMessageCheckReceive up to where it blocks.                          *)
Send(t, c) ==
  LET sent == Room(c.device)
      done == sent /\ c.message \in Extra
  IN  /\ queue' = IF sent THEN [queue EXCEPT ![c.device] = Append(@, c.message)] ELSE queue
      /\ call' = [call EXCEPT ![t] = IF done THEN NoCall
                                     ELSE [c EXCEPT !.op = IF sent THEN "receive" ELSE "send"]]
      /\ fds' = IF done THEN Closed(t, c) ELSE fds

SendResumes(t) ==
  /\ call[t].op = "send" /\ Room(call[t].device)
  /\ Send(t, call[t])
  /\ UNCHANGED <<resources, message, usage, reply, callback, serving, handles, awaiting>>

-----------------------------------------------------------------------------
(* Opening, which always waits for its reply in the message of the thread. *)

(* The managers from number i on with whose name the path begins.          *)
Candidates(path, i) == {j \in i .. Len(resources) : <<path, resources[j]>> \in Matches}
FirstOf(S) == CHOOSE i \in S : \A j \in S : i <= j
FreeFds(p) == {i \in Fd : fds[p][i].device = NULL}

(* An asynchronous open is told only of its success.                       *)
OpenFails(t, a) ==
  /\ call' = [call EXCEPT ![t] = NoCall]
  /\ message' = [message EXCEPT ![t] = NoMessage]
  /\ awaiting' = awaiting \ {a}
  /\ UNCHANGED <<fds, queue, callback>>

AskFrom(t, path, i, a) ==
  IF Candidates(path, i) = {} THEN OpenFails(t, a)
  ELSE LET j == FirstOf(Candidates(path, i))
           d == resources[j]
       IN  /\ message' = [message EXCEPT ![t] =
                            [NoMessage EXCEPT !.command = "open", !.server = d]]
           /\ Send(t, [NoCall EXCEPT !.command = "open", !.message = t, !.device = d,
                                     !.path = path, !.at = j, !.caller = a])
           /\ awaiting' = awaiting \cup ({a} \ {NULL})
           /\ UNCHANGED callback

OpenFD_Inner(t, path, a) ==
  /\ InUser(t)
  /\ AskFrom(t, path, 1, a)
  /\ UNCHANGED <<resources, usage, reply, serving, handles>>

OpenFD(t, path) == OpenFD_Inner(t, path, NULL)
OpenFDAsync(t, path, a) == a # NULL /\ OpenFD_Inner(t, path, a)

(* The handle gets the first free descriptor and an asynchronous open is   *)
(* answered; with no descriptor free the handle is forgotten.              *)
NewFd(p) == IF FreeFds(p) = {} THEN {} ELSE {FirstOf(FreeFds(p))}

OpenSucceeds(t, c, handle) ==
  LET p == ProcessOf[t]
      posted == c.caller # NULL /\ Len(callback[p]) < CallbackSize
  IN  /\ fds' = [fds EXCEPT ![p] = [i \in Fd |-> IF i \in NewFd(p)
                   THEN [device |-> c.device, handle |-> handle] ELSE @[i]]]
      /\ callback' = IF posted THEN [callback EXCEPT ![p] = Append(@, c.caller)] ELSE callback
      /\ awaiting' = IF posted THEN awaiting ELSE awaiting \ {c.caller}
      /\ call' = [call EXCEPT ![t] = NoCall]
      /\ message' = [message EXCEPT ![t] = NoMessage]
      /\ UNCHANGED queue

OpenReceives(t) ==
  LET c == call[t]
      result == message[t].result
  IN  /\ c.op = "receive" /\ c.command = "open" /\ reply[t] # << >>
      /\ reply' = [reply EXCEPT ![t] = Tail(@)]
      /\ CASE result = "ENOENT" -> AskFrom(t, c.path, c.at + 1, c.caller)
           [] result \in Handle /\ NewFd(ProcessOf[t]) # {} -> OpenSucceeds(t, c, result)
           [] OTHER -> OpenFails(t, c.caller)
      /\ UNCHANGED <<resources, usage, serving, handles>>

-----------------------------------------------------------------------------
(* The calls on a descriptor.  Read, write, seek, ioctl and ioctlv differ  *)
(* only in what they check and pass.                                       *)

(* The tables are per process; the request handler has one of its own,     *)
(* which holds the descriptors of the PowerPC.                             *)
GetProcessFd(t, i) == fds[ProcessOf[t]][i]
IsIdValidForProcess(t, i) == GetProcessFd(t, i).device # NULL

FreeExtra == {m \in Extra : ~ message[m].inQueue}
Available(t) == usage[t] < Limit[t] /\ FreeExtra # {}

\* mutant: a message given back is not counted down
GivenBackCounted(u, t) == u
GivenBack(u, t) == [u EXCEPT ![t] = @ - 1]

(* GetThreadSpecificMsgOrFreeFromExtra and the sending of a call on the    *)
(* descriptor i; a is NULL when it is synchronous.                         *)
CallFD_Inner(t, i, command, a) ==
  LET f == GetProcessFd(t, i)
      m == IF a = NULL THEN t ELSE FirstOf(FreeExtra)
  IN  /\ InUser(t) /\ IsIdValidForProcess(t, i)
      /\ a # NULL => Available(t)
      /\ message' = [message EXCEPT ![m] =
           [ command |-> command, handle |-> f.handle, result |-> "none", caller |-> a,
             user |-> IF a = NULL THEN NULL ELSE t, server |-> f.device, inQueue |-> a # NULL ]]
      /\ usage' = IF a = NULL THEN usage ELSE [usage EXCEPT ![t] = @ + 1]
      /\ Send(t, [NoCall EXCEPT !.command = command, !.message = m, !.device = f.device, !.fd = i])
      /\ awaiting' = awaiting \cup ({a} \ {NULL})
      /\ UNCHANGED <<resources, reply, callback, serving, handles>>

CallFD(t, i, command) == CallFD_Inner(t, i, command, NULL)
CallFDAsync(t, i, command, a) == a # NULL /\ CallFD_Inner(t, i, command, a)

(* A pointer is refused: an asynchronous call gives its message back.      *)
CallRefused(t, i) ==
  /\ InUser(t) /\ IsIdValidForProcess(t, i) /\ Available(t)
  /\ usage' = GivenBack([usage EXCEPT ![t] = @ + 1], t)
  /\ UNCHANGED <<resources, fds, message, queue, reply, callback, call, serving, handles, awaiting>>

CallReceives(t) ==
  /\ call[t].op = "receive" /\ call[t].command # "open" /\ reply[t] # << >>
  /\ reply' = [reply EXCEPT ![t] = Tail(@)]
  /\ fds' = Closed(t, call[t])
  /\ call' = [call EXCEPT ![t] = NoCall]
  /\ message' = [message EXCEPT ![t] = NoMessage]
  /\ UNCHANGED <<resources, usage, queue, callback, serving, handles, awaiting>>

-----------------------------------------------------------------------------
(* ResourceReply: to the queue of the thread that waits, or, for an        *)
(* asynchronous call, to that of its caller, if there is room.             *)
ReplyToThread(d, m, result) ==
  /\ m \in Thread /\ reply[m] = << >>
  /\ message' = [message EXCEPT ![m].result = result]
  /\ reply' = [reply EXCEPT ![m] = Append(@, m)]
  /\ UNCHANGED <<usage, callback>>

\* mutant: the message is not given back
ReplyKeepsMessage(d, m) ==
  /\ m \in Extra /\ message[m].inQueue /\ message[m].server = d
  /\ callback' = [callback EXCEPT ![ProcessOf[message[m].user]] = Append(@, message[m].caller)]
  /\ UNCHANGED <<message, usage, reply>>
ReplyToCallback(d, m) ==
  LET p == ProcessOf[message[m].user]
  IN  /\ m \in Extra /\ message[m].inQueue /\ message[m].server = d
      /\ message' = [message EXCEPT ![m] = NoMessage]
      /\ usage' = GivenBack(usage, message[m].user)
      /\ callback' = IF Len(callback[p]) < CallbackSize
                     THEN [callback EXCEPT ![p] = Append(@, message[m].caller)] ELSE callback
      /\ UNCHANGED reply

ResourceReply(d, m, result) ==
  /\ m \in serving[d]
  /\ ReplyToThread(d, m, result) \/ ReplyToCallback(d, m)
  /\ serving' = [serving EXCEPT ![d] = @ \ {m}]
  /\ UNCHANGED <<resources, fds, queue, call, awaiting>>

-----------------------------------------------------------------------------
(* The managers take their requests in order, answer them in any, give a   *)
(* handle of their own to each open and take it back at its close.         *)
TakeRequest(d) ==
  /\ queue[d] # << >>
  /\ LET m == Head(queue[d])
     IN  /\ serving' = [serving EXCEPT ![d] = @ \cup {m}]
         /\ handles' = IF message[m].command # "close" THEN handles
                       ELSE [handles EXCEPT ![d] = @ \ {message[m].handle}]
  /\ queue' = [queue EXCEPT ![d] = Tail(@)]
  /\ UNCHANGED <<resources, fds, message, usage, reply, callback, call, awaiting>>

Answer(d, m) ==
  IF message[m].command = "open"
  THEN \/ \E h \in Handle \ handles[d] :
            ResourceReply(d, m, h) /\ handles' = [handles EXCEPT ![d] = @ \cup {h}]
       \/ \E result \in {"ENOENT", "error"} : ResourceReply(d, m, result) /\ UNCHANGED handles
  ELSE ResourceReply(d, m, "ok") /\ UNCHANGED handles

(* A program takes the reply to an asynchronous call.                      *)
TakeCallback(p) ==
  /\ callback[p] # << >>
  /\ callback' = [callback EXCEPT ![p] = Tail(@)]
  /\ awaiting' = awaiting \ {Head(callback[p])}
  /\ UNCHANGED <<resources, fds, message, usage, queue, reply, call, serving, handles>>

(* Programs do not close a descriptor under a call of another thread.      *)
Undisturbed(t, i, command) ==
  \A u \in Thread \ {t} :
    ProcessOf[u] = ProcessOf[t] /\ call[u].fd = i => "close" \notin {command, call[u].command}

System(t) ==
  \/ \E path \in Path :
       \/ NULL \in Passes[t] /\ OpenFD(t, path)
       \/ \E a \in Passes[t] \ awaiting : OpenFDAsync(t, path, a)
  \/ \E i \in Fd, command \in {"close", "use"} :
       /\ Undisturbed(t, i, command)
       /\ \/ NULL \in Passes[t] /\ CallFD(t, i, command)
          \/ \E a \in Passes[t] \ awaiting : CallFDAsync(t, i, command, a)
  \/ \E i \in Fd : CallRefused(t, i)
  \/ SendResumes(t) \/ OpenReceives(t) \/ CallReceives(t)

Next ==
  \/ \E t \in Thread : System(t)
  \/ \E d \in Device : RegisterResourceManager(d) \/ TakeRequest(d)
  \/ \E d \in Device : \E m \in serving[d] : Answer(d, m)
  \/ \E p \in Process : TakeCallback(p)

Spec == Init /\ [][Next]_vars

-----------------------------------------------------------------------------
(* The tables, the messages and the blocked calls have their types.        *)
TypeOK ==
  /\ resources \in Seq(Device) /\ Len(resources) <= MaxDevices
  /\ fds \in [Process -> [Fd -> FileDescriptor]]
  /\ message \in [Message -> IpcMessage]
  /\ usage \in [Thread -> Nat]
  /\ queue \in [Device -> Seq(Message)] /\ reply \in [Thread -> Seq(Message)]
  /\ callback \in [Process -> Seq(App)]
  /\ call \in [Thread -> BlockedCall]
  /\ serving \in [Device -> SUBSET Message] /\ handles \in [Device -> SUBSET Handle]
  /\ awaiting \subseteq App

Count(S, x) == Cardinality({i \in DOMAIN S : S[i] = x})
One(P) == IF P THEN 1 ELSE 0

(* Every message of the pool that is in use is counted against the thread  *)
(* that took it, within its limit, on every path of every call; and it is  *)
(* used by one call at a time: while it is in use it is in one place, with *)
(* a thread that waits for room, in a queue, with the manager or in the    *)
(* queue of its thread, and otherwise nowhere.                             *)
Counted ==
  \A t \in Thread :
    /\ usage[t] = Cardinality({m \in Extra : message[m].inQueue /\ message[m].user = t})
    /\ usage[t] <= Limit[t]
OnePlace ==
  LET Places(m) ==
        LET at == {<<"queue", d, i>> : d \in Device, i \in 1 .. QueueSize}
        IN    Cardinality({x \in at : x[3] <= Len(queue[x[2]]) /\ queue[x[2]][x[3]] = m})
            + Cardinality({d \in Device : m \in serving[d]})
            + Cardinality({t \in Thread : call[t].op = "send" /\ call[t].message = m})
            + Cardinality({t \in Thread : reply[t] = <<m>>})
  IN  \A m \in Message :
        Places(m) = One(IF m \in Extra THEN message[m].inQueue ELSE call[m].message = m)
PoolAccounted == TypeOK /\ Counted /\ OnePlace

(* An asynchronous call that was accepted is answered once: its message is *)
(* with a call in progress or in the queue for the caller, and in one only. *)
AnsweredOnce ==
  \A a \in App :
      Cardinality({m \in Extra : message[m].inQueue /\ message[m].caller = a})
    + Cardinality({t \in Thread : call[t].caller = a})
    + Cardinality({p \in Process : Count(callback[p], a) = 1})
    + 2 * Cardinality({p \in Process : Count(callback[p], a) > 1})
    = One(a \in awaiting)

(* Every descriptor names a handle that its manager has open, and no two   *)
(* name the same, unless a close of it is under way; and no request is     *)
(* taken by a manager after the close of its handle.                       *)
Closing(p, i) == \E t \in Thread : ProcessOf[t] = p /\ call[t].fd = i /\ call[t].command = "close"
DescriptorsAreOpen ==
  \A p \in Process, i \in Fd :
    LET f == fds[p][i]
    IN  f.device # NULL /\ ~ Closing(p, i) =>
          /\ f.handle \in handles[f.device]
          /\ \A r \in Process, j \in Fd :
               fds[r][j] = f /\ ~ Closing(r, j) => <<r, j>> = <<p, i>>

RequestsAreInTime ==
  \A d \in Device :
    LET OnHandle(m) == message[m].command \in {"close", "use"}
    IN  \A j \in DOMAIN queue[d] : OnHandle(queue[d][j]) =>
          /\ message[queue[d][j]].handle \in handles[d]
          /\ \A i \in 1 .. j - 1 :
               message[queue[d][i]].command = "close" =>
                 message[queue[d][i]].handle # message[queue[d][j]].handle
HandlesOpen == DescriptorsAreOpen /\ RequestsAreInTime
=============================================================================
