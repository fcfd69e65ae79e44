# StarStruck in TLA+

StarStruck is a free reimplementation of IOS, the operating system of the
Starlet (ARM) processor of the Wii. This directory holds a verification project
for it: TLA+ modules translated from the C sources, TLC instances that check
them, and TLAPS proofs about them. Paths below are relative to `src/`; `k/`
abbreviates `kernel/source/`, `o/` abbreviates `modules/oh1/source/`.

## 1. The system and its parts

One processor, preemptive threads with strict priorities, system calls that run
with interrupts disabled, and everything else built on message queues.

| part | source | state | operations | modelled by |
|---|---|---|---|---|
| Thread lists and dispatch | `k/scheduler/threads.c`, `threads_asm.s` | `Threads[]`, `SchedulerQueue`, `CurrentThread` | push, pop, remove, yield, unblock | `ThreadQueue` |
| Thread calls | `k/scheduler/threads.c` | the same | create, start, suspend, cancel, join, yield, priorities | `Threads` |
| Message queues | `k/messaging/messageQueue.c` | `MessageQueues[]`: ring, two wait lists | create, send, jam, receive, destroy | `MessageQueue`, `Mailbox` |
| Interrupts, events | `k/interrupt/irq.c` | `eventHandlers[]`, the mask | register, unregister, clear and enable, the handler | `Irq` |
| Start-up, crypto wrapper | `k/main.c`, `k/crypto/iosc.c` | the token queue | start threads; begin and end a crypto call | `Kernel` |
| Timers | `k/scheduler/timer.c` | a delta list, the alarm | create, restart, stop, destroy, handler thread | `Timers` |
| Memory protection | `k/memory/memory.c`, parts of `main.c`, `threads.c`, `irq.c` | page tables, domains, access register | map, check a pointer, translate, switch access | `Memory` |
| Heaps | `k/memory/heaps.c` | `heaps[]`, block headers in memory | create, destroy, allocate, free | `Heaps` |
| IPC with the PowerPC | `k/messaging/ipc.c` | registers, `IpcCircBuf`, the handler's queue | send, acknowledge, relaunch, dispatch, reply | `Ipc` |
| Descriptors, resource managers | `k/filedesc/`, `k/messaging/resourceManager.c` | descriptor tables, message pool, usage counters | register; open, close, read, write, seek, ioctl(v), each synchronous and not; reply | `Filedesc` |
| Keyring, IOSC objects | `k/crypto/keyring.c`, `iosc.c` | key metadata, chained data entries | create, delete, set and get data | `Keyring`, `Iosc` |
| SEEPROM counters | `k/crypto/seeprom.c`, `boot2.c`, `nand.c` | redundant counters with checksums | read, update word by word | `Seeprom`, `MonotonicCounter`, `Iosc` |
| AES and SHA engines | `k/crypto/aes.c`, `sha.c`, `hmac.c`, `iosc.c` | engine registers, contexts, vectors, caches | hash, MAC, verify, encrypt, decrypt, each served by a thread | `EngineRequests`, `ShaEngine`, `AesEngine`, `CryptoCalls` |
| OHCI module | `o/oh1.c`, `module.c`, `memory.c`, `deviceManagement.c` | ports of the root hub, interrupt flags, device queue, requests | start-up, requests of clients, close, hot-plug (transfers: section 7) | `Ohci` |
| SD host and card, FatFs, NAND and boot2 of mini, PowerPC control, board support, core library, ELF loaders, tools, ES and FS stubs | `k/sdhc.c`, `k/ff.c`, `k/nand_mini.c`, `core/`, `elfloader/`, `tools/`, ... | | | not modelled (section 7) |

How they interact: an interrupt becomes a message (Irq to MessageQueue) that
wakes a thread (MessageQueue to Threads), possibly preempting the one that
runs. A PowerPC request becomes a call of the IpcHandler thread on a descriptor,
which becomes a message to the queue of a resource manager, whose
`ResourceReply` comes back as a message to the handler, and from there through
the circular buffer to the PowerPC. Synchronous calls use a queue of one place
that each thread owns. A crypto call takes the token, hands a request with its
vectors to an engine thread over the queue of its device, and is answered like
any other call. Timers are one more sender of messages, and one more thread
woken by an interrupt. The OHCI module is a client of all of this: two threads,
one device queue, one timer.

What is hard about it: wake-ups of threads that then find the message gone;
priority lists that are edited by five different calls with two different
terminators; unchecked non-blocking posts that rely on a bound kept elsewhere;
flag registers shared with another processor; message structures reused across
calls of different processes; a delta list that is walked while the clock goes
on; memory that has to be freed by one of two threads depending on how a
request ended; a thread that reports to another one over a queue that may be
full, and clears afterwards what it reported; stores that power may leave half
written; and functions that block in the middle of an update. `PROJECT.json` lists these as hazards, each with the
properties meant to catch it.

## 2. Modules

```
ThreadQueue <- Threads <- MessageQueue <- Irq <- Kernel <- KernelProperties <- MCKernel
                                  Mailbox <------- (refinement) --+   ^
                                                          Kernel_proofs
Ipc <- IpcProperties <- MCIpc, Ipc_proofs      Filedesc <- MCFiledesc, Filedesc_proofs
Timers <- MCTimers, Timers_proofs              Memory   <- MCMemory, Memory_proofs
Ohci <- MCOhci, Ohci_proofs                    Heaps    <- MCHeaps
Keyring, Seeprom <- Iosc <- MCIosc             EngineRequests <- ShaEngine, AesEngine
  MonotonicCounter <-+ (refinement)              <- CryptoCalls <- MCCryptoCalls
           Iosc_proofs                                      CryptoCalls_proofs
```

* **ThreadQueue.** All thread state is one record, `sched`; each C primitive is
  an operator from record to record. Lists are kept as the code keeps them: head
  cells and `next` fields. That the list of a queue ends sometimes in
  `ThreadStartingState` (the sentinel) and sometimes in NULL is part of the
  behaviour, as some callers test for one and some for the other. A walk that
  the code would never finish sets `status` to `hung`. Reads through NULL see
  `LowMemPriority`, the word of low memory they would read.
* **Threads, MessageQueue, Irq.** One action per system call. A call runs with
  interrupts disabled and is one step up to the `YieldCurrentThread` inside it;
  what follows that is a second step, which `cont[t]` names and which is taken
  when the thread is dispatched again. `delivered` is what the last receive
  stored through its pointer.
* **Kernel.** Composes them with the start in `kernel_main` and with the token
  of the crypto calls. A crypto call spans several steps between `IoscBegin` and
  `IoscEnd` and can be preempted.
* **Mailbox.** What a queue promises: a bounded sequence, sent to at its end,
  jammed at its front, each message delivered once. An interrupt may be one of
  several devices at a time, so one step of the handler may post one message of
  each (`Posted`).
* **Ipc.** Uses the promise: queues are sequences. The steps of the handler are
  cut where the PowerPC, an interrupt or a resource manager could tell the
  difference: the message register is read before the flags, flags are written
  before the interrupt is enabled. A request has an address, judged by
  `ValidateAddress` in arithmetic that wraps as a `u32` does.
* **Filedesc.** The same for the other side of a request. `call[t]` is the call
  that thread `t` is blocked in, on a full queue or for its reply. A message is
  a slot of `IpcMessageArray`, so reuse shows. A free message has no contents in
  the model, as none are read.
* **Heaps.** Memory counted in units of 0x10 bytes; `block` holds the header
  that lies at each address, so a piece written over a header destroys it.
  `astray` says that a call has used the size or the offset of another block, or
  a stale link (section 4): the model stops there, as a list that is spoilt may
  lead anywhere.
* **Timers.** The list is a sequence whose intervals are as the code keeps them,
  each relative to the timer before it; `since` and `alarm` are distances to
  the hardware clock, which may tick between any two looks of the walk that
  places a timer. `left` and `shifted` are histories: what was asked for, and
  which timers a stop has moved. The message a timer sends is left to Kernel.
* **Memory.** First memory is mapped section by section and page by page as
  `InitializeMemory` does (`stage` "kernel", "registers"), then the segments of
  the modules in `kernel_main` ("segments"), then threads run ("run") and each
  step that loads the domain register or the entry of the hardware registers is
  an action. An address is a page number; a coarse table is as the code shares
  it between sections, so it keeps the domain of the first one. User and group
  ids are kept as well, though nothing but `GetGID` reads the latter.
* **Keyring, Seeprom, Iosc.** The two stores and the calls on them. A key's data
  are a chain of entries linked upwards; the search for free entries and the
  rollback of one that does not fit are operators on the table. An entry carries
  whose data it holds: a preset key's, or those of none. A counter of the
  SEEPROM is its copies as words; `Field` says which counter is used, and `Byte`
  how many values a byte has (256 in the device). A call holds the token, so it
  is one step, except that SetData writes one word a step: a word may not be
  acknowledged (`WaitNotBusyFails`) and the power may go (`PowerCut`), which
  makes the keyring anew from what the SEEPROM then says.
* **MonotonicCounter.** What such a counter promises: it advances by one.
* **EngineRequests, ShaEngine, AesEngine, CryptoCalls.** A request to an engine
  with its vectors on the kernel heap; the two engine threads with the registers
  they load, poll and wait for; and the calls of programs that make the requests.
  Data are sequences of named units, a hash is the sequence of blocks that went
  into it, so that `Digest` and the cipher are free of collisions. Buffers have a
  line of cache that may be written back at any time. The engine threads have
  priority 0x7E, above every program, so programs move only while both wait.
* **Ohci.** The two threads of the module, the interrupt flags of the controller
  and the ports of the root hub. Descriptors for the controller are asked for
  with an alignment that the heaps of the kernel refuse (section 4), so in this
  repository nothing is ever transferred. The model says why
  (`MallocateOnHeap`, `AllocateTransferDescriptor` and those that need one) and
  follows what is left: messages to a device fail and main answers them, a
  device found at start-up ends the module, the worker has no done list, and the
  root hub works as it should. The worker has the higher priority and its steps
  end where it blocks; a step of main ends where it blocks or where a change of
  the hub may come between, such as between two ports or the looks of
  `ResetDevice`.

Mutants, marked in the modules by a comment, are what a plausible slip in the
code would make of a definition. Each checked property has one it rejects.

## 3. What is checked

| run | instance | shows |
|---|---|---|
| `mail` | 3 programs at priorities 70, 60, 50 and thread 0; 2 queues of up to 2 messages; the timer | queues implement `Mailbox` under wake-ups, preemption, interrupts, jams and changes of priority; no lost wake-up of a receiver or a sender; lists sorted and complete; the highest priority runs and programs are told so; the crypto token is neither lost nor doubled |
| `lifecycle` | 4 threads, one of process 0 that creates, starts, suspends, joins, cancels and destroys | exactly one thread runs, the ready threads are exactly those listed, joiners never run again |
| `events` | the set-up of the OHCI module: an event loop and a competitor for its queue | a raised timer interrupt is served although its message may be dropped |
| `requests` | five requests, three at the edges of what is accepted and two beyond; a reply buffer of 2, a queue of 3 | each request has one copy on its way and is answered once; buffer and queue never overflow though neither is checked; the handler does not go deaf; flow control holds back when full and only then; every valid request is answered and the PowerPC may send again, until as many invalid ones were sent as the buffer has places |
| `descriptors` | two threads of a program, the request handler, two devices, one descriptor per process, two pool messages, manager queues of 1 | the pool is accounted for on all paths and a message is in one place; calls are answered once; descriptors and requests name open handles |
| `heaps` | three regions of 0x140, 0x40 and 0x20 bytes for two heaps of two processes; requests of 0x10 bytes aligned to 0x20 and of 0x20 aligned to 0x40, up to five pieces held and three free blocks | pieces are apart and aligned, blocks tile the heap, freed neighbours merge, up to the first call that goes by what another block or a stale link says |
| `timers` | three timers with delays of 0 to 3 ticks and a period of 3, stopped or destroyed, the handler up to 4 ticks late, an interval of 5 values | no timer comes early unless a stop moved it; the alarm is always in time for the first; what is due fires |
| `memory` | the kernel's and the modules' sections in megabytes of 32 pages, three threads (the kernel and two of processes), one launch | pointers are judged and translated page by page as the sections say; processes have the registers they were given; a program runs with the access of its process |
| `keys` | two processes, two created keys of 0 to 3 data entries, room for 3; the NAND generation near the end of its range (bytes of 2 values) | entries in use are exactly the chains of keys in use; the generation advances by one, never goes back and can be read, whenever a write fails or the power goes; its readers see no value that is not in the SEEPROM |
| `engines` | three threads with 2, 1 and 2 calls in three sets of programs (MACs and hashes; a hash and verifications; ciphers and copies), data of 0, 2 and 4 units and custom data of 3, blocks of 3 units, any eviction, one failure, one key made anew | vectors are freed once by whoever must; hashes and MACs are the standard's and with the caller's key, whoever else used the engine in between; ciphers reach the buffer their caller sees and give the next vector; no request is forgotten |
| `ohci` | two ports, each with or without a device at the start; two requests of any kind; a device queue of 2; 2 looks of a reset; 2 events of the hub or the controller besides the ends of resets | no change of a port is lost, and main comes to look at each; every request is answered but a removal hook |
| `boot2_counters` | bytes of 4 values | the disagreement below |

The instances are small but every interesting case happens in them, which the
mutants confirm: rings wrap (size 2), senders and receivers both block, three
priorities suffice for one thread to be woken while another preempts it, the
reply buffer fills and wraps, a relaunch and a request coincide, the message
pool and the limit of a thread both run out, freed blocks merge on both sides,
intervals wrap, coarse tables are shared by sections of two domains, a hash
stretches over two blocks or ends in one that holds only the length.

Bounds and what they leave out:

* `timers`: while interrupts are disabled at most one tick passes between two
  looks at the clock, and the handler is at most `MaxLag` ticks behind. A period
  of one or two ticks is left out: the handler would never catch up. A periodic
  timer late by exactly its period wraps around (`NextTurn`); with `Word = 5`
  it still fires within the run. A delay of one microsecond is no tick and is
  never queued, as in the code.
* `memory`: a megabyte has 256 pages in the device; MEM1 and MEM2 are two
  megabytes here. One image of the modules is as built, one has a segment in the
  way of the kernel, which is refused and panics. Ranges of size zero and ranges
  that wrap are left out. `PointersAreJudged` looks once, when the last segment
  has been mapped; afterwards only the entry of the registers changes, which
  `RegistersAreApart` and `AccessIsOwn` watch.
* `engines`: the queues of the devices (8 and 16 places) never fill with three
  threads. Hashes and ciphers at once have too many states: the two engines share
  only the kernel heap and the token, which each set of programs uses as the
  others do. What is verified (`Verified`) has any of the lengths; in the code it
  has three. Vectors with a wrong length and requests that are refused before
  they reach an engine leave nothing behind and have no action. Liveness is
  stated as the safety property `NothingStuck`: a request that is not answered
  has a thread that can run or an engine at work.
* `ohci`: `MaxEvents` bounds what plugs, pulls and other interrupts there are.
  The ends of resets are not bounded: they go on for ever (section 4), and
  liveness is checked against them. With `Slots = 2` the queue is full with one
  request and one report. A client sends a request for a device only after an
  open was answered. `CHECK_DEADLOCK FALSE`: a module that ended at start-up
  stops, as does one with no more events.
* `requests`: as many requests are invalid as the buffer has places, which is
  where flow control breaks down (section 4); `Served` says what holds up to
  there. `CHECK_DEADLOCK FALSE`: after it, the PowerPC waits for ever.
* `heaps`: regions end where the next begins, so that a piece too long would
  be seen. `CHECK_DEADLOCK FALSE`: the model stops when `astray` is set.

## 4. Where code and intention disagree

Found while modelling; the model follows the code. The first is kept as a run
that TLC shows violated; of the others the row says where the model shows it, rows
that name no definition are of code outside the model.

| where | what happens |
|---|---|
| `k/crypto/seeprom.c:370` (run `boot2_counters`) | `SEEPROM_BOOT2_GetCounter` takes the address of `UpdateTag` for that of the counter; an update writes back shifted words, and the version next read is a byte of the old checksum. |
| `k/scheduler/threads.c:343` | A thread that cancels itself, as each thread does that returns from its main function (`threads_asm.s:27`), is searched on the scheduler's list, where a running thread is not; the search ends at NULL only and the sentinel is linked to itself by then. `lifecycle` reaches it: `status` becomes "hung". |
| `k/messaging/messageQueue.c:286` | `DestroyMessageQueue` pops waiters until it sees NULL; a list nobody waits on holds the sentinel, which popping pushes on the scheduler's list and links to itself. `o/oh1.c:595-599` goes on after such a call. `lifecycle` reaches it as well. |
| `k/scheduler/threads.c:401` | `JoinThread` waits on `JoinQueue`, which is always NULL (line 257): the joiner is on no list and is not resumed, although lines 348-353 mean to. `JoinersAreStranded` states it. |
| `k/memory/heaps.c:149` | `MallocateOnHeap` splits with the size and offset of the block its search saw last, not of the one it chose (comments at 127 and 148); with two free blocks apart a piece may overlap another. `Astray` names the calls that do, `HeldApart` and `Tiled` except what follows them. |
| `k/memory/heaps.c:163-172` | A block taken whole from the front of the list leaves the `PreviousBlock` of the next one as it was, and one split behind another that of the block after it. The next call that takes that block writes its successor to the header of a piece in use and leaves the list as it is: the same block is given out twice. Also part of `Astray`; freeing may mend the link before. |
| `k/messaging/ipc.c:226-228` | A request with an invalid address is counted as waiting and never counted down. As many as the buffer has places end all acknowledgements, and the PowerPC may never send again. `Served` excepts it. |
| `o/memory.c:52`, `70`, `81` | Descriptors are asked for with alignment 0x10, which `MallocateOnHeap` refuses (`heaps.c:111`): none is ever had. `SendControlMessageAsync` ends at `module.c:328`, each message to a device fails, and `GetAvailableDeviceIndex` (`module.c:200-218`) goes on with NULL and writes through it. With a device at start-up the module ends there, and the removal of one that came later finds no device, so a removal hook is kept and never answered. |
| `o/module.c:845` | The copy of a control message is not given back when sending it fails, as it always does, so the heap of the module runs out; the answer is the same error. |
| `o/oh1.c:390` | The condition code is read from `dw0` as the controller wrote it, in the other byte order than `module.c:234` and its neighbours take care of, so it would always be 0: a failed piece would count as done, lines 415-436 never run and the endpoint would stay halted. |
| `o/module.c:1097` | `CloseEndpoint` looks at the counter of a packet again after the worker may have answered and freed it. This and the row above are of transfers, which are never made (section 7). |
| `o/module.c:1035` | `HandleStatusChange` writes `PESC & CSC`, which is 0, to clear the change bits (comment at 1034), so they stay set: the port of a device is reset again whenever main looks, the end of the reset is the next change, and so on as long as the module runs. `Noticed` and `Answered` hold nevertheless. |
| `o/oh1.c:445-446` | What changed before the module serves is dropped, as the worker does not report it; `fresh` counts from then on. |
| `k/scheduler/threads.c:690` | `LaunchRM` skips the very segments it means to map (`continue` on PT_LOAD), so its mapping code is never reached; the thread it starts runs as process 0 until the launcher's process id is put back and keeps that access until it is dispatched next (`stale` in `Memory`). |
| `k/crypto/sha.c:85` | Init with less than a block is accepted and the bytes are dropped; the error of the last run of the engine is not looked at; both are exceptions in `DigestIsStandard`. |
| `k/crypto/iosc.c:285` | An asynchronous MAC passes the address of its parameter in a vector; the engine reads the stack of a call that has returned. `Signers` lets it find any key, and `told.sound` excepts it. |
| `k/crypto/iosc.c:183`, `293` | The engine frees vectors of asynchronous requests when all went well, not when they failed: they are lost (`lost` in `EngineRequests`). Commands of HMAC counted from 0, as the comment at 265 has it, end in EINVAL and free twice, which the token makes harmless. |
| `k/crypto/iosc.c:120` | `DispatchIoctlvAsync` returns with interrupts disabled when no message is free. |
| `o/module.c:884`, `173`, `694` | `ProcessInterruptBlockMessage` refuses exactly the well-formed number of vectors; `GetInterruptEndpointDescriptor` indexes one past a table of five; `InitialiseModule` writes the SKIP bits of every level to the first entries of the table (`index_in_level` for `index`). |
| `k/memory/memory.c:482-521` | The check of a pointer that will be written accepts pages that programs may only read. |

Small ones without a model: `SetThreadPriority` accepts the slot of a cancelled
thread and pushes the empty slot on the list it last waited on
(`threads.c:537`); ids of threads, queues, timers and heaps one past the end of
their table pass their checks (`>` for `>=`, for instance `threads.c:512`); a
queue can be used before it is created, by process 0 (`messageQueue.c:61`); an
open with no descriptor left forgets the handle (`calls_inner.c:169`);
`resourceManager.c:33` divides before it tests for zero; without OTP the getter
of one boot2 counter returns the value of another (`iosc.c:457`); the seed of
the SEEPROM is two words without a checksum (`seeprom.c:332`) and is stored but
never read; `oh1.c:487` starts a timer with delay 0, which never fires.

### What the workloads leave out, and why

* `lifecycle` does not change priorities (see `threads.c:537` above).
* In `Kernel` a crypto call whose begin failed does not go on; the code would give
  back a token it never had (`k/crypto/iosc.c:599-602`). Begin fails only when the
  token's queue is destroyed or its owner changed, which no workload does.
* `heaps` goes on up to the first call that sets `astray`, and not beyond.
  The kernel does come to such calls: an asynchronous crypto request leaves its
  vectors on the heap until the engine frees them, or for good when it failed
  (`k/crypto/iosc.c:183`, `293`), so other calls allocate with free blocks apart.
  The header at address NULL reads as zero, as the low memory of the device does
  there.
* `descriptors` lets no program close a descriptor under a call of another
  thread on it (`Undisturbed`). Otherwise the second of two closes may clear a
  slot that was opened again in between. Queues of resource managers are never
  destroyed, and the queue for replies has room for all the messages a program
  passes.
* `keys` uses the NAND counter. The memory ahead of the table of entries reads as
  zero (`Ahead = 0`): when not one entry is free, the rollback reads its first
  link there. With `Ahead = 1` the run fails, as an entry of a key in use is
  cleared. A created key keeps the metadata of the last key of its slot.
* `timers` does not restart a slot that is free, which process 0 may do.

## 5. Fairness

*Kernel* (`events`). The processor executes: an interrupt that is again and
again due, that is raised, enabled in the mask and interrupts are enabled, is
taken (strong fairness, as it may be due only between calls); and a thread that
keeps the CPU takes its next step (weak fairness). Both name the states in which
a step is due (`InterruptDue`, `Proceeds`) rather than use ENABLED. Nothing is
assumed about devices or about which call a program makes, and no fairness among
threads, as strict priorities give none.

*Ipc* (`requests`). The PowerPC reads its acknowledgements and replies and asks
for more; a raised interrupt is taken; the handler thread, whose priority only
threads that soon wait exceed, proceeds; each resource manager answers what it
holds. No request is forced. The interrupt line is level triggered: it stays
raised while a flag is set.

*Timers*. The clock ticks while interrupts are enabled, again and again (strong
fairness: calls do not take all of the time); a raised interrupt is taken; a call
that walks the list goes on; the handler, which has the highest priority of all,
receives its message and proceeds.

*Ohci*. Both threads proceed, and the kernel's timer fires, which is all that
main sleeps for. That the worker goes first is in the guard of main
(`WorkerBlocked`), and both are weakly fair. Nothing is assumed of the hub, of
the controller or of the clients: a reset need not end, and main gives up after
`Attempts` looks.

The other runs check safety only, under `Spec`.

## 6. What is proved

TLAPS checks the theorems below for every value of the constants that satisfies
the named assumptions of the modules (`ASSUME`s on sizes, ids and tables; TLC
evaluates them in the runs).

*Kernel_proofs.* `TypeCorrect`: all variables keep their types, for any number
of threads and queues and any workload. The hard part is the lists: `next`
fields and heads must stay in `Cell` through every splice, though the lists may
be tangled. There is a lemma per primitive of `ThreadQueue`, then one per
operator built from it, then one per call, and the step of the whole kernel is
a case for each call. `RingsStayInBounds`: `First` and `Used` of a created queue
stay within its ring; inductive together with the type, since only the two loops
of the queue calls, the interrupt handler and creation write them.

The other kernel theorems are about what the linked lists hold. `Reach(k, l)` is
the least set of cells with the head of `l` that is closed under `next`. That it
is least replaces induction over a walk: to show that all entries have a
property, show that those which have it contain the head and are closed. Each
primitive (push in order, pop, remove) has a lemma that gives the sets after it
from the sets before. `Settled` says that lists are
sorted, disjoint and end in one of the two terminators, and that a thread is on
the list its state says (`Placed`). It is not inductive for the whole kernel:
which list a thread that waits is on follows from the call that it is in
(`Accounts`), which queues have the sentinel on their lists follows from whether
they exist (`Queues`), and nobody waits in one that does not (`LiveWaits`).
Together that is `KInv`, and with the two phases of the start it is `IInv`:
`ListsStayWellFormed`. From it follow `SchedulerStaysAccounted`,
`HighestPriorityStaysRunning`, `WaitersStayListed` and `JoinersStayStranded`.
`TokenStaysOne` is a count: the token is in its queue, or one thread is between
`IoscBegin` and `IoscEnd`, and nobody is inside another call on that queue.
`WakeupsAreNotMissed` compares, for each side of each queue, the threads that
were woken and have not looked again with the messages (the free places) there
(`Balanced`): if somebody waits there are at least as many of the former. A
step may put one more message there only together with a wake-up, and take one
more thread from the woken ones only together with a message.
`RingsImplementMailboxes` shows each step to be one of `Mailbox` or a stutter:
sent is `Append`, jammed is a concatenation in front, received is `Tail`, and
the events of an interrupt are `Posted`, for which a walk over the devices is
shown to add one message a device at most. Its invariant is that rings are whole
(`RingsAreWhole`, `RingInBounds` also of queues that were destroyed).

These theorems are about the runs whose steps satisfy named conditions, without
which they are false, as the code does not check them:

* `BootsFirst`: `kernel_main` makes no other call before it has made the token's
  queue; `main.c` is such.
* `Proper`: no call blocks on a queue that does not exist and no priority is set
  of a slot without a live thread. Process 0 could do either
  (`messageQueue.c:61`, `threads.c:537`), and lists would be tangled.
* `LeavesToken` (for the token) and `NoTokenHandler` (for wake-ups): programs
  leave the kernel's queue alone. Its list of receivers ends in NULL where others
  end in the sentinel, and the interrupt handler, which looks one further, would
  not see the only waiter.
* `Undisturbed` (for wake-ups): no thread is suspended or cancelled by another
  inside a call on a queue. One that is suspended there, while a message comes,
  and started again waits beside the message; one that is cancelled after it was
  woken takes the wake-up with it.
* `Drained` (for the refinement): a queue is empty when it is destroyed. The
  number of its places is what says where a ring wraps, and it is set to 0.

Every step of `mail` satisfies them all (checked by TLC as action properties);
`lifecycle` goes beyond `Proper`, so that what it checks is not covered by the
theorems.

*Ipc_proofs.* The invariant is `IInv`: a request is in hand wherever the program
counter says so (`RequestInHand`), the register is free exactly as flow control
promises (`FlowControl`), the two indices of the buffer agree with its count
(`IndicesAgree`), what is in the buffer, served, queued and in hand together
never exceeds `waiting` (`Accounted`), and the enabled interrupt is a token that
is in one of four places (`OneInterrupt`). None of them is inductive alone: that
the unchecked posts have room follows from `Accounted` only because flow
control bounds `waiting`, and that the flags are true when the message of the
interrupt is read follows only from the token. From it: `TypeCorrect`,
`NeverOverrun` (neither buffer nor queue overflows), `HandlerHears`,
`FreshRequests` and `FlowControlled`. `AnsweredOnce` follows the one copy of a
request (`OneCopy`) from the register through the handler, the managers, the
handler's queue and the buffer to the PowerPC. The property counts places with
a sum; the proof says that the places are disjoint sets and that exactly one has
the request, and a step moves it, with the room that `IInv` gives, to the next.

*Filedesc_proofs.* For any threads, processes, devices, limits, and sizes of
tables, pool and queues. First where a message is: one in use waits for room, or
is in the queue of its device, or with the manager, or in the queue of its
thread, and in one of them only (`Located`, with what a blocked call and a
message must have in common, `Typed`). On it rest three theorems.
`PoolIsAccounted`: what the usage counters count is the set of pool messages in
use, split by threads. `HandlesAreOpen`: for each handle, the descriptor that
names it, the open that is about to be told of it and the requests on their way
exclude one another as far as they must (`HandleOwned`); this needs
`Undisturbed` (section 4), without which it is false. `AnsweredOnceHolds`: a
message that an asynchronous call passed is with one message of the pool, in one
blocked open or in one queue for replies, and in none after it was answered
(`Answers`, `AllCarried`). Its hypothesis is that the queue for replies has room
for all messages a program passes: `ResourceReply` posts without looking whether
the post failed, so with less room answers are lost. The instance satisfies it.

*Timers_proofs.* `TypeCorrect`: with the intervals never negative and no timer
twice on the list, for any slots, settings and lag. `WakesInTime`: whenever
interrupts are enabled the alarm comes in time for the first timer or its
interrupt is pending. `FiresInTime`: `NeverEarly`, where the turn of a timer is
the sum of the intervals up to it. The invariant adds what the walk promises
that looks for the place of a timer, with the clock going on meanwhile: the
intervals it has passed and the ticks that are left to place add up to the time
asked for (`WalkInTime`). `Turns` is a recursive function, and every action
changes an interval, inserts one or removes one, so the proofs compare two sums
that grow alike from some place on (`SumsGo`). That is an induction over the
list; the induction theorems of the library take an operator, so it is done with
the set of numbers for which the claim holds and the well-foundedness of the
naturals (`SetOfNaturals`).

*Iosc_proofs.* For the generation of the NAND (`Field = "gen"`), with bytes of
any size, any tables of keys and any number of keys that are made and deleted,
whatever write fails and whenever the power goes. The invariant says that there
is a number `n` such that one copy holds `n`, another `n - 1`, and the third
`n - 2` overwritten by the first `p` words of `n + 1` (`Copies`). The heart is
`HalfWritten`: three words that are part old and part new only pass the checksum
if they are all old or all new, because numbers that are 3 apart differ in both
sums; so a torn copy is never taken for the newest and is the next one to be
written. That needs an update to begin with the first word again and to write
the same number again, which is what `Writing` adds; and the value that programs
read is kept by the slot of the counter, which no new key may be given
(`CounterKey`, with the well-foundedness of the naturals for the search of a
free slot). `GenerationIsBacked`: a value that programs are told is in the
SEEPROM, which can be read. `GenerationImplementsCounter`: `Iosc` implements
`MonotonicCounter`, by the initial states and a step or a stutter for each step,
and the metadata never decrease. For the counters of boot2 the same statement is
false (section 4).

`KeysAreAccounted`: the data entries in use are those of the keys in use
(`PartsAccounted`). The invariant `Keyed` says of every slot that one of a preset
key stays in use, that a key with data has the first entry of a chain, whose
entries are in use, hold that key's data and are as many as its size takes, that
two such chains have no entry in common, and that there are no other entries in
use; a created key without data keeps the index -1. The model gives a chain by a
recursive function. The proof shows that function equal to the least set that
contains the entry and is closed under the links that lead upwards (`ChainIsUp`,
by well-founded descent from a smallest counterexample), which needs no
recursion to reason about: a chain depends on its own entries only (`SameUp`), so
what happens to one leaves the others. The search takes the `n` lowest free
entries; that they are `n`, and one chain from the lowest, is counted by ranks
(`LowestCount`, `LinkedChain`). Rollback and deletion clear a whole chain and
nothing else. `Ahead = 0` is assumed, as in the run: with another word ahead of
the table the statement is false (section 4). `Field = "gen"` is assumed because
the keyring takes its counter from the SEEPROM, and only the generation is
proved to be readable.

*Memory_proofs.* `RunsAsItself`: a program runs with the domains and the registers
of its own process (`AccessIsOwn`). Interrupts and messages open all domains, so
the property cannot be inductive as it stands; the invariant `IInv` says the same
of a thread inside a call (`OwnAccess`), which every way back to a program
restores. It rests on the entry of the registers being there and being the
kernel's own when the first module starts, which is a fact about the mapping
before: each map of `HWRegistersMemoryMaps` leaves a coarse table in that entry,
and no segment of a module touches it (`Stages`). `RegistersAreOwn`: what a
process sees at the registers is what its maps have put there
(`RegistersAreApart`). The entry of that megabyte is built for one process after
the other, so the invariant (`Tables`) follows the map at hand page by page: the
table under construction has its first `n` pages and no others (`Begun`), those
that are finished have their whole map and else only what programs cannot reach
(`Complete`), and no two entries share such a table (`Elsewhere`), so that what
is mapped later, the segments included, does not change it. Assumed of the
tables, and evaluated by the run for those of the code (`SectionsAssumption`,
`RegistersAssumption`): a map of registers is a part of one megabyte and not
empty, a process has one at most and the kernel has one, and neither a section of
the kernel nor a segment nor its uncached alias lies there.

*CryptoCalls_proofs.* For any messages, handles, buffers and numbers of calls,
with engines that fail whenever they like. `PiecesAreAccounted`: the property
is inductive with little more, namely that only the request that holds the token
has vectors to free synchronously and that one refused for its number of vectors
has none left (`RequestOK`); but it needs to know which requests are not answered
yet. Those are the ones in the queue of an engine and the one in its thread's
hands, each once (`Has`). `NothingIsStuck` needs the same and that a thread that
waits for its engine has set it going with its interrupt, or the event is there
(`ShaInterrupts`, `AesInterrupts`). `CiphersAreRight`: what the program sees of
the source of a waiting request is what it was made with; from the flush until
the engine is done the memory has it, and the destination is not in the cache
(`Working`); then memory has the result and so has the program until it takes it
(`AesRequestOK`). The engine has the key and the vector of the request that is
worked on, whoever used it before. What other requests do, and which lines the
cache drops, must not matter, and that is most of the proof.
`DigestsAreStandard`, for blocks, lengths and data of any size: `Digests` says
what the pieces come to. A context whose next answer must be right holds the
hash of the full blocks, and the length, of what its thread has said since Init
(`Holding`); what a waiting call was told fits that (`ToldOK`); the key of a
waiting MAC is still its caller's, because the call has the token or because the
thread of the engine takes it next (`KeyKept`). While that thread works, the
registers, the data left in the call and the calls that it still makes come to
the padded message (`Registers`, `Hashing`, `Verifying`), and a failure of the
engine ends all claims on the context. Two facts about the algorithm carry it:
cutting a message into full blocks and cutting it later give the same blocks,
and what the last calls append is the standard's padding, whether or not the
length fits the last block (`Digested`). Assumed (`ShaAssumption` and the
assumption on `Verified`): a command takes one block at least, the length is
shorter than a block, and what is verified fits one command, as the fixed sizes
0x400, 0x26c and 0xa0 do (`k/sha.c:443-475`).

*Ohci_proofs.* For any numbers of requests, ports, slots of the queue, attempts
and events. `NoChangeIsLost`: the news of a port are with the controller, with
the worker, on the device queue or before main, and in one of these places; the
worker clears a bit only after it found room for the report, and main, which
sleeps between the ports, has still to come to each one whose news it has not
seen. The invariant adds (`PlacesAgree`) that main holds a request only while it
closes the slot, so that any other sleep is one of the loop over the ports; that
it is at no place of the start-up once the module serves, and nothing is fresh
before; and that a worker that waits has no change in hand.

Only model-checked:

* liveness (`EventServed`, `Served`, `DueFires`, `Noticed`, `Answered`) and
  whatever rests on fairness or ENABLED, which the prover does not do;
* `Heaps`: its two properties are about blocks chained by headers that lie where
  earlier blocks were, for a search and a merge that the code gets wrong in
  general (section 4), so what is claimed is a fact about short runs from a heap
  just created;
* `PointersAreJudged`, which compares every pointer with every section of the
  tables at hand and is as much about their numbers as about the code.

## 7. Not modelled, and why

* SD host and card drivers (`k/sdhc.c`, `k/sdmmc.c`, derived from OpenBSD), FatFs
  (`k/ff.c`, vendored) and the NAND and boot2 code of mini: they poll registers on
  behalf of one caller at boot, and their state is the device's.
* PowerPC control and board support: sequences of register writes in straight
  line. The core library: formatting and string functions. Tools and ELF loaders
  run on the host or before the kernel. ES and FS answer nothing yet.
* Register sequences for caches, DDR and the AHB. What a cache does to data that
  an engine reads or writes is modelled (`CryptoCalls`), the flushing is not.
* The handlers of exceptions and the saving of registers: a thread's state is the
  continuation it has in the model.
* In Iosc: the zeroes of a key and the random seed of the SEEPROM, OTP and the
  dummy counters used without it. The wire protocol of the SEEPROM is modelled by
  what it does: a word is written as a whole, or is not acknowledged.
* In Kernel: how `LaunchRM` reads an ELF file (what it does to access rights is in
  `Memory`), and what follows the endless loop of `kernel_main`, such as
  `ipc_shutdown`.
* In Ohci: transfers (`o/module.c:225-289`, `333-420`, `434-536`,
  `o/oh1.c:364-442`) and what configures a device. They need descriptors that the
  module never has, so no state of the program is in them; a model of them would
  be one of another program, in which the allocation is repaired. Ports that are
  suspended.
* In Memory: the table of access rights for the PowerPC, which nothing fills.

## 8. Plan

* Heaps: an invariant of a heap with any number of free blocks up to `astray`,
  stated over the least set of blocks that the list reaches, as for the queues.
* `Ohci`: the transfers, once the module of the repository can allocate a
  descriptor.
* The handlers of `k/interrupt/irq.c` that belong to drivers, if those drivers
  come to have state shared with threads.
