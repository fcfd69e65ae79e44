--------------------------------- MODULE Memory ---------------------------------
(***************************************************************************)
(* The translation tables and who may use what: memory/memory.c, the start *)
(* of modules in main.c and LaunchRM, and the access that ScheduleYield,   *)
(* the queues and the interrupt handler set (threads.c, messageQueue.c,    *)
(* irq.c).  An address is the number of its page.                          *)
(***************************************************************************)
EXTENDS Integers, Sequences, FiniteSets

CONSTANTS
  Megabyte,      \* pages of a megabyte
  Addresses,     \* pages of the address space
  TableRoom,     \* the coarse tables that fit behind the translation table
  KernelMaps,    \* KernelMemoryMaps
  HardwareMaps,  \* HWRegistersMemoryMaps
  Registers,     \* the megabyte of the hardware registers
  Segments,      \* the segments of modules that may be in the kernel image
  Uncached,      \* the distance of MEM2_PHY2VIRT
  Pid, Thread, NULL,
  Probe,         \* bound: the pages and the sizes (in pages) the properties look at
  Sizes,
  Launched,      \* the process that LaunchRM starts
  MaxLaunches    \* bound: how often

ASSUME MemoryAssumption ==
  /\ Megabyte \in Nat \ {0} /\ Addresses % Megabyte = 0
  /\ 0 \in Pid /\ Launched \in Pid /\ Cardinality(Thread) >= 2

VARIABLES
  table,     \* MemoryTranslationTable, by megabyte; what is not in it is 0
  pages,     \* the coarse tables, by page
  registers, \* HardwareRegistersAccessTable
  dacr,      \* DomainAccessControlTable: the domains with client access
  stage,     \* what is mapped: "kernel", "registers", "segments", then "run"
  next,      \* the section of that stage that comes next
  work,      \* the section MapMemory works on: what is left of it
  segments,  \* those of this kernel image
  mapped     \* ghost: the sections that were mapped, in order

mapVars == <<table, pages, registers, dacr, stage, next, work, segments, mapped>>

VARIABLES
  pid,      \* Thread.ProcessId, or NULL
  uid,      \* ProcessUID
  gid,      \* ProcessGID
  current,  \* CurrentThread
  mode,     \* where each thread is: "user", "kernel", or "launch" in LaunchRM
  irq,      \* the interrupt handler runs
  access,   \* the domain access control register
  own,      \* the process id that LaunchRM puts back
  stale,    \* ghost: LaunchRM has put it back and not been dispatched since
  launches  \* bound: programs launched so far

runVars == <<pid, uid, gid, current, mode, irq, access, own, stale, launches>>
vars == <<mapVars, runVars>>

NOUSER == 1
ROUSER == 2
RWUSER == 3
Domain == 0 .. 15
Section(phys, virt, size, domain, rights) ==
  [phys |-> phys, virt |-> virt, size |-> size, domain |-> domain, rights |-> rights]

MB(page) == page \div Megabyte
Aligned(page) == page % Megabyte = 0
PagesOfMB(mb) == mb * Megabyte .. (mb + 1) * Megabyte - 1
Entry(mb) == IF mb \in DOMAIN table THEN table[mb] ELSE NULL
PagesOf(s) == s.virt .. s.virt + s.size - 1

(* The registers of a process are a part of their megabyte, and nothing of *)
(* a module is there.                                                      *)
MemorySection == [phys : Nat, virt : Nat, size : Nat, domain : Domain, rights : Nat]
ProcessMemorySection == [pid : Pid, section : MemorySection]
ASSUME SectionsAssumption ==
  /\ NULL \notin Pid /\ Uncached \in Nat
  /\ HardwareMaps \in Seq(ProcessMemorySection) /\ HardwareMaps # << >>
  /\ \A i \in DOMAIN HardwareMaps :
       /\ HardwareMaps[i].section.size \in 1 .. Megabyte - 1
       /\ \A v \in PagesOf(HardwareMaps[i].section) : MB(v) = Registers
  /\ \A image \in Segments :
       /\ image \in Seq(MemorySection) /\ image # << >>
       /\ \A i \in DOMAIN image : \A v \in PagesOf(image[i]) :
            MB(v) # Registers /\ MB(v + Uncached) # Registers

(* Each process has one part at most, and programs may not use that of     *)
(* process 0; the kernel maps nothing else there.                          *)
CourseEntry == [type : {"course"}, number : 1 .. TableRoom, domain : Domain]
ASSUME RegistersAssumption ==
  /\ Registers \in Nat /\ TableRoom \in Nat /\ Probe \subseteq Nat
  /\ KernelMaps \in Seq(MemorySection) /\ KernelMaps # << >>
  /\ \A i \in DOMAIN KernelMaps : \A v \in PagesOf(KernelMaps[i]) : MB(v) # Registers
  /\ \A i, j \in DOMAIN HardwareMaps : HardwareMaps[i].pid = HardwareMaps[j].pid => i = j
  /\ \E i \in DOMAIN HardwareMaps : /\ HardwareMaps[i].pid = 0
                                   /\ HardwareMaps[i].section.rights = NOUSER
  /\ Pid \cap {4, 5} # {} => 6 \in Pid
  /\ NULL \notin CourseEntry

(* InitializeThreadContext                                                 *)
OwnIds == [p \in Pid |-> p]

Init ==
  /\ table = << >> /\ pages = << >>
  /\ registers = [p \in Pid |-> NULL]
  /\ dacr = [p \in Pid |-> {}]
  /\ stage = "kernel" /\ next = 1
  /\ work = KernelMaps[1]
  /\ segments \in Segments
  /\ mapped = << >>
  /\ \E t \in Thread : current = t /\ pid = [u \in Thread |-> IF u = t THEN 0 ELSE NULL]
  /\ uid = OwnIds /\ gid = OwnIds
  /\ mode = [t \in Thread |-> "kernel"]
  /\ irq = FALSE
  /\ access = Domain
  /\ own = [t \in Thread |-> NULL]
  /\ stale = {}
  /\ launches = 0

-----------------------------------------------------------------------------
(* MapMemory, one turn of its loop: a whole megabyte as a section, other-  *)
(* wise one page of a coarse table.                                        *)

AsSection == Aligned(work.virt) /\ Aligned(work.phys) /\ work.size >= Megabyte
Entered(mb, entry) == [m \in DOMAIN table \cup {mb} |-> IF m = mb THEN entry ELSE table[m]]
Rest(n) == Section(work.phys + n, work.virt + n, work.size - n, work.domain, work.rights)

MapMemoryAsSection ==
  /\ AsSection
  /\ table' = Entered(MB(work.virt), [type |-> "section", base |-> work.phys,
                                       domain |-> work.domain, rights |-> work.rights])
  /\ work' = Rest(Megabyte)
  /\ UNCHANGED <<pages, stage>>

Over(f, g) == [v \in DOMAIN f \cup DOMAIN g |-> IF v \in DOMAIN f THEN f[v] ELSE g[v]]

(* _kmallocMemorySection, of the coarse tables only                        *)
TableFits == Len(pages) # TableRoom

(* A coarse table keeps the domain it was made with.                       *)
MapMemoryAsCoursePage ==
  LET entry == Entry(MB(work.virt))
      page == [v \in {work.virt} |-> [base |-> work.phys, rights |-> work.rights]]
      number == IF entry = NULL THEN Len(pages) + 1 ELSE entry.number
      Refused == IF entry = NULL THEN ~ TableFits
                 ELSE entry.type = "section" \/ work.virt \in DOMAIN pages[number]
  IN /\ ~ AsSection
     /\ IF Refused
        THEN stage' = "failed" /\ UNCHANGED <<table, pages, work>>
        ELSE /\ table' = IF entry # NULL THEN table
                         ELSE Entered(MB(work.virt), [type |-> "course", number |-> number,
                                                       domain |-> work.domain])
             /\ pages' = IF entry = NULL THEN Append(pages, page)
                         ELSE [pages EXCEPT ![number] = Over(page, @)]
             /\ work' = Rest(1)
             /\ UNCHANGED stage

MapMemory ==
  /\ stage \in {"kernel", "registers", "segments"} /\ work.size > 0
  /\ MapMemoryAsSection \/ MapMemoryAsCoursePage
  /\ UNCHANGED <<registers, dacr, next, segments, mapped, runVars>>

-----------------------------------------------------------------------------
(* InitializeMemory: the kernel, then the registers.                       *)
KernelMapped ==
  /\ stage = "kernel" /\ work.size = 0
  /\ mapped' = Append(mapped, KernelMaps[next])
  /\ IF next < Len(KernelMaps)
     THEN next' = next + 1 /\ work' = KernelMaps[next + 1] /\ UNCHANGED stage
     ELSE next' = 1 /\ work' = HardwareMaps[1].section /\ stage' = "registers"
  /\ UNCHANGED <<table, pages, registers, dacr, segments, runVars>>

(* The domains a process is a client of                                    *)
Clients(p) ==
  IF p = 0 THEN Domain
  ELSE IF p = 15 THEN {8}
  ELSE {8, 15} \cup (IF p \in {1, 2, 3, 7, 14} THEN {p} ELSE {}) \cup (IF p = 19 THEN {9} ELSE {})

(* MapHardwareRegisters: the coarse table that the map of a process left   *)
(* in the entry of the registers becomes its own, with the gaps filled in  *)
(* for the kernel only.  Processes without a table get one of another.     *)
\* mutant: the gaps have the rights of the mirror on the other bus
FilledReadable(number) ==
  [pages EXCEPT ![number] = Over(@, [v \in PagesOfMB(Registers) |-> [base |-> v, rights |-> ROUSER]])]
Filled(number) ==
  [pages EXCEPT ![number] = Over(@, [v \in PagesOfMB(Registers) |-> [base |-> v, rights |-> NOUSER]])]
Defaults(tables) ==
  LET gaps == [p \in Pid |-> IF p \in {4, 5} THEN tables[6] ELSE tables[p]]
  IN [p \in Pid |-> IF gaps[p] = NULL THEN gaps[0] ELSE gaps[p]]

RegistersMapped ==
  LET entry == Entry(Registers)
      p == HardwareMaps[next].pid
      tables == [registers EXCEPT ![p] = entry]
  IN /\ stage = "registers" /\ work.size = 0
     /\ pages' = Filled(entry.number)
     /\ IF next < Len(HardwareMaps)
        THEN /\ registers' = tables
             /\ table' = [mb \in DOMAIN table \ {Registers} |-> table[mb]]
             /\ next' = next + 1 /\ work' = HardwareMaps[next + 1].section
             /\ UNCHANGED <<dacr, stage>>
        ELSE /\ registers' = Defaults(tables)
             /\ table' = [table EXCEPT ![Registers] = Defaults(tables)[0]]
             /\ dacr' = [q \in Pid |-> Clients(q)]
             /\ next' = 1 /\ work' = segments[1] /\ stage' = "segments"
     /\ UNCHANGED <<segments, mapped, runVars>>

(* The kernel thread of main.c: each segment, and once more uncached.      *)
Alias(s) == [s EXCEPT !.virt = @ + Uncached]
SegmentMapped ==
  /\ stage = "segments" /\ work.size = 0
  /\ IF Len(mapped) < Len(KernelMaps) + 2 * next - 1
     THEN /\ mapped' = Append(mapped, segments[next])
          /\ work' = Alias(segments[next])
          /\ UNCHANGED <<next, stage>>
     ELSE /\ mapped' = Append(mapped, Alias(segments[next]))
          /\ IF next < Len(segments)
             THEN next' = next + 1 /\ work' = segments[next + 1] /\ UNCHANGED stage
             ELSE stage' = "run" /\ UNCHANGED <<next, work>>
  /\ UNCHANGED <<table, pages, registers, dacr, segments, runVars>>

-----------------------------------------------------------------------------
(* VirtualToPhysical, with SRAM where the other processor sees it          *)
Mirrored(physical) ==
  IF physical < Addresses - 32 THEN physical
  ELSE (physical + 212 * Megabyte + (IF physical < Addresses - 16 THEN 48 ELSE 16)) % Addresses
VirtualToPhysical(v) ==
  LET entry == Entry(MB(v))
  IN Mirrored(IF entry = NULL THEN 0
              ELSE IF entry.type = "section" THEN entry.base + (v % Megabyte)
              ELSE IF v \in DOMAIN pages[entry.number] THEN pages[entry.number][v].base ELSE 0)

(* CheckMemoryBlock.  What may be read passes as what may be written.      *)
BlockSize(v) == IF Entry(MB(v)).type = "section" THEN Megabyte ELSE 1
CheckMemoryBlock(v, p, q) ==
  LET entry == Entry(MB(v))
      rights == IF entry.type = "section" THEN entry.rights ELSE pages[entry.number][v].rights
  IN /\ entry # NULL
     /\ entry.type = "course" => v \in DOMAIN pages[entry.number]
     /\ entry.domain \in dacr[p] \cap dacr[q]
     /\ rights >= ROUSER

(* CheckMemoryPointer: block after block, each from its start.             *)
\* mutant: the next block is looked at as far in as the first one
NextBlockUnaligned(v) == v + BlockSize(v)
NextBlock(v) == v + BlockSize(v) - (v % BlockSize(v))
CheckMemoryPointer(start, size, p, q) ==
  LET good[v \in start .. start + size - 1] ==
        CheckMemoryBlock(v, p, q) /\ (NextBlock(v) < start + size => good[NextBlock(v)])
  IN p = 0 \/ size = 0 \/ good[start]

-----------------------------------------------------------------------------
(* A thread of the kernel starts the modules: a thread for each process.   *)
Created(t, p) == pid[t] = NULL /\ pid' = [pid EXCEPT ![t] = p]

Running == stage = "run" /\ UNCHANGED mapVars
StartModule ==
  /\ Running /\ ~ irq /\ mode[current] = "kernel" /\ pid[current] = 0
  /\ \E t \in Thread, i \in DOMAIN segments :
       /\ segments[i].domain \in Pid
       /\ Created(t, segments[i].domain)
       /\ mode' = [mode EXCEPT ![t] = "user"]
  /\ UNCHANGED <<uid, gid, current, irq, access, own, stale, launches>>

(* ScheduleYield: the access is that of the thread's process.              *)
\* mutant: the table of the registers stays
DispatchedOnly(t) == access' = dacr[pid[t]] /\ table' = table
Dispatched(t) == access' = dacr[pid[t]] /\ table' = [table EXCEPT ![Registers] = registers[pid[t]]]
ScheduleYield ==
  /\ stage = "run"
  /\ irq \/ mode[current] # "user"
  /\ \E t \in Thread :
       /\ pid[t] # NULL
       /\ current' = t
       /\ Dispatched(t)
       /\ stale' = stale \ {t}
  /\ irq' = FALSE
  /\ UNCHANGED <<pages, registers, dacr, stage, next, work, segments, mapped,
                 pid, uid, gid, mode, own, launches>>

(* A program calls the kernel, and goes on.                                *)
Svc ==
  /\ Running /\ ~ irq /\ mode[current] = "user"
  /\ mode' = [mode EXCEPT ![current] = "kernel"]
  /\ UNCHANGED <<pid, uid, gid, current, irq, access, own, stale, launches>>
SvcReturns ==
  /\ Running /\ ~ irq /\ mode[current] = "kernel"
  /\ mode' = [mode EXCEPT ![current] = "user"]
  /\ UNCHANGED <<pid, uid, gid, current, irq, access, own, stale, launches>>

(* IrqHandler opens every domain, and leaves by ScheduleYield.  Calls are  *)
(* interrupted like programs.                                              *)
IrqHandler ==
  /\ Running /\ ~ irq
  /\ irq' = TRUE /\ access' = Domain
  /\ UNCHANGED <<pid, uid, gid, current, mode, own, stale, launches>>

(* JamMessage and SendMessage write the message with every domain open;    *)
(* then the access is that of the current thread.                          *)
SendMessage ==
  /\ Running /\ ~ irq /\ mode[current] = "kernel"
  /\ access' = dacr[pid[current]]
  /\ UNCHANGED <<pid, uid, gid, current, mode, irq, own, stale, launches>>

(* SetUID, for the kernel and process 1                                    *)
SetUID ==
  /\ Running /\ ~ irq /\ mode[current] = "kernel" /\ pid[current] < 2
  /\ \E p \in Pid : uid[p] # 0 /\ p < 3 /\ uid' = [uid EXCEPT ![p] = 0]
  /\ UNCHANGED <<pid, gid, current, mode, irq, access, own, stale, launches>>
(* SetGID, for the same; nothing looks at it.  Bound: process 1            *)
SetGID ==
  /\ Running /\ ~ irq /\ mode[current] = "kernel" /\ pid[current] < 2
  /\ \E p \in Pid : gid[p] # 0 /\ p < 2 /\ gid' = [gid EXCEPT ![p] = 0]
  /\ UNCHANGED <<pid, uid, current, mode, irq, access, own, stale, launches>>

(* CreateThread, and StartThread as process 0                              *)
Started(t) ==
  /\ pid[t] = NULL
  /\ pid' = [pid EXCEPT ![t] = Launched, ![current] = 0]
  /\ mode' = [mode EXCEPT ![t] = "user", ![current] = "launch"]
(* LaunchRM maps nothing: only what is not PT_LOAD gets that far, and is   *)
(* let go for not being PT_LOAD.  It starts a thread as process 0, which   *)
(* may run before the process id is put back.                              *)
LaunchRM ==
  /\ Running /\ ~ irq /\ mode[current] = "kernel" /\ uid[pid[current]] = 0
  /\ launches < MaxLaunches
  /\ launches' = launches + 1
  /\ \E t \in Thread : Started(t)
  /\ own' = [own EXCEPT ![current] = pid[current]]
  /\ UNCHANGED <<uid, gid, current, irq, access, stale>>
LaunchEnds ==
  /\ Running /\ ~ irq /\ mode[current] = "launch"
  /\ pid' = [pid EXCEPT ![current] = own[current]]
  /\ mode' = [mode EXCEPT ![current] = "kernel"]
  /\ own' = [own EXCEPT ![current] = NULL]
  /\ stale' = IF access = dacr[own[current]] /\ table[Registers] = registers[own[current]]
              THEN stale ELSE stale \cup {current}
  /\ UNCHANGED <<uid, gid, current, irq, access, launches>>

Next ==
  \/ MapMemory \/ KernelMapped \/ RegistersMapped \/ SegmentMapped
  \/ StartModule \/ ScheduleYield \/ Svc \/ SvcReturns \/ IrqHandler \/ SendMessage
  \/ SetUID \/ SetGID \/ LaunchRM \/ LaunchEnds
Spec == Init /\ [][Next]_vars
-----------------------------------------------------------------------------
(* A pointer that a program hands to the kernel is accepted exactly if     *)
(* every page of the range is part of a section that was mapped for        *)
(* programs, in a domain both processes are clients of; and what is handed *)
(* to a device is the page that was mapped last there.  The domain is that *)
(* of the first section in the megabyte: MapMemoryAsCoursePage keeps it.   *)
(* CheckMemoryPointer looks at a table it walks in steps of two sizes, and *)
(* the sections share coarse tables.  (The tables are looked at when       *)
(* the last segment has been mapped; later only the entry of the registers *)
(* changes.)                                                               *)
Outside == {v \in Probe : MB(v) # Registers}
Covering(v) == {i \in DOMAIN mapped : v \in PagesOf(mapped[i])}
Last(v) == mapped[CHOOSE i \in Covering(v) : \A j \in Covering(v) : j <= i]
Sharing(mb) == {i \in DOMAIN mapped : mb \in {MB(v) : v \in PagesOf(mapped[i])}}
First(mb) == mapped[CHOOSE i \in Sharing(mb) : \A j \in Sharing(mb) : i <= j]
Usable(v, p, q) ==
  /\ Covering(v) # {}
  /\ Last(v).rights >= ROUSER
  /\ First(MB(v)).domain \in Clients(p) \cap Clients(q)
Judged ==
  /\ \A v \in Outside :
       VirtualToPhysical(v) = IF Covering(v) = {} THEN 0
                              ELSE Mirrored(Last(v).phys + v - Last(v).virt)
  /\ \A v \in Outside, n \in Sizes, p \in Pid \ {0}, q \in Pid :
       v + n <= Addresses =>
         (CheckMemoryPointer(v, n, p, q) <=> \A u \in v .. v + n - 1 : Usable(u, p, q))
PointersAreJudged == [][stage # "run" /\ stage' = "run" => Judged']_vars

(* A process uses those registers that HWRegistersMemoryMaps gives it (4   *)
(* and 5 those of 6), where they are, and no others, whatever tables were  *)
(* made before and after its own out of the same entry.                    *)
Holder(p) == IF p \in {4, 5} THEN 6 ELSE p
RegistersAreApart ==
  stage = "run" =>
    \A p \in Pid, v \in {u \in Probe : MB(u) = Registers} :
      LET given == {i \in DOMAIN HardwareMaps : /\ HardwareMaps[i].pid = Holder(p)
                                                /\ v \in PagesOf(HardwareMaps[i].section)}
          page == pages[registers[p].number][v]
      IN IF given = {} THEN page.rights = NOUSER
         ELSE \A i \in given :
                /\ page.rights = HardwareMaps[i].section.rights
                /\ page.base = HardwareMaps[i].section.phys + v - HardwareMaps[i].section.virt

(* While a program runs, the processor's domains and the table of the      *)
(* registers are those of its process, whatever interrupt, message or      *)
(* switch of threads came before.  LaunchRM is the exception: the thread   *)
(* that it lets run as process 0 keeps that access until it is next        *)
(* dispatched.                                                             *)
AccessIsOwn ==
  stage = "run" /\ ~ irq /\ mode[current] = "user" /\ current \notin stale =>
    /\ access = dacr[pid[current]]
    /\ table[Registers] = registers[pid[current]]
=============================================================================
