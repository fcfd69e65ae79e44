------------------------------ MODULE Memory_proofs ------------------------------
(***************************************************************************)
(* Proofs about memory access, for any sections, processes and threads.    *)
(***************************************************************************)
EXTENDS Memory, TLAPS

(* Until the modules run there is one thread, of process 0, and every      *)
(* domain is open.                                                         *)
Quiet == ~ irq /\ access = Domain /\ pid[current] = 0

(* A map of the registers has left its coarse table in their entry as soon *)
(* as one page of it is mapped; no segment of a module touches the entry.  *)
Stages ==
  /\ stage \in {"kernel", "registers", "segments", "run", "failed"}
  /\ stage # "run" => Quiet
  /\ stage = "registers" =>
       /\ next \in DOMAIN HardwareMaps /\ work \in MemorySection
       /\ work.size < Megabyte
       /\ \A v \in PagesOf(work) : MB(v) = Registers
       /\ work.size = 0 => Registers \in DOMAIN table
  /\ stage = "segments" =>
       /\ next \in Nat \ {0} /\ next <= Len(segments) /\ work \in MemorySection
       /\ \A v \in PagesOf(work) : MB(v) # Registers
       /\ dacr[0] = Domain /\ table[Registers] = registers[0]
  /\ stage \in {"segments", "run"} => Registers \in DOMAIN table

(* In a call as well as in a program, but not while LaunchRM poses as      *)
(* process 0.                                                              *)
OwnAccess ==
  stage = "run" /\ ~ irq /\ current \notin stale /\ mode[current] # "launch" =>
    access = dacr[pid[current]] /\ table[Registers] = registers[pid[current]]

Typed ==
  /\ segments \in Segments
  /\ current \in Thread
  /\ pid \in [Thread -> Pid \cup {NULL}]
  /\ own \in [Thread -> Pid \cup {NULL}]
  /\ mode \in [Thread -> {"user", "kernel", "launch"}]

IInv == Typed /\ Stages /\ OwnAccess

-----------------------------------------------------------------------------
LEMMA Begins == Init => IInv
<1> SUFFICES ASSUME Init PROVE IInv
  OBVIOUS
<1>1. Typed
  BY MemoryAssumption DEF Init, Typed
<1>2. Stages /\ OwnAccess
  BY DEF Init, Stages, Quiet, OwnAccess
<1> QED  BY <1>1, <1>2 DEF IInv

(* The pages that are left of a section are pages of it.                   *)
LEMMA Remaining ==
  ASSUME work \in MemorySection, NEW n \in Nat, n <= work.size
  PROVE  /\ Rest(n) \in MemorySection
         /\ Rest(n).size = work.size - n
         /\ PagesOf(Rest(n)) \subseteq PagesOf(work)
<1>1. /\ work = [ phys |-> work.phys, virt |-> work.virt, size |-> work.size,
                  domain |-> work.domain, rights |-> work.rights ]
      /\ work.phys \in Nat /\ work.virt \in Nat /\ work.size \in Nat
      /\ work.domain \in Domain /\ work.rights \in Nat
  BY DEF MemorySection
<1>2. Rest(n) = [ phys |-> work.phys + n, virt |-> work.virt + n, size |-> work.size - n,
                  domain |-> work.domain, rights |-> work.rights ]
  BY DEF Rest, Section
<1>3. work.size - n \in Nat
  BY <1>1
<1>4. Rest(n) \in MemorySection
  BY <1>1, <1>2, <1>3 DEF MemorySection
<1>5. PagesOf(Rest(n)) \subseteq PagesOf(work)
  BY <1>1, <1>2 DEF PagesOf
<1> QED  BY <1>2, <1>4, <1>5

(* A turn of MapMemory.                                                    *)
LEMMA MapMemoryStep ==
  ASSUME IInv, MapMemory
  PROVE  IInv'
<1>1. /\ stage \in {"kernel", "registers", "segments"}
      /\ stage' = stage \/ stage' = "failed"
      /\ UNCHANGED <<registers, dacr, next, segments, runVars>>
  BY DEF MapMemory, MapMemoryAsSection, MapMemoryAsCoursePage
<1>2. Typed' /\ Quiet' /\ OwnAccess'
  BY <1>1 DEF IInv, Typed, Stages, Quiet, OwnAccess, runVars
<1>3. ASSUME stage' = "registers"
      PROVE  /\ work' \in MemorySection /\ work'.size < Megabyte
             /\ \A v \in PagesOf(work)' : MB(v) = Registers
             /\ Registers \in DOMAIN table'
  <2>1. /\ work \in MemorySection /\ work.size < Megabyte /\ work.size > 0
        /\ \A v \in PagesOf(work) : MB(v) = Registers
    BY <1>1, <1>3 DEF IInv, Stages, MapMemory
  <2>2. work.virt \in PagesOf(work)
    BY <2>1 DEF PagesOf, MemorySection
  <2>3. MapMemoryAsCoursePage
    BY <2>1, MemoryAssumption DEF MapMemory, MapMemoryAsSection, AsSection, MemorySection
  <2>4. work' = Rest(1)
    BY <2>3, <1>1, <1>3 DEF MapMemoryAsCoursePage
  <2>5. Registers \in DOMAIN table'
    <3>1. MB(work.virt) = Registers
      BY <2>1, <2>2
    <3>2. CASE Entry(Registers) # NULL
      <4>1. Registers \in DOMAIN table
        BY <3>2 DEF Entry
      <4> QED  BY <4>1, <3>1, <3>2, <2>3, <1>3, <1>1 DEF MapMemoryAsCoursePage
    <3>3. CASE Entry(Registers) = NULL
      <4>1. \E d : table' = Entered(Registers, d)
        BY <3>1, <3>3, <2>3, <1>3, <1>1 DEF MapMemoryAsCoursePage
      <4> QED  BY <4>1 DEF Entered
    <3> QED  BY <3>2, <3>3
  <2>6. Rest(1) \in MemorySection /\ Rest(1).size < Megabyte /\ PagesOf(Rest(1)) \subseteq PagesOf(work)
    BY <2>1, Remaining, MemoryAssumption DEF MemorySection
  <2> QED  BY <2>1, <2>4, <2>5, <2>6 DEF PagesOf
<1>4. ASSUME stage' = "segments"
      PROVE  /\ work' \in MemorySection
             /\ \A v \in PagesOf(work)' : MB(v) # Registers
             /\ Registers \in DOMAIN table' /\ table'[Registers] = table[Registers]
  <2>1. /\ work \in MemorySection /\ work.size > 0
        /\ \A v \in PagesOf(work) : MB(v) # Registers
        /\ Registers \in DOMAIN table
    BY <1>1, <1>4 DEF IInv, Stages, MapMemory
  <2>2. work.virt \in PagesOf(work)
    BY <2>1 DEF PagesOf, MemorySection
  <2>3. MB(work.virt) # Registers
    BY <2>1, <2>2
  <2>4. /\ table' = table \/ \E d : table' = Entered(MB(work.virt), d)
        /\ \E n \in Nat : n <= work.size /\ work' = Rest(n)
    <3>1. CASE MapMemoryAsSection
      BY <3>1, <2>1, MemoryAssumption DEF MapMemoryAsSection, AsSection, MemorySection
    <3>2. CASE MapMemoryAsCoursePage
      BY <3>2, <2>1, <1>4, <1>1 DEF MapMemoryAsCoursePage, MemorySection
    <3> QED  BY <3>1, <3>2 DEF MapMemory
  <2>5. Registers \in DOMAIN table' /\ table'[Registers] = table[Registers]
    BY <2>1, <2>3, <2>4 DEF Entered
  <2>6. PICK n \in Nat : n <= work.size /\ work' = Rest(n)
    BY <2>4
  <2>7. Rest(n) \in MemorySection /\ PagesOf(Rest(n)) \subseteq PagesOf(work)
    BY <2>1, <2>6, Remaining
  <2> QED  BY <2>1, <2>5, <2>6, <2>7 DEF PagesOf
<1>5. Stages'
  BY <1>1, <1>2, <1>3, <1>4 DEF IInv, Stages
<1> QED  BY <1>2, <1>5 DEF IInv

-----------------------------------------------------------------------------
(* The steps from one section to the next.                                 *)
LEMMA FirstMap ==
  ASSUME NEW i \in DOMAIN HardwareMaps
  PROVE  LET s == HardwareMaps[i].section
         IN /\ s \in MemorySection /\ s.size < Megabyte /\ s.size # 0
            /\ \A v \in PagesOf(s) : MB(v) = Registers
<1>0. HardwareMaps \in Seq(ProcessMemorySection)
  BY SectionsAssumption
<1>1. HardwareMaps[i] \in ProcessMemorySection
  BY <1>0
<1>2. HardwareMaps[i].section \in MemorySection
  BY <1>1 DEF ProcessMemorySection
<1>3. HardwareMaps[i].section.size \in 1 .. Megabyte - 1
  BY SectionsAssumption
<1>4. \A v \in PagesOf(HardwareMaps[i].section) : MB(v) = Registers
  BY SectionsAssumption
<1> QED  BY <1>2, <1>3, <1>4, MemoryAssumption

LEMMA Images ==
  ASSUME NEW image \in Segments, NEW i \in DOMAIN image
  PROVE  /\ image[i] \in MemorySection /\ Alias(image[i]) \in MemorySection
         /\ \A v \in PagesOf(image[i]) : MB(v) # Registers
         /\ \A v \in PagesOf(Alias(image[i])) : MB(v) # Registers
<1>0. image \in Seq(MemorySection)
  BY SectionsAssumption
<1>1. image[i] \in MemorySection
  BY <1>0
<1>2. /\ Alias(image[i]) \in MemorySection
      /\ Alias(image[i]).virt = image[i].virt + Uncached
      /\ Alias(image[i]).size = image[i].size
  <2>1. Uncached \in Nat
    BY SectionsAssumption
  <2> QED  BY <1>1, <2>1 DEF Alias, MemorySection
<1>3. \A v \in PagesOf(image[i]) : MB(v) # Registers /\ MB(v + Uncached) # Registers
  BY SectionsAssumption
<1>4. ASSUME NEW v \in PagesOf(Alias(image[i])) PROVE MB(v) # Registers
  <2>1. v - Uncached \in PagesOf(image[i]) /\ (v - Uncached) + Uncached = v
    <3>1. Uncached \in Nat
      BY SectionsAssumption
    <3>2. image[i].virt \in Nat /\ image[i].size \in Nat
      BY <1>1 DEF MemorySection
    <3> QED  BY <1>2, <3>1, <3>2 DEF PagesOf
  <2> QED  BY <2>1, <1>3
<1> QED  BY <1>1, <1>2, <1>3, <1>4

LEMMA KernelMappedStep ==
  ASSUME IInv, KernelMapped
  PROVE  IInv'
<1>1. /\ stage = "kernel" /\ stage' \in {"kernel", "registers"}
      /\ UNCHANGED <<table, registers, dacr, segments, runVars>>
      /\ stage' = "registers" => next' = 1 /\ work' = HardwareMaps[1].section
  BY DEF KernelMapped
<1>2. Typed' /\ Quiet' /\ OwnAccess'
  BY <1>1 DEF IInv, Typed, Stages, Quiet, OwnAccess, runVars
<1>3. 1 \in DOMAIN HardwareMaps
  BY SectionsAssumption
<1>4. stage' = "registers" => /\ next' \in DOMAIN HardwareMaps
                              /\ work' \in MemorySection /\ work'.size < Megabyte /\ work'.size # 0
                              /\ \A v \in PagesOf(work') : MB(v) = Registers
  BY <1>1, <1>3, FirstMap
<1>5. Stages'
  BY <1>1, <1>2, <1>4 DEF Stages, PagesOf
<1> QED  BY <1>2, <1>5 DEF IInv

(* When the last map is done the kernel has its own table and is a client  *)
(* of all domains.                                                         *)
LEMMA RegistersMappedStep ==
  ASSUME IInv, RegistersMapped
  PROVE  IInv'
<1>1. /\ stage = "registers" /\ work.size = 0 /\ stage' \in {"registers", "segments"}
      /\ UNCHANGED <<segments, runVars>>
  BY DEF RegistersMapped
<1>2. Typed' /\ Quiet' /\ OwnAccess'
  BY <1>1 DEF IInv, Typed, Stages, Quiet, OwnAccess, runVars
<1>3. next \in DOMAIN HardwareMaps /\ Registers \in DOMAIN table
  BY <1>1 DEF IInv, Stages
<1>4. CASE next < Len(HardwareMaps)
  <2>1. stage' = stage /\ next' = next + 1 /\ work' = HardwareMaps[next + 1].section
    BY <1>4 DEF RegistersMapped
  <2>2. next + 1 \in DOMAIN HardwareMaps
    BY <1>3, <1>4, SectionsAssumption
  <2>3. /\ work' \in MemorySection /\ work'.size < Megabyte /\ work'.size # 0
        /\ \A v \in PagesOf(work') : MB(v) = Registers
    BY <2>1, <2>2, FirstMap
  <2>4. Stages'
    BY <1>1, <1>2, <2>1, <2>2, <2>3 DEF Stages, PagesOf
  <2> QED  BY <1>2, <2>4 DEF IInv
<1>5. CASE ~ next < Len(HardwareMaps)
  <2> DEFINE tables == [registers EXCEPT ![HardwareMaps[next].pid] = Entry(Registers)]
  <2>1. /\ stage' = "segments" /\ next' = 1 /\ work' = segments[1]
        /\ registers' = Defaults(tables)
        /\ table' = [table EXCEPT ![Registers] = Defaults(tables)[0]]
        /\ dacr' = [q \in Pid |-> Clients(q)]
    BY <1>5 DEF RegistersMapped
  <2>2. dacr'[0] = Domain
    BY <2>1, MemoryAssumption DEF Clients
  <2> HIDE DEF tables
  <2>3. Registers \in DOMAIN table' /\ table'[Registers] = registers'[0]
    BY <2>1, <1>3
  <2>4. segments \in Segments /\ segments' = segments
    BY <1>1 DEF IInv, Typed
  <2>5. 1 \in DOMAIN segments /\ 1 <= Len(segments)
    BY <2>4, SectionsAssumption
  <2>6. work' \in MemorySection /\ \A v \in PagesOf(work') : MB(v) # Registers
    BY <2>1, <2>4, <2>5, Images
  <2>7. Stages'
    BY <1>2, <2>1, <2>2, <2>3, <2>4, <2>5, <2>6 DEF Stages, PagesOf
  <2> QED  BY <1>2, <2>7 DEF IInv
<1> QED  BY <1>4, <1>5

LEMMA SegmentMappedStep ==
  ASSUME IInv, SegmentMapped
  PROVE  IInv'
<1>1. /\ stage = "segments" /\ stage' \in {"segments", "run"}
      /\ UNCHANGED <<table, registers, dacr, segments, runVars>>
  BY DEF SegmentMapped
<1>2. /\ Typed' /\ Quiet' /\ Quiet /\ Registers \in DOMAIN table'
      /\ dacr'[0] = Domain /\ table'[Registers] = registers'[0]
  BY <1>1 DEF IInv, Typed, Stages, Quiet, runVars
<1>3. OwnAccess'
  BY <1>2 DEF OwnAccess, Quiet
<1>4. segments \in Segments /\ next \in Nat \ {0} /\ next <= Len(segments)
  BY <1>1 DEF IInv, Typed, Stages
<1>5. next \in DOMAIN segments /\ Len(segments) \in Nat
  BY <1>4, SectionsAssumption
<1>6. ASSUME stage' = "segments"
      PROVE  /\ next' \in Nat \ {0} /\ next' <= Len(segments)
             /\ work' \in MemorySection /\ \A v \in PagesOf(work') : MB(v) # Registers
  <2>1. CASE next' = next /\ work' = Alias(segments[next])
    BY <2>1, <1>4, <1>5, Images
  <2>2. CASE next < Len(segments) /\ next' = next + 1 /\ work' = segments[next + 1]
    <3>1. next + 1 \in DOMAIN segments /\ next + 1 <= Len(segments) /\ next + 1 \in Nat \ {0}
      BY <1>4, <1>5, <2>2, SectionsAssumption
    <3> QED  BY <3>1, <2>2, <1>4, Images
  <2> QED  BY <2>1, <2>2, <1>6 DEF SegmentMapped
<1>7. Stages'
  BY <1>1, <1>2, <1>6 DEF Stages, PagesOf
<1> QED  BY <1>2, <1>3, <1>7 DEF IInv

-----------------------------------------------------------------------------
(* Once the modules run only ScheduleYield changes the table.              *)
LEMMA RunStages ==
  ASSUME IInv, stage = "run", stage' = "run", DOMAIN table' = DOMAIN table
  PROVE  Stages'
BY DEF IInv, Stages

LEMMA RunStep ==
  ASSUME IInv, stage = "run",
         \/ StartModule \/ ScheduleYield \/ Svc \/ SvcReturns \/ IrqHandler
         \/ SendMessage \/ SetUID \/ SetGID \/ LaunchRM \/ LaunchEnds
  PROVE  IInv'
<1>0. Typed /\ OwnAccess
  BY DEF IInv
<1>1. CASE StartModule
  <2>1. UNCHANGED mapVars /\ UNCHANGED <<current, irq, access, own, stale>>
    BY <1>1 DEF StartModule, Running
  <2>2. PICK t \in Thread, p \in Pid :
          pid[t] = NULL /\ pid' = [pid EXCEPT ![t] = p] /\ mode' = [mode EXCEPT ![t] = "user"]
    BY <1>1 DEF StartModule, Created
  <2>3. t # current
    BY <1>1, <2>2, SectionsAssumption, MemoryAssumption DEF StartModule
  <2>4. Typed'
    BY <1>0, <2>1, <2>2 DEF Typed, mapVars
  <2>5. OwnAccess'
    BY <1>0, <2>1, <2>2, <2>3 DEF Typed, OwnAccess, mapVars
  <2> QED  BY <2>1, <2>4, <2>5, RunStages DEF IInv, mapVars
<1>2. CASE ScheduleYield
  <2>1. UNCHANGED <<registers, dacr, stage, segments, pid, mode, own>>
    BY <1>2 DEF ScheduleYield
  <2>2. PICK t \in Thread : current' = t /\ Dispatched(t)
    BY <1>2 DEF ScheduleYield
  <2>3. Registers \in DOMAIN table
    BY DEF IInv, Stages
  <2>4. Typed'
    BY <1>0, <2>1, <2>2 DEF Typed
  <2>5. OwnAccess' /\ DOMAIN table' = DOMAIN table
    BY <2>1, <2>2, <2>3 DEF OwnAccess, Dispatched
  <2> QED  BY <2>1, <2>4, <2>5, RunStages DEF IInv
<1>3. CASE Svc
  <2>1. /\ UNCHANGED mapVars /\ UNCHANGED <<pid, current, irq, access, own, stale>>
        /\ mode[current] = "user" /\ mode' = [mode EXCEPT ![current] = "kernel"]
    BY <1>3 DEF Svc, Running
  <2>2. Typed' /\ OwnAccess'
    BY <1>0, <2>1 DEF Typed, OwnAccess, mapVars
  <2> QED  BY <2>1, <2>2, RunStages DEF IInv, mapVars
<1>4. CASE SvcReturns
  <2>1. /\ UNCHANGED mapVars /\ UNCHANGED <<pid, current, irq, access, own, stale>>
        /\ mode[current] = "kernel" /\ mode' = [mode EXCEPT ![current] = "user"]
    BY <1>4 DEF SvcReturns, Running
  <2>2. Typed' /\ OwnAccess'
    BY <1>0, <2>1 DEF Typed, OwnAccess, mapVars
  <2> QED  BY <2>1, <2>2, RunStages DEF IInv, mapVars
<1>5. CASE IrqHandler
  <2>1. UNCHANGED mapVars /\ UNCHANGED <<pid, current, mode, own, stale>> /\ irq'
    BY <1>5 DEF IrqHandler, Running
  <2>2. Typed' /\ OwnAccess'
    BY <1>0, <2>1 DEF Typed, OwnAccess, mapVars
  <2> QED  BY <2>1, <2>2, RunStages DEF IInv, mapVars
<1>6. CASE SendMessage
  <2>1. /\ UNCHANGED mapVars /\ UNCHANGED <<pid, current, mode, irq, own, stale>>
        /\ access' = dacr[pid[current]]
    BY <1>6 DEF SendMessage, Running
  <2>2. Typed' /\ OwnAccess'
    BY <1>0, <2>1 DEF Typed, OwnAccess, mapVars
  <2> QED  BY <2>1, <2>2, RunStages DEF IInv, mapVars
<1>7. CASE SetUID \/ SetGID
  <2>1. UNCHANGED mapVars /\ UNCHANGED <<pid, current, mode, irq, access, own, stale>>
    BY <1>7 DEF SetUID, SetGID, Running
  <2>2. Typed' /\ OwnAccess'
    BY <1>0, <2>1 DEF Typed, OwnAccess, mapVars
  <2> QED  BY <2>1, <2>2, RunStages DEF IInv, mapVars
<1>8. CASE LaunchRM
  <2>1. /\ UNCHANGED mapVars /\ UNCHANGED <<current, irq, access, stale>>
        /\ own' = [own EXCEPT ![current] = pid[current]]
    BY <1>8 DEF LaunchRM, Running
  <2>2. PICK t \in Thread :
          /\ pid' = [pid EXCEPT ![t] = Launched, ![current] = 0]
          /\ mode' = [mode EXCEPT ![t] = "user", ![current] = "launch"]
    BY <1>8 DEF LaunchRM, Started
  <2>3. Typed'
    BY <1>0, <2>1, <2>2, MemoryAssumption DEF Typed, mapVars
  <2>4. mode'[current'] = "launch"
    BY <1>0, <2>1, <2>2 DEF Typed
  <2> QED  BY <2>1, <2>3, <2>4, RunStages DEF IInv, OwnAccess, mapVars
<1>9. CASE LaunchEnds
  <2>1. /\ UNCHANGED mapVars /\ UNCHANGED <<current, irq, access>>
        /\ pid' = [pid EXCEPT ![current] = own[current]]
        /\ mode' = [mode EXCEPT ![current] = "kernel"]
        /\ own' = [own EXCEPT ![current] = NULL]
        /\ stale' = IF access = dacr[own[current]] /\ table[Registers] = registers[own[current]]
                    THEN stale ELSE stale \cup {current}
    BY <1>9 DEF LaunchEnds, Running
  <2>2. Typed'
    BY <1>0, <2>1 DEF Typed, mapVars
  <2>3. pid'[current] = own[current]
    BY <1>0, <2>1 DEF Typed
  <2>4. OwnAccess'
    BY <2>1, <2>3 DEF OwnAccess, mapVars
  <2> QED  BY <2>1, <2>2, <2>4, RunStages DEF IInv, mapVars
<1> QED  BY <1>1, <1>2, <1>3, <1>4, <1>5, <1>6, <1>7, <1>8, <1>9

LEMMA Stays == IInv /\ [Next]_vars => IInv'
<1> SUFFICES ASSUME IInv, [Next]_vars PROVE IInv'
  OBVIOUS
<1>1. CASE MapMemory  BY <1>1, MapMemoryStep
<1>2. CASE KernelMapped  BY <1>2, KernelMappedStep
<1>3. CASE RegistersMapped  BY <1>3, RegistersMappedStep
<1>4. CASE SegmentMapped  BY <1>4, SegmentMappedStep
<1>5. CASE \/ StartModule \/ ScheduleYield \/ Svc \/ SvcReturns \/ IrqHandler
           \/ SendMessage \/ SetUID \/ SetGID \/ LaunchRM \/ LaunchEnds
  <2>1. stage = "run"
    BY <1>5 DEF StartModule, ScheduleYield, Svc, SvcReturns, IrqHandler, SendMessage, SetUID, SetGID,
                LaunchRM, LaunchEnds, Running
  <2> QED  BY <1>5, <2>1, RunStep
<1>6. CASE UNCHANGED vars
  BY <1>6 DEF IInv, Typed, Stages, Quiet, OwnAccess, PagesOf, vars, mapVars, runVars
<1> QED  BY <1>1, <1>2, <1>3, <1>4, <1>5, <1>6 DEF Next

(* A program runs with the domains and the registers of its own process,   *)
(* for any tables of sections, whatever interrupts, messages and switches  *)
(* of threads came before, but for a thread that LaunchRM has left.        *)
THEOREM RunsAsItself == Spec => []AccessIsOwn
<1>1. IInv => AccessIsOwn
  BY DEF IInv, OwnAccess, AccessIsOwn
<1> QED  BY <1>1, Begins, Stays, PTL DEF Spec
-----------------------------------------------------------------------------
(* The registers of processes, which are built one after the other in the  *)
(* entry of their megabyte.                                                *)

PageTable == UNION {[D -> [base : Nat, rights : Nat]] : D \in SUBSET Nat}

(* A table has the first n pages of map i, and no others.                  *)
Begun(number, i, n) ==
  LET s == HardwareMaps[i].section
  IN /\ DOMAIN pages[number] = s.virt .. s.virt + n - 1
     /\ \A v \in DOMAIN pages[number] : /\ pages[number][v].rights = s.rights
                                        /\ pages[number][v].base = s.phys + v - s.virt
(* It has the whole map, and what else is there is not for programs.       *)
Complete(number, i) ==
  LET s == HardwareMaps[i].section
  IN \A v \in PagesOfMB(Registers) :
       IF v \in PagesOf(s)
       THEN pages[number][v].rights = s.rights /\ pages[number][v].base = s.phys + v - s.virt
       ELSE pages[number][v].rights = NOUSER

(* An entry of a coarse table, whose table is at no other megabyte: what   *)
(* is mapped there changes it no more.                                     *)
Elsewhere(entry) ==
  /\ entry \in CourseEntry /\ entry.number \in DOMAIN pages
  /\ \A mb \in DOMAIN table \ {Registers} :
       table[mb].type # "section" => table[mb].number # entry.number

Done(j) == LET r == registers[HardwareMaps[j].pid]
           IN r # NULL /\ Elsewhere(r) /\ Complete(r.number, j)
Mapping(i, n) ==
  LET s == HardwareMaps[i].section
  IN /\ n \in 0 .. s.size
     /\ work = Section(s.phys + n, s.virt + n, s.size - n, s.domain, s.rights)
     /\ n = 0 => Registers \notin DOMAIN table
     /\ n > 0 => /\ Registers \in DOMAIN table /\ Elsewhere(table[Registers])
                 /\ Begun(table[Registers].number, i, n)
                 /\ \A p \in Pid : registers[p] # NULL => registers[p].number # table[Registers].number

(* The map that gives a process its registers                              *)
MapFor(p) == IF \E i \in DOMAIN HardwareMaps : HardwareMaps[i].pid = Holder(p)
             THEN CHOOSE i \in DOMAIN HardwareMaps : HardwareMaps[i].pid = Holder(p)
             ELSE CHOOSE i \in DOMAIN HardwareMaps : HardwareMaps[i].pid = 0

Tables ==
  /\ pages \in Seq(PageTable) /\ Len(pages) <= TableRoom
  /\ registers \in [Pid -> CourseEntry \cup {NULL}]
  /\ \A mb \in DOMAIN table \ {Registers} :
       table[mb].type # "section" => table[mb].number \in DOMAIN pages
  /\ stage = "kernel" =>
       /\ Registers \notin DOMAIN table
       /\ next \in DOMAIN KernelMaps /\ work \in MemorySection
       /\ \A v \in PagesOf(work) : MB(v) # Registers
  /\ stage = "kernel" => \A p \in Pid : registers[p] = NULL
  /\ stage = "registers" =>
       /\ \E n \in Nat : Mapping(next, n)
       /\ \A j \in 1 .. next - 1 : Done(j)
       /\ \A p \in Pid : registers[p] = NULL \/ \E j \in 1 .. next - 1 : HardwareMaps[j].pid = p
  /\ stage \in {"segments", "run"} =>
       \A p \in Pid : /\ registers[p] # NULL /\ Elsewhere(registers[p])
                      /\ Complete(registers[p].number, MapFor(p))

(* A sequence after one of its elements is replaced, or one is added.      *)
LEMMA PageWritten ==
  ASSUME pages \in Seq(PageTable), NEW n \in DOMAIN pages, NEW t \in PageTable
  PROVE  /\ [pages EXCEPT ![n] = t] \in Seq(PageTable)
         /\ Len([pages EXCEPT ![n] = t]) = Len(pages)
         /\ DOMAIN [pages EXCEPT ![n] = t] = DOMAIN pages
         /\ [pages EXCEPT ![n] = t][n] = t
         /\ \A k \in DOMAIN pages \ {n} : [pages EXCEPT ![n] = t][k] = pages[k]
OBVIOUS

LEMMA PageAdded ==
  ASSUME pages \in Seq(PageTable), NEW t \in PageTable
  PROVE  /\ Append(pages, t) \in Seq(PageTable)
         /\ Len(Append(pages, t)) = Len(pages) + 1
         /\ DOMAIN Append(pages, t) = DOMAIN pages \cup {Len(pages) + 1}
         /\ Append(pages, t)[Len(pages) + 1] = t
         /\ \A k \in DOMAIN pages : Append(pages, t)[k] = pages[k]
         /\ Len(pages) + 1 \notin DOMAIN pages
OBVIOUS

LEMMA PageTables ==
  ASSUME NEW f \in PageTable, NEW g \in PageTable
  PROVE  Over(f, g) \in PageTable
<1> DEFINE Page == [base : Nat, rights : Nat]
<1>1. PICK D \in SUBSET Nat : f \in [D -> Page]
  BY DEF PageTable
<1>2. PICK E \in SUBSET Nat : g \in [E -> Page]
  BY DEF PageTable
<1>3. DOMAIN f = D /\ DOMAIN g = E /\ (\A u \in D : f[u] \in Page) /\ (\A u \in E : g[u] \in Page)
  BY <1>1, <1>2
<1> HIDE DEF Page
<1>4. Over(f, g) \in [D \cup E -> Page] /\ D \cup E \in SUBSET Nat
  BY <1>3 DEF Over
<1> QED  BY <1>4 DEF PageTable, Page

LEMMA OnePage ==
  ASSUME NEW D \in SUBSET Nat, NEW b \in [D -> Nat], NEW r \in Nat
  PROVE  [u \in D |-> [base |-> b[u], rights |-> r]] \in PageTable
<1>1. [u \in D |-> [base |-> b[u], rights |-> r]] \in [D -> [base : Nat, rights : Nat]]
  OBVIOUS
<1> QED  BY <1>1 DEF PageTable

(* What a page of a coarse table changes: its own table, which is new or   *)
(* that of the megabyte.                                                   *)
Changed(number, page) ==
  /\ pages' \in Seq(PageTable) /\ Len(pages') <= TableRoom
  /\ number \in DOMAIN pages' /\ DOMAIN pages \subseteq DOMAIN pages'
  /\ \A k \in DOMAIN pages \ {number} : pages'[k] = pages[k]
  /\ \/ /\ Entry(MB(work.virt)) = NULL /\ number \notin DOMAIN pages
        /\ table' = Entered(MB(work.virt), [ type |-> "course", number |-> number,
                                              domain |-> work.domain ])
        /\ pages'[number] = [u \in {work.virt} |-> page]
     \/ /\ MB(work.virt) \in DOMAIN table /\ UNCHANGED table
        /\ Entry(MB(work.virt)) # NULL /\ table[MB(work.virt)].type # "section"
        /\ number = table[MB(work.virt)].number /\ number \in DOMAIN pages
        /\ DOMAIN pages'[number] = {work.virt} \cup DOMAIN pages[number]
        /\ \A u \in DOMAIN pages'[number] :
             pages'[number][u] = IF u = work.virt THEN page ELSE pages[number][u]

LEMMA CoursePage ==
  ASSUME Tables, MapMemoryAsCoursePage, stage' = stage, stage # "failed",
         work \in MemorySection, work.size > 0,
         MB(work.virt) = Registers /\ Registers \in DOMAIN table => Elsewhere(table[Registers])
  PROVE  /\ work' = Rest(1)
         /\ \E number \in Nat : Changed(number, [base |-> work.phys, rights |-> work.rights])
<1> DEFINE mb == MB(work.virt)
           page == [u \in {work.virt} |-> [base |-> work.phys, rights |-> work.rights]]
           number == IF Entry(mb) = NULL THEN Len(pages) + 1 ELSE Entry(mb).number
<1>0. /\ work.virt \in Nat /\ work.phys \in Nat /\ work.rights \in Nat
      /\ pages \in Seq(PageTable) /\ Len(pages) \in Nat /\ Len(pages) <= TableRoom /\ TableRoom \in Nat
  BY RegistersAssumption DEF MemorySection, Tables
<1>1. /\ work' = Rest(1)
      /\ table' = IF Entry(mb) # NULL THEN table
                  ELSE Entered(mb, [type |-> "course", number |-> number, domain |-> work.domain])
      /\ pages' = IF Entry(mb) = NULL THEN Append(pages, page)
                  ELSE [pages EXCEPT ![number] = Over(page, @)]
      /\ Entry(mb) = NULL => Len(pages) # TableRoom
      /\ Entry(mb) # NULL => Entry(mb).type # "section"
  BY DEF MapMemoryAsCoursePage, TableFits
<1>5. page \in PageTable
  <2>1. {work.virt} \in SUBSET Nat /\ [u \in {work.virt} |-> work.phys] \in [{work.virt} -> Nat]
    BY <1>0
  <2>2. page = [u \in {work.virt} |-> [base |-> [w \in {work.virt} |-> work.phys][u], rights |-> work.rights]]
    OBVIOUS
  <2> QED  BY <1>0, <2>1, <2>2, OnePage, ZenonT(60)
<1>2. CASE Entry(mb) = NULL
  <2>4. pages' = Append(pages, page) /\ number = Len(pages) + 1
    BY <1>1, <1>2
  <2> HIDE DEF page, number
  <2>5. /\ pages' \in Seq(PageTable) /\ Len(pages') = Len(pages) + 1
        /\ DOMAIN pages' = DOMAIN pages \cup {number} /\ pages'[number] = page
        /\ \A k \in DOMAIN pages : pages'[k] = pages[k]
        /\ number \notin DOMAIN pages /\ number \in Nat
    BY <1>0, <1>5, <2>4, PageAdded
  <2>6. Len(pages') <= TableRoom
    BY <1>0, <1>1, <1>2, <2>5
  <2>7. Changed(number, [base |-> work.phys, rights |-> work.rights])
    BY <1>1, <1>2, <2>5, <2>6 DEF Changed, page
  <2> QED  BY <1>1, <2>5, <2>7
<1>3. CASE Entry(mb) # NULL
  <2>1. mb \in DOMAIN table /\ Entry(mb) = table[mb] /\ number = table[mb].number /\ table[mb].type # "section"
    BY <1>1, <1>3 DEF Entry
  <2>2. number \in DOMAIN pages
    BY <2>1 DEF Tables, Elsewhere
  <2>3. pages[number] \in PageTable /\ number \in Nat
    BY <1>0, <2>2
  <2>4. pages' = [pages EXCEPT ![number] = Over(page, pages[number])] /\ table' = table
    BY <1>1, <1>3
  <2> HIDE DEF number
  <2>5. /\ Over(page, pages[number]) \in PageTable /\ page[work.virt] = [base |-> work.phys, rights |-> work.rights]
        /\ DOMAIN Over(page, pages[number]) = {work.virt} \cup DOMAIN pages[number]
        /\ \A u \in {work.virt} \cup DOMAIN pages[number] :
             Over(page, pages[number])[u] = IF u = work.virt THEN page[work.virt] ELSE pages[number][u]
    BY <1>5, <2>3, PageTables DEF Over
  <2> HIDE DEF page
  <2>6. /\ pages' \in Seq(PageTable) /\ Len(pages') = Len(pages) /\ DOMAIN pages' = DOMAIN pages
        /\ pages'[number] = Over(page, pages[number])
        /\ \A k \in DOMAIN pages \ {number} : pages'[k] = pages[k]
    BY <1>0, <2>2, <2>4, <2>5, PageWritten
  <2>7. Changed(number, [base |-> work.phys, rights |-> work.rights])
    BY <1>0, <1>3, <2>1, <2>2, <2>4, <2>5, <2>6 DEF Changed
  <2> QED  BY <1>1, <2>3, <2>7
<1> QED  BY <1>2, <1>3

(* A table whose number is not written stays what it is, also when tables  *)
(* are made for other megabytes.                                           *)
LEMMA Undisturbed ==
  ASSUME NEW entry, Elsewhere(entry), NEW number, number # entry.number,
         DOMAIN pages \subseteq DOMAIN pages',
         \A k \in DOMAIN pages \ {number} : pages'[k] = pages[k],
         \A mb \in DOMAIN table' \ {Registers} :
           (mb \in DOMAIN table /\ table'[mb] = table[mb]) \/ table'[mb].number = number
  PROVE  /\ Elsewhere(entry)' /\ pages'[entry.number] = pages[entry.number]
BY DEF Elsewhere

LEMMA EntersOne ==
  ASSUME NEW number, NEW page, Changed(number, page)
  PROVE  /\ \A mb \in DOMAIN table' \ {Registers} :
              \/ mb \in DOMAIN table /\ table'[mb] = table[mb]
              \/ mb = MB(work.virt) /\ table'[mb].number = number
         /\ Registers # MB(work.virt) =>
              /\ Registers \in DOMAIN table' <=> Registers \in DOMAIN table
              /\ table'[Registers] = table[Registers] \/ Registers \notin DOMAIN table
BY DEF Changed, Entered

LEMMA OneMore ==
  ASSUME NEW a \in Nat, NEW n \in Nat
  PROVE  a .. a + (n + 1) - 1 = {a + n} \cup (a .. a + n - 1)
OBVIOUS

LEMMA Parts ==
  ASSUME NEW i \in DOMAIN HardwareMaps
  PROVE  /\ HardwareMaps[i].pid \in Pid /\ i \in Nat \ {0} /\ i <= Len(HardwareMaps)
         /\ \A j \in 1 .. i : j \in DOMAIN HardwareMaps /\ HardwareMaps[j].pid \in Pid
<1>1. HardwareMaps \in Seq(ProcessMemorySection)
  BY SectionsAssumption
<1>2. /\ i \in Nat \ {0} /\ i <= Len(HardwareMaps)
      /\ \A j \in 1 .. i : j \in DOMAIN HardwareMaps /\ HardwareMaps[j] \in ProcessMemorySection
  BY <1>1
<1>3. \A j \in 1 .. i : HardwareMaps[j].pid \in Pid
  BY <1>2 DEF ProcessMemorySection
<1> QED  BY <1>2, <1>3

LEMMA MapMemoryTables ==
  ASSUME IInv, Tables, MapMemory
  PROVE  Tables'
<1>1. /\ stage \in {"kernel", "registers", "segments"} /\ work.size > 0
      /\ stage' = stage \/ stage' = "failed"
      /\ UNCHANGED <<registers, dacr, next, segments, runVars>>
      /\ MapMemoryAsSection \/ MapMemoryAsCoursePage
  BY DEF MapMemory, MapMemoryAsSection, MapMemoryAsCoursePage
<1>2. CASE stage' = "failed"
  <2>1. UNCHANGED <<table, pages>>
    BY <1>1, <1>2 DEF MapMemoryAsSection, MapMemoryAsCoursePage
  <2> QED  BY <1>1, <1>2, <2>1 DEF Tables
<1>3. ASSUME stage' = stage PROVE Tables'
  <2>1. work \in MemorySection /\ work.virt \in PagesOf(work)
    <3>1. work \in MemorySection
      BY <1>1 DEF IInv, Stages, Tables
    <3> QED  BY <1>1, <3>1 DEF MemorySection, PagesOf
  <2>2. stage \in {"kernel", "segments"} => MB(work.virt) # Registers
    BY <2>1 DEF IInv, Stages, Tables
  <2>3. ASSUME MapMemoryAsSection PROVE Tables'
    <3>1. /\ table' = Entered(MB(work.virt), [type |-> "section", base |-> work.phys,
                                               domain |-> work.domain, rights |-> work.rights])
          /\ work' = Rest(Megabyte) /\ UNCHANGED pages /\ work.size >= Megabyte
      BY <2>3 DEF MapMemoryAsSection, AsSection
    <3>2. stage \in {"kernel", "segments"} /\ MB(work.virt) # Registers
      BY <1>1, <2>1, <2>2, <3>1, MemoryAssumption DEF IInv, Stages, MemorySection
    <3>3. /\ \A mb \in DOMAIN table' \ {Registers} :
               (mb \in DOMAIN table /\ table'[mb] = table[mb]) \/ table'[mb].type = "section"
          /\ Registers \in DOMAIN table' <=> Registers \in DOMAIN table
      BY <3>1, <3>2 DEF Entered
    <3>4. work' \in MemorySection /\ PagesOf(work)' \subseteq PagesOf(work)
      BY <2>1, <3>1, Remaining, MemoryAssumption DEF PagesOf
    <3>5. \A entry : Elsewhere(entry) => Elsewhere(entry)'
      BY <3>1, <3>3 DEF Elsewhere
    <3>6. \A number, i : Complete(number, i) => Complete(number, i)'
      BY <3>1 DEF Complete
    <3> QED  BY <1>1, <1>3, <3>1, <3>2, <3>3, <3>4, <3>5, <3>6 DEF Tables
  <2>4. ASSUME MapMemoryAsCoursePage PROVE Tables'
    <3> DEFINE page == [base |-> work.phys, rights |-> work.rights]
    <3>1. stage = "registers" => \E n \in Nat : Mapping(next, n)
      BY DEF Tables
    <3>2. MB(work.virt) = Registers /\ Registers \in DOMAIN table => Elsewhere(table[Registers])
      <4> SUFFICES ASSUME MB(work.virt) = Registers, Registers \in DOMAIN table
                   PROVE  Elsewhere(table[Registers])
        OBVIOUS
      <4>1. stage = "registers"
        BY <1>1, <2>2
      <4>2. PICK n \in Nat : Mapping(next, n)
        BY <3>1, <4>1
      <4> QED  BY <4>2 DEF Mapping
    <3>3. work' = Rest(1) /\ \E number \in Nat : Changed(number, page)
      BY <1>1, <1>3, <2>1, <2>4, <3>2, CoursePage
    <3>4. PICK number \in Nat : Changed(number, page)
      BY <3>3
    <3> HIDE DEF page
    <3>5. /\ pages' \in Seq(PageTable) /\ Len(pages') <= TableRoom
          /\ number \in DOMAIN pages' /\ DOMAIN pages \subseteq DOMAIN pages'
          /\ \A k \in DOMAIN pages \ {number} : pages'[k] = pages[k]
      BY <3>4 DEF Changed
    <3>6. \A mb \in DOMAIN table' \ {Registers} :
            \/ mb \in DOMAIN table /\ table'[mb] = table[mb]
            \/ mb = MB(work.virt) /\ table'[mb].number = number
      BY <3>4, EntersOne
    <3>7. \A entry : Elsewhere(entry) /\ number # entry.number =>
            Elsewhere(entry)' /\ pages'[entry.number] = pages[entry.number]
      BY <3>5, <3>6, Undisturbed
    <3>8. \A k, i : k # number /\ k \in DOMAIN pages /\ Complete(k, i) => Complete(k, i)'
      BY <3>5 DEF Complete
    <3>9. work' \in MemorySection /\ PagesOf(work)' \subseteq PagesOf(work)
      BY <1>1, <2>1, <3>3, Remaining DEF PagesOf, MemorySection
    <3>10. /\ registers' \in [Pid -> CourseEntry \cup {NULL}]
           /\ \A mb \in DOMAIN table' \ {Registers} :
                table'[mb].type # "section" => table'[mb].number \in DOMAIN pages'
      BY <1>1, <3>5, <3>6 DEF Tables
    <3>11. CASE stage = "kernel"
      <4>1. Registers \notin DOMAIN table'
        BY <2>2, <3>4, <3>11, EntersOne DEF Tables
      <4> QED  BY <1>1, <1>3, <3>5, <3>9, <3>10, <3>11, <4>1 DEF Tables
    <3>12. CASE stage = "segments"
      <4>1. ASSUME NEW p \in Pid
            PROVE  registers[p] # NULL /\ Elsewhere(registers[p])' /\ Complete(registers[p].number, MapFor(p))'
        <5>0. PICK r : r = registers[p] /\ r = registers'[p]
          BY <1>1
        <5>1. r # NULL /\ Elsewhere(r) /\ Complete(r.number, MapFor(p))
          BY <3>12, <5>0 DEF Tables
        <5>2. number # r.number
          BY <2>2, <3>4, <3>12, <5>1 DEF Changed, Elsewhere
        <5>3. r.number \in DOMAIN pages
          BY <5>1 DEF Elsewhere
        <5>4. Elsewhere(r)' /\ Complete(r.number, MapFor(p))'
          BY <5>1, <5>2, <5>3, <3>7, <3>8
        <5> QED  BY <5>0, <5>1, <5>4
      <4> QED  BY <1>1, <1>3, <3>5, <3>10, <3>12, <4>1 DEF Tables
    <3>13. CASE stage = "registers"
      <4>1. PICK n \in Nat : Mapping(next, n)
        BY <3>1, <3>13
      <4> DEFINE s == HardwareMaps[next].section
      <4>2. /\ next \in DOMAIN HardwareMaps /\ s \in MemorySection /\ s.size < Megabyte
            /\ n \in 0 .. s.size
            /\ work = Section(s.phys + n, s.virt + n, s.size - n, s.domain, s.rights)
            /\ MB(work.virt) = Registers
        BY <2>1, <3>13, <4>1, FirstMap DEF IInv, Stages, Mapping
      <4>3. /\ s.virt \in Nat /\ s.phys \in Nat /\ s.size \in Nat /\ s.domain \in Domain /\ s.rights \in Nat
            /\ n + 1 \in 1 .. s.size
            /\ work.virt = s.virt + n /\ work.domain = s.domain
            /\ page.base = s.phys + n /\ page.rights = s.rights
        BY <1>1, <4>2 DEF MemorySection, Section, page
      <4>4. work' = Section(s.phys + (n + 1), s.virt + (n + 1), s.size - (n + 1), s.domain, s.rights)
        BY <3>3, <4>2, <4>3 DEF Section, Rest
      <4>5. \A p \in Pid : registers[p] # NULL => Elsewhere(registers[p]) /\ registers[p].number # number
        <5> SUFFICES ASSUME NEW p \in Pid, registers[p] # NULL
                     PROVE  Elsewhere(registers[p]) /\ registers[p].number # number
          OBVIOUS
        <5>1. PICK j \in 1 .. next - 1 : HardwareMaps[j].pid = p
          BY <3>13 DEF Tables
        <5>2. Elsewhere(registers[p]) /\ registers[p].number \in DOMAIN pages
          BY <3>13, <5>1 DEF Tables, Done, Elsewhere
        <5>3. CASE n = 0
          <6>1. Registers \notin DOMAIN table
            BY <4>1, <5>3 DEF Mapping
          <6> QED  BY <3>4, <4>2, <5>2, <6>1 DEF Changed
        <5>4. CASE n > 0
          <6>1. /\ Registers \in DOMAIN table /\ table[Registers] \in CourseEntry
                /\ registers[p].number # table[Registers].number
            BY <4>1, <5>4 DEF Mapping, Elsewhere
          <6>2. Entry(Registers) # NULL
            BY <6>1, RegistersAssumption DEF Entry
          <6> QED  BY <3>4, <4>2, <5>2, <6>1, <6>2 DEF Changed
        <5> QED  BY <4>2, <5>2, <5>3, <5>4
      <4>6. ASSUME NEW j \in 1 .. next - 1 PROVE Done(j)'
        <5>1. PICK r : r = registers[HardwareMaps[j].pid] /\ r = registers'[HardwareMaps[j].pid]
          BY <1>1
        <5>2. r # NULL /\ Elsewhere(r) /\ Complete(r.number, j) /\ HardwareMaps[j].pid \in Pid
          <6>1. Done(j)
            BY <3>13 DEF Tables
          <6>2. HardwareMaps[j].pid \in Pid
            <7>1. j \in 1 .. next
              BY <4>2, Parts
            <7> QED  BY <4>2, <7>1, Parts
          <6> QED  BY <5>1, <6>1, <6>2 DEF Done
        <5>3. number # r.number /\ r.number \in DOMAIN pages
          BY <4>5, <5>1, <5>2 DEF Elsewhere
        <5>4. Elsewhere(r)' /\ Complete(r.number, j)'
          BY <3>7, <3>8, <5>2, <5>3
        <5> QED  BY <5>1, <5>2, <5>4 DEF Done
      <4>7. /\ Registers \in DOMAIN table' /\ table'[Registers].number = number
            /\ Elsewhere(table[Registers])' /\ Begun(number, next, n + 1)'
        <5>1. CASE n = 0
          <6>1. Registers \notin DOMAIN table
            BY <4>1, <5>1 DEF Mapping
          <6>2. /\ number \notin DOMAIN pages /\ pages'[number] = [u \in {work.virt} |-> page]
                /\ table' = Entered(Registers, [type |-> "course", number |-> number, domain |-> s.domain])
            BY <3>4, <4>2, <4>3, <6>1 DEF Changed
          <6>3. /\ Registers \in DOMAIN table'
                /\ table'[Registers] = [type |-> "course", number |-> number, domain |-> s.domain]
            BY <6>2 DEF Entered
          <6>4. number \in 1 .. TableRoom
            BY <3>5, RegistersAssumption
          <6>5. table'[Registers] \in CourseEntry /\ table'[Registers].number = number
            BY <4>3, <6>3, <6>4 DEF CourseEntry
          <6>6. \A mb \in DOMAIN table' \ {Registers} :
                  table'[mb].type # "section" => table'[mb].number # number
            BY <3>6, <4>2, <6>2 DEF Tables
          <6>7. Elsewhere(table[Registers])'
            BY <3>5, <6>5, <6>6 DEF Elsewhere
          <6>8. Begun(number, next, n + 1)'
            <7>1. DOMAIN pages'[number] = s.virt .. s.virt + (n + 1) - 1
              BY <4>3, <5>1, <6>2
            <7>2. \A v \in DOMAIN pages'[number] : pages'[number][v] = page /\ s.phys + v - s.virt = s.phys + n
              BY <4>3, <5>1, <6>2
            <7> QED  BY <1>1, <4>3, <7>1, <7>2 DEF Begun
          <6> QED  BY <6>3, <6>5, <6>7, <6>8
        <5>2. CASE n > 0
          <6>1. /\ Registers \in DOMAIN table /\ Elsewhere(table[Registers])
                /\ Begun(table[Registers].number, next, n)
            BY <4>1, <5>2 DEF Mapping
          <6>2. Entry(Registers) # NULL
            BY <6>1, RegistersAssumption DEF Elsewhere, Entry
          <6>3. /\ number = table[Registers].number /\ UNCHANGED table
                /\ DOMAIN pages'[number] = {work.virt} \cup DOMAIN pages[number]
                /\ \A u \in DOMAIN pages'[number] :
                     pages'[number][u] = IF u = work.virt THEN page ELSE pages[number][u]
            BY <3>4, <4>2, <6>2 DEF Changed
          <6>4. Elsewhere(table[Registers])'
            BY <3>5, <6>1, <6>3 DEF Elsewhere
          <6>5. Begun(number, next, n + 1)'
            <7>0. /\ DOMAIN pages[number] = s.virt .. s.virt + n - 1
                  /\ \A v \in DOMAIN pages[number] : /\ pages[number][v].rights = s.rights
                                                     /\ pages[number][v].base = s.phys + v - s.virt
              BY <6>1, <6>3 DEF Begun
            <7>1. DOMAIN pages'[number] = s.virt .. s.virt + (n + 1) - 1
              BY <4>3, <6>3, <7>0, OneMore, SMTT(40)
            <7>2. \A v \in DOMAIN pages'[number] : /\ pages'[number][v].rights = s.rights
                                                   /\ pages'[number][v].base = s.phys + v - s.virt
              <8> SUFFICES ASSUME NEW v \in DOMAIN pages'[number]
                           PROVE  /\ pages'[number][v].rights = s.rights
                                  /\ pages'[number][v].base = s.phys + v - s.virt
                OBVIOUS
              <8>1. CASE v = work.virt
                <9>1. pages'[number][v] = page
                  BY <6>3, <8>1
                <9>2. s.phys + v - s.virt = s.phys + n
                  BY <4>3, <8>1
                <9> QED  BY <4>3, <9>1, <9>2
              <8>2. CASE v # work.virt
                <9>1. v \in DOMAIN pages[number] /\ pages'[number][v] = pages[number][v]
                  BY <6>3, <8>2
                <9> QED  BY <7>0, <9>1
              <8> QED  BY <8>1, <8>2
            <7> QED  BY <1>1, <7>1, <7>2 DEF Begun
          <6> QED  BY <6>1, <6>3, <6>4, <6>5
        <5> QED  BY <4>2, <5>1, <5>2
      <4>8. Mapping(next, n + 1)'
        BY <1>1, <4>3, <4>4, <4>5, <4>7 DEF Mapping
      <4>9. \A p \in Pid : registers'[p] = NULL \/ \E j \in 1 .. next' - 1 : HardwareMaps[j].pid = p
        BY <1>1, <3>13 DEF Tables
      <4>10. n + 1 \in Nat /\ stage' = "registers" /\ next' = next
        BY <1>1, <1>3, <3>13
      <4>11. \E m \in Nat : Mapping(next, m)'
        BY <4>8, <4>10
      <4> QED  BY <3>5, <3>10, <4>6, <4>9, <4>10, <4>11 DEF Tables
    <3> QED  BY <1>1, <3>11, <3>12, <3>13
  <2> QED  BY <1>1, <2>3, <2>4
<1> QED  BY <1>1, <1>2, <1>3

LEMMA KernelMappedTables ==
  ASSUME IInv, Tables, KernelMapped
  PROVE  Tables'
<1>1. /\ stage = "kernel" /\ UNCHANGED <<table, pages, registers, dacr, segments, runVars>>
      /\ next \in DOMAIN KernelMaps /\ Registers \notin DOMAIN table
      /\ \A p \in Pid : registers[p] = NULL
  BY DEF KernelMapped, Tables
<1>2. CASE next < Len(KernelMaps)
  <2>1. next' = next + 1 /\ work' = KernelMaps[next + 1] /\ stage' = "kernel"
    BY <1>1, <1>2 DEF KernelMapped
  <2>2. next + 1 \in DOMAIN KernelMaps /\ KernelMaps[next + 1] \in MemorySection
    BY <1>1, <1>2, RegistersAssumption
  <2>3. \A v \in PagesOf(work)' : MB(v) # Registers
    BY <2>1, <2>2, RegistersAssumption DEF PagesOf
  <2> QED  BY <1>1, <2>1, <2>2, <2>3 DEF Tables
<1>3. CASE ~ next < Len(KernelMaps)
  <2>1. next' = 1 /\ work' = HardwareMaps[1].section /\ stage' = "registers"
    BY <1>1, <1>3 DEF KernelMapped
  <2>2. 1 \in DOMAIN HardwareMaps
    BY SectionsAssumption
  <2>3. PICK s : s = HardwareMaps[1].section
    OBVIOUS
  <2>4. s \in MemorySection
    BY <2>2, <2>3, FirstMap
  <2>5. s = Section(s.phys + 0, s.virt + 0, s.size - 0, s.domain, s.rights) /\ 0 \in 0 .. s.size
    BY <2>4 DEF MemorySection, Section
  <2>6. Mapping(next, 0)'
    BY <1>1, <2>1, <2>3, <2>5 DEF Mapping
  <2>7. 1 .. next' - 1 = {} /\ \E n \in Nat : Mapping(next, n)'
    BY <2>1, <2>6
  <2> QED  BY <1>1, <2>1, <2>7 DEF Tables
<1> QED  BY <1>2, <1>3

(* The gaps of a table are filled in.                                      *)
LEMMA GapsFilled ==
  ASSUME Tables, NEW number \in DOMAIN pages, NEW i \in DOMAIN HardwareMaps,
         Begun(number, i, HardwareMaps[i].section.size), pages' = Filled(number)
  PROVE  /\ pages' \in Seq(PageTable) /\ Len(pages') = Len(pages) /\ DOMAIN pages' = DOMAIN pages
         /\ \A k \in DOMAIN pages \ {number} : pages'[k] = pages[k]
         /\ Complete(number, i)'
<1> DEFINE s == HardwareMaps[i].section
           all == PagesOfMB(Registers)
           gaps == [v \in all |-> [base |-> v, rights |-> NOUSER]]
<1>1. s \in MemorySection
  BY FirstMap
<1>2. DOMAIN pages[number] = PagesOf(s)
      /\ \A v \in PagesOf(s) : /\ pages[number][v].rights = s.rights
                               /\ pages[number][v].base = s.phys + v - s.virt
  BY DEF Begun, PagesOf
<1>3. all \in SUBSET Nat /\ [v \in all |-> v] \in [all -> Nat]
  BY RegistersAssumption, MemoryAssumption DEF PagesOfMB
<1>4. gaps = [v \in all |-> [base |-> [w \in all |-> w][v], rights |-> NOUSER]] /\ NOUSER \in Nat
  BY DEF NOUSER
<1> HIDE DEF all, s
<1>5. gaps \in PageTable
  <2> HIDE DEF gaps
  <2> QED  BY <1>3, <1>4, OnePage
<1>6. pages \in Seq(PageTable) /\ pages[number] \in PageTable
  BY DEF Tables
<1>7. pages' = [pages EXCEPT ![number] = Over(pages[number], gaps)]
  BY DEF Filled, gaps, all
<1>8. \A v \in all : Over(pages[number], gaps)[v] =
        IF v \in PagesOf(s) THEN pages[number][v] ELSE [base |-> v, rights |-> NOUSER]
  BY <1>2 DEF Over
<1> HIDE DEF gaps
<1>9. Over(pages[number], gaps) \in PageTable
  BY <1>5, <1>6, PageTables
<1>10. /\ pages' \in Seq(PageTable) /\ Len(pages') = Len(pages) /\ DOMAIN pages' = DOMAIN pages
       /\ \A k \in DOMAIN pages \ {number} : pages'[k] = pages[k]
       /\ pages'[number] = Over(pages[number], gaps)
  BY <1>6, <1>7, <1>9, PageWritten
<1>11. \A v \in all : IF v \in PagesOf(s)
                      THEN pages'[number][v].rights = s.rights /\ pages'[number][v].base = s.phys + v - s.virt
                      ELSE pages'[number][v].rights = NOUSER
  <2> SUFFICES ASSUME NEW v \in all
               PROVE  IF v \in PagesOf(s)
                      THEN pages'[number][v].rights = s.rights /\ pages'[number][v].base = s.phys + v - s.virt
                      ELSE pages'[number][v].rights = NOUSER
    OBVIOUS
  <2>1. pages'[number][v] = IF v \in PagesOf(s) THEN pages[number][v] ELSE [base |-> v, rights |-> NOUSER]
    BY <1>8, <1>10
  <2>2. CASE v \in PagesOf(s)
    BY <1>2, <2>1, <2>2
  <2>3. CASE v \notin PagesOf(s)
    BY <2>1, <2>3
  <2> QED  BY <2>2, <2>3
<1>12. Complete(number, i)'
  BY <1>11 DEF Complete, s, all
<1> QED  BY <1>10, <1>12

(* What a process ends up with, when every map has left a table            *)
LEMMA DefaultTables ==
  ASSUME NEW tables \in [Pid -> CourseEntry \cup {NULL}],
         \A j \in DOMAIN HardwareMaps : tables[HardwareMaps[j].pid] # NULL,
         \A p \in Pid : tables[p] = NULL \/ \E j \in DOMAIN HardwareMaps : HardwareMaps[j].pid = p,
         NEW p \in Pid
  PROVE  /\ Defaults(tables)[p] = tables[HardwareMaps[MapFor(p)].pid]
         /\ MapFor(p) \in DOMAIN HardwareMaps
<1> DEFINE gaps == [q \in Pid |-> IF q \in {4, 5} THEN tables[6] ELSE tables[q]]
<1>1. Defaults(tables) = [q \in Pid |-> IF gaps[q] = NULL THEN gaps[0] ELSE gaps[q]]
  BY DEF Defaults
<1>2. Holder(p) \in Pid /\ gaps[p] = tables[Holder(p)] /\ gaps[0] = tables[0]
  BY RegistersAssumption, MemoryAssumption DEF Holder
<1> HIDE DEF gaps
<1>3. Defaults(tables)[p] = IF tables[Holder(p)] = NULL THEN tables[0] ELSE tables[Holder(p)]
  BY <1>1, <1>2
<1>4. CASE \E i \in DOMAIN HardwareMaps : HardwareMaps[i].pid = Holder(p)
  <2>1. MapFor(p) \in DOMAIN HardwareMaps /\ HardwareMaps[MapFor(p)].pid = Holder(p)
    BY <1>4 DEF MapFor
  <2> QED  BY <1>3, <2>1
<1>5. CASE ~ \E i \in DOMAIN HardwareMaps : HardwareMaps[i].pid = Holder(p)
  <2>1. MapFor(p) \in DOMAIN HardwareMaps /\ HardwareMaps[MapFor(p)].pid = 0
    BY <1>5, RegistersAssumption DEF MapFor
  <2>2. tables[Holder(p)] = NULL
    BY <1>2, <1>5
  <2> QED  BY <1>3, <2>1, <2>2
<1> QED  BY <1>4, <1>5

LEMMA RegistersMappedTables ==
  ASSUME IInv, Tables, RegistersMapped
  PROVE  Tables'
<1>0. PICK i : i = next
  OBVIOUS
<1>1. stage = "registers" /\ work.size = 0 /\ i \in DOMAIN HardwareMaps
  BY <1>0 DEF RegistersMapped, IInv, Stages
<1>2. PICK n \in Nat : Mapping(i, n)
  BY <1>0, <1>1 DEF Tables
<1>3. PICK s : s = HardwareMaps[i].section
  OBVIOUS
<1>4. s \in MemorySection /\ s.size \in Nat /\ s.size # 0 /\ n = s.size
  <2>1. s \in MemorySection /\ s.size # 0
    BY <1>1, <1>3, FirstMap
  <2>2. s.size \in Nat
    BY <2>1 DEF MemorySection
  <2> QED  BY <1>1, <1>2, <1>3, <2>1, <2>2 DEF Mapping, Section
<1>5. PICK entry : entry = Entry(Registers)
  OBVIOUS
<1>6. /\ Registers \in DOMAIN table /\ entry = table[Registers] /\ Elsewhere(entry)
      /\ Begun(entry.number, i, s.size)
      /\ \A p \in Pid : registers[p] # NULL => registers[p].number # entry.number
  BY <1>2, <1>4, <1>5 DEF Mapping, Entry
<1>7. entry \in CourseEntry /\ entry # NULL /\ entry.number \in DOMAIN pages
  BY <1>6, RegistersAssumption DEF Elsewhere
<1>8. PICK tables : tables = [registers EXCEPT ![HardwareMaps[i].pid] = entry]
  OBVIOUS
<1>9. /\ pages' \in Seq(PageTable) /\ Len(pages') = Len(pages) /\ DOMAIN pages' = DOMAIN pages
      /\ \A k \in DOMAIN pages \ {entry.number} : pages'[k] = pages[k]
      /\ Complete(entry.number, i)'
  <2>1. pages' = Filled(entry.number)
    BY <1>5 DEF RegistersMapped
  <2> QED  BY <1>1, <1>3, <1>6, <1>7, <2>1, GapsFilled
<1>10. /\ UNCHANGED <<segments, runVars>> /\ registers \in [Pid -> CourseEntry \cup {NULL}]
       /\ \A j \in 1 .. i - 1 : Done(j)
       /\ \A p \in Pid : registers[p] = NULL \/ \E j \in 1 .. i - 1 : HardwareMaps[j].pid = p
       /\ \A mb \in DOMAIN table \ {Registers} :
            table[mb].type # "section" => table[mb].number \in DOMAIN pages
  BY <1>0, <1>1 DEF RegistersMapped, Tables
<1>11. /\ i \in Nat \ {0} /\ i <= Len(HardwareMaps) /\ Len(HardwareMaps) \in Nat
       /\ \A j \in 1 .. i : j \in DOMAIN HardwareMaps /\ HardwareMaps[j].pid \in Pid
  BY <1>1, Parts, SectionsAssumption
<1>12. tables \in [Pid -> CourseEntry \cup {NULL}]
  BY <1>7, <1>8, <1>10, <1>11
<1>13. \A p \in Pid : tables[p] = NULL \/ \E j \in 1 .. i : HardwareMaps[j].pid = p
  BY <1>8, <1>10, <1>11
<1>14. \A mb \in DOMAIN table' \ {Registers} : mb \in DOMAIN table /\ table'[mb] = table[mb]
  BY <1>1 DEF RegistersMapped
<1>15. ASSUME NEW j \in 1 .. i
       PROVE  LET r == tables[HardwareMaps[j].pid]
              IN \E x : x = r /\ x \in CourseEntry /\ x # NULL /\ Elsewhere(x)' /\ Complete(x.number, j)'
  <2>1. CASE j = i
    <3>1. tables[HardwareMaps[j].pid] = entry
      BY <1>8, <1>10, <1>11, <2>1
    <3>2. Elsewhere(entry)'
      BY <1>6, <1>9, <1>14 DEF Elsewhere
    <3> QED  BY <1>7, <1>9, <2>1, <3>1, <3>2
  <2>2. CASE j # i
    <3>1. j \in 1 .. i - 1 /\ HardwareMaps[j].pid # HardwareMaps[i].pid
      BY <1>1, <1>11, <2>2, RegistersAssumption
    <3>2. PICK x : x = registers[HardwareMaps[j].pid] /\ x = tables[HardwareMaps[j].pid]
      BY <1>8, <1>10, <1>11, <3>1
    <3>3. x # NULL /\ Elsewhere(x) /\ Complete(x.number, j) /\ x.number # entry.number
      BY <1>6, <1>10, <1>11, <3>1, <3>2 DEF Done
    <3>4. Elsewhere(x)' /\ pages'[x.number] = pages[x.number]
      BY <1>9, <1>14, <3>3, Undisturbed
    <3>5. x \in CourseEntry /\ Complete(x.number, j)'
      BY <3>3, <3>4 DEF Elsewhere, Complete
    <3> QED  BY <3>2, <3>3, <3>4, <3>5
  <2> QED  BY <2>1, <2>2
<1>16. /\ \A mb \in DOMAIN table' \ {Registers} :
            table'[mb].type # "section" => table'[mb].number \in DOMAIN pages'
       /\ pages' \in Seq(PageTable) /\ Len(pages') <= TableRoom
  BY <1>9, <1>10, <1>14 DEF Tables
<1>17. CASE i < Len(HardwareMaps)
  <2>1. /\ registers' = tables /\ Registers \notin DOMAIN table'
        /\ next' = i + 1 /\ work' = HardwareMaps[i + 1].section /\ stage' = "registers"
    BY <1>0, <1>5, <1>8, <1>17, <1>1 DEF RegistersMapped
  <2>2. i + 1 \in DOMAIN HardwareMaps
    BY <1>11, <1>17
  <2>3. PICK z : z = HardwareMaps[i + 1].section
    OBVIOUS
  <2>4. z \in MemorySection
    BY <2>2, <2>3, FirstMap
  <2>5. z = Section(z.phys + 0, z.virt + 0, z.size - 0, z.domain, z.rights) /\ 0 \in 0 .. z.size
    BY <2>4 DEF MemorySection, Section
  <2>6. Mapping(next, 0)'
    BY <2>1, <2>3, <2>5 DEF Mapping
  <2>7. \A j \in 1 .. i : Done(j)'
    BY <1>15, <2>1 DEF Done
  <2>8. next' - 1 = i /\ \E m \in Nat : Mapping(next, m)'
    BY <1>11, <2>1, <2>6
  <2> QED  BY <1>12, <1>13, <1>16, <2>1, <2>7, <2>8 DEF Tables
<1>18. CASE ~ i < Len(HardwareMaps)
  <2>1. registers' = Defaults(tables) /\ stage' = "segments"
    BY <1>0, <1>5, <1>8, <1>18 DEF RegistersMapped
  <2>2. i = Len(HardwareMaps) /\ DOMAIN HardwareMaps = 1 .. i
    BY <1>11, <1>18, SectionsAssumption
  <2>3. \A j \in DOMAIN HardwareMaps : tables[HardwareMaps[j].pid] # NULL
    BY <1>15, <2>2
  <2>4. \A p \in Pid : tables[p] = NULL \/ \E j \in DOMAIN HardwareMaps : HardwareMaps[j].pid = p
    BY <1>13, <2>2
  <2>5. ASSUME NEW p \in Pid
        PROVE  \E x : /\ x = registers'[p] /\ x \in CourseEntry
                      /\ x # NULL /\ Elsewhere(x)' /\ Complete(x.number, MapFor(p))'
    <3>1. registers'[p] = tables[HardwareMaps[MapFor(p)].pid] /\ MapFor(p) \in DOMAIN HardwareMaps
      BY <1>12, <2>1, <2>3, <2>4, DefaultTables
    <3>2. PICK j \in 1 .. i : j = MapFor(p)
      BY <2>2, <3>1
    <3> QED  BY <1>15, <3>1, <3>2
  <2>6. registers' \in [Pid -> CourseEntry \cup {NULL}]
    <3>1. DOMAIN registers' = Pid /\ registers' = [p \in Pid |-> registers'[p]]
      BY <2>1 DEF Defaults
    <3> QED  BY <2>5, <3>1
  <2>7. \A p \in Pid : registers'[p] # NULL /\ Elsewhere(registers[p])' /\ Complete(registers[p].number, MapFor(p))'
    BY <2>5
  <2> QED  BY <1>16, <2>1, <2>6, <2>7 DEF Tables
<1> QED  BY <1>17, <1>18

(* Later only the entry of the registers changes.                          *)
LEMMA TablesStay ==
  ASSUME Tables, stage \in {"segments", "run"}, stage' \in {"segments", "run"},
         UNCHANGED <<pages, registers>>,
         \A mb \in DOMAIN table' \ {Registers} : mb \in DOMAIN table /\ table'[mb] = table[mb]
  PROVE  Tables'
<1>1. \A x : Elsewhere(x) => Elsewhere(x)'
  BY DEF Elsewhere
<1>2. \A k, i : Complete(k, i) => Complete(k, i)'
  BY DEF Complete
<1>3. \A p \in Pid : registers'[p] # NULL /\ Elsewhere(registers[p])' /\ Complete(registers[p].number, MapFor(p))'
  BY <1>1, <1>2 DEF Tables
<1> QED  BY <1>3 DEF Tables

LEMMA TablesBegin == Init => Tables
<1> SUFFICES ASSUME Init PROVE Tables
  OBVIOUS
<1>1. /\ stage = "kernel" /\ next = 1 /\ work = KernelMaps[1] /\ table = << >> /\ pages = << >>
      /\ registers = [p \in Pid |-> NULL]
  BY DEF Init
<1>2. 1 \in DOMAIN KernelMaps /\ KernelMaps[1] \in MemorySection
  BY RegistersAssumption
<1>3. pages \in Seq(PageTable) /\ Len(pages) <= TableRoom /\ DOMAIN table = {}
  BY <1>1, RegistersAssumption
<1> QED  BY <1>1, <1>2, <1>3, RegistersAssumption DEF Tables

LEMMA RegistersStay == (IInv /\ Tables) /\ [Next]_vars => Tables'
<1> SUFFICES ASSUME IInv, Tables, [Next]_vars PROVE Tables'
  OBVIOUS
<1>1. CASE MapMemory  BY <1>1, MapMemoryTables
<1>2. CASE KernelMapped  BY <1>2, KernelMappedTables
<1>3. CASE RegistersMapped  BY <1>3, RegistersMappedTables
<1>4. CASE SegmentMapped
  <2>1. /\ stage = "segments" /\ stage' \in {"segments", "run"}
        /\ UNCHANGED <<table, pages, registers>>
    BY <1>4 DEF SegmentMapped
  <2> QED  BY <2>1, TablesStay
<1>5. CASE ScheduleYield
  <2>1. stage = "run" /\ UNCHANGED <<stage, pages, registers>>
    BY <1>5 DEF ScheduleYield
  <2>2. PICK t \in Thread : table' = [table EXCEPT ![Registers] = registers[pid[t]]]
    BY <1>5 DEF ScheduleYield, Dispatched
  <2> QED  BY <2>1, <2>2, TablesStay
<1>6. CASE \/ StartModule \/ Svc \/ SvcReturns \/ IrqHandler
           \/ SendMessage \/ SetUID \/ SetGID \/ LaunchRM \/ LaunchEnds
  <2>1. Running
    BY <1>6 DEF StartModule, Svc, SvcReturns, IrqHandler, SendMessage, SetUID, SetGID, LaunchRM, LaunchEnds
  <2> QED  BY <2>1, TablesStay DEF Running, mapVars
<1>7. CASE UNCHANGED vars
  <2>1. /\ table' = table /\ pages' = pages /\ registers' = registers
        /\ stage' = stage /\ next' = next /\ work' = work
    BY <1>7 DEF vars, mapVars
  <2>2. /\ \A x : Elsewhere(x)' <=> Elsewhere(x)
        /\ \A k, i : Complete(k, i)' <=> Complete(k, i)
        /\ \A k, i, n : Begun(k, i, n)' <=> Begun(k, i, n)
    BY <2>1 DEF Elsewhere, Complete, Begun
  <2>3. /\ \A j : Done(j)' <=> Done(j)
        /\ \A i, n : Mapping(i, n)' <=> Mapping(i, n)
    BY <2>1, <2>2 DEF Done, Mapping
  <2> HIDE DEF Elsewhere, Complete, Begun, Done, Mapping
  <2> QED  BY <2>1, <2>2, <2>3 DEF Tables, PagesOf
<1> QED  BY <1>1, <1>2, <1>3, <1>4, <1>5, <1>6, <1>7 DEF Next

(* Once every program may run, each process has the registers that         *)
(* HWRegistersMemoryMaps gives it and no others, for any tables of         *)
(* sections and any segments: nothing that is mapped before, between or    *)
(* after them changes its table.                                           *)
THEOREM RegistersAreOwn == Spec => []RegistersAreApart
<1>1. Tables => RegistersAreApart
  <2> SUFFICES ASSUME Tables, stage = "run", NEW p \in Pid, NEW v \in Probe, MB(v) = Registers
               PROVE  LET given == {i \in DOMAIN HardwareMaps : /\ HardwareMaps[i].pid = Holder(p)
                                                                /\ v \in PagesOf(HardwareMaps[i].section)}
                          page == pages[registers[p].number][v]
                      IN IF given = {} THEN page.rights = NOUSER
                         ELSE \A i \in given :
                                /\ page.rights = HardwareMaps[i].section.rights
                                /\ page.base = HardwareMaps[i].section.phys + v - HardwareMaps[i].section.virt
    BY DEF RegistersAreApart
  <2>1. v \in PagesOfMB(Registers)
    BY RegistersAssumption, MemoryAssumption DEF MB, PagesOfMB
  <2>2. Complete(registers[p].number, MapFor(p))
    BY DEF Tables
  <2> DEFINE page == pages[registers[p].number][v]
  <2>3. LET s == HardwareMaps[MapFor(p)].section
        IN IF v \in PagesOf(s) THEN page.rights = s.rights /\ page.base = s.phys + v - s.virt
           ELSE page.rights = NOUSER
    BY <2>1, <2>2 DEF Complete
  <2>4. CASE \E i \in DOMAIN HardwareMaps : HardwareMaps[i].pid = Holder(p)
    <3>1. /\ MapFor(p) \in DOMAIN HardwareMaps /\ HardwareMaps[MapFor(p)].pid = Holder(p)
          /\ \A i \in DOMAIN HardwareMaps : HardwareMaps[i].pid = Holder(p) => i = MapFor(p)
      <4>1. MapFor(p) \in DOMAIN HardwareMaps /\ HardwareMaps[MapFor(p)].pid = Holder(p)
        BY <2>4 DEF MapFor
      <4> QED  BY <4>1, RegistersAssumption
    <3> HIDE DEF page
    <3> QED  BY <2>3, <3>1 DEF page
  <2>5. CASE ~ \E i \in DOMAIN HardwareMaps : HardwareMaps[i].pid = Holder(p)
    <3>1. MapFor(p) \in DOMAIN HardwareMaps /\ HardwareMaps[MapFor(p)].pid = 0
      BY <2>5, RegistersAssumption DEF MapFor
    <3>2. HardwareMaps[MapFor(p)].section.rights = NOUSER
      BY <3>1, RegistersAssumption
    <3> QED  BY <2>3, <2>5, <3>2
  <2> QED  BY <2>4, <2>5
<1>2. Init => IInv /\ Tables
  BY Begins, TablesBegin
<1>3. IInv /\ Tables /\ [Next]_vars => (IInv /\ Tables)'
  BY Stays, RegistersStay
<1> QED  BY <1>1, <1>2, <1>3, PTL DEF Spec
=============================================================================
