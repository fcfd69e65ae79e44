-------------------------------- MODULE MCMemory --------------------------------
(***************************************************************************)
(* Memory with the sections of the kernel and of its modules.  A megabyte  *)
(* has 32 pages and not 256, what lies in it is scaled with it, and the    *)
(* large sections are two megabytes.                                       *)
(***************************************************************************)
EXTENDS Memory, TLC

At(mb, page) == mb * Megabyte + page
Flat(mb, page, size, domain, rights) == Section(At(mb, page), At(mb, page), size, domain, rights)

MCKernelMaps ==
  << Flat(4095, 0, 32, 15, NOUSER),  \* SRAM
     Flat(314, 14, 4, 15, NOUSER),   \* keys
     Flat(314, 24, 4, 15, NOUSER),   \* the stacks of threads
     Flat(216, 0, 26, 15, ROUSER),   \* the registers as the other bus sees them
     Flat(0, 0, 64, 8, RWUSER),      \* MEM1
     Flat(308, 0, 64, 8, RWUSER),    \* MEM2
     Flat(312, 14, 6, 15, RWUSER),
     Flat(310, 0, 4, 15, RWUSER),    \* the heap of messages
     Flat(316, 8, 16, 15, RWUSER),   \* buffers
     Flat(312, 10, 4, 15, ROUSER),   \* the tables
     Flat(312, 30, 24, 15, RWUSER),  \* program headers, the heap of the kernel
     Flat(319, 0, 32, 15, RWUSER) >>

Part(process, page, size) ==
  [pid |-> process, section |-> Section(At(208, page), At(208, page), size, 15, RWUSER)]
MCHardwareMaps ==
  << [pid |-> 0, section |-> Flat(208, 0, 26, 15, NOUSER)],
     Part(2, 2, 2),
     [pid |-> 3, section |-> Section(At(216, 1), At(208, 1), 1, 15, RWUSER)],
     Part(6, 8, 6), Part(7, 14, 2), Part(11, 16, 2) >>

(* ES, FS and OH1, text and data; or an image whose FS lies in the heap    *)
ES == << Section(At(313, 30), At(513, 0), 1, 1, ROUSER), Section(At(313, 31), At(513, 1), 1, 1, RWUSER) >>
FS == << Section(At(314, 2), At(512, 0), 1, 2, ROUSER), Section(At(314, 3), At(512, 1), 2, 2, RWUSER) >>
OH1 == << Flat(312, 22, 2, 5, ROUSER), Flat(312, 24, 2, 5, RWUSER) >>
MCSegments == {ES \o FS \o OH1, ES \o << Flat(316, 20, 1, 2, RWUSER) >>}

(* Before, at and behind the ends of each section                          *)
Ends(s) == {s.virt - 1, s.virt, s.virt + s.size - 1, s.virt + s.size}
MCProbe ==
  LET all == {MCKernelMaps[i] : i \in DOMAIN MCKernelMaps}
               \cup {MCHardwareMaps[i].section : i \in DOMAIN MCHardwareMaps}
               \cup UNION {{g[i], [g[i] EXCEPT !.virt = @ + Uncached]} :
                              g \in {ES \o FS \o OH1}, i \in 1 .. 6}
  IN UNION {Ends(s) : s \in all} \cap (0 .. Addresses - 1)

Threads == Permutations(Thread)
=============================================================================
