--------------------------------- MODULE Heaps ---------------------------------
(***************************************************************************)
(* The heaps of the kernel, kernel/source/memory/heaps.c.  Memory is       *)
(* counted in units of 0x10 bytes, the size of a block header, and keeps   *)
(* the header that lies at each address.  A block's size is its extent,    *)
(* header included; that of the last block of a heap is one less.          *)
(***************************************************************************)
EXTENDS Integers, SequencesExt

CONSTANTS
  Process,    \* the processes
  MaxHeap,    \* MAX_HEAP
  Region,     \* the memory a heap may be created in: [base, size]
  Request     \* what a program asks for: [size, alignment]

Align == 2           \* 0x20 bytes
Header == 1          \* ALIGNED_BLOCK_HEADER_SIZE
NULL == 0
Addr == NULL .. Max({r.base + r.size : r \in Region})
HeapId == 0 .. MaxHeap - 1

ASSUME RegionAssumption ==
  /\ MaxHeap \in Nat \ {0} /\ Process # {}
  /\ \A r \in Region : r.base \in Nat \ {NULL} /\ r.size \in Nat
  /\ \A r, s \in Region : r # s => r.base + r.size <= s.base \/ s.base + s.size <= r.base
ASSUME RequestAssumption ==
  \A q \in Request : q.size \in Nat \ {0} /\ \E k \in 0 .. 31 : q.alignment = Align * 2 ^ k

VARIABLES
  heap,   \* heaps: base, size, owner and first free block
  block,  \* the block header at each address
  held,   \* what the programs were given: [heap, ptr, size, alignment]
  astray  \* a call has used what another block, or a stale link, says

vars == <<heap, block, held, astray>>

BlockHeader == [ state : {"none", "init", "inuse", "aligned"},
                 size : 0 .. Max(Addr), prev : Addr, next : Addr ]
HeapInfo == [base : Addr, process : Process \cup {NULL}, size : Addr, first : Addr]
NoBlock == [state |-> "none", size |-> 0, prev |-> NULL, next |-> NULL]
NoHeap == [base |-> NULL, process |-> NULL, size |-> 0, first |-> NULL]

Init ==
  /\ heap = [h \in HeapId |-> NoHeap]
  /\ block = [a \in Addr |-> NoBlock]
  /\ held = {}
  /\ astray = FALSE

-----------------------------------------------------------------------------
CreateHeap(p, r) ==
  \E h \in HeapId :
    /\ heap[h].base = NULL /\ \A g \in 0 .. h - 1 : heap[g].base # NULL
    /\ r.base % Align = 0 /\ r.size >= 3
    /\ heap' = [heap EXCEPT ![h] =
                  [base |-> r.base, process |-> p, size |-> r.size, first |-> r.base]]
    /\ block' = [block EXCEPT ![r.base] =
                  [state |-> "init", size |-> r.size - Header, prev |-> NULL, next |-> NULL]]
    /\ UNCHANGED <<held, astray>>

(* Nothing is asked of the blocks: what was given is lost.                 *)
DestroyHeap(p, h) ==
  /\ heap[h].base # NULL /\ heap[h].process = p
  /\ heap' = [heap EXCEPT ![h] = NoHeap]
  /\ held' = {x \in held : x.heap # h}
  /\ UNCHANGED <<block, astray>>

(* The free blocks of the heap h, in the order of their list.              *)
FreeList(h) ==
  LET from[b \in Addr] == IF b = NULL THEN << >> ELSE <<b>> \o from[block[b].next]
  IN  from[heap[h].first]

-----------------------------------------------------------------------------
\* mutant: the size is not rounded up
Unaligned(size) == size
Aligned(size) == Align * ((size + Align - 1) \div Align)
(* From the end of b's header to the next aligned address.                 *)
AlignedOffset(b, alignment) == (- (b + Header)) % alignment

(* The search for the best block for n units: the block, and the size and  *)
(* the offset of the block that was looked at last.                        *)
BestFit(h, n, alignment) ==
  LET Examine(s, b) ==
        LET offset == AlignedOffset(b, alignment)
        IN  IF s.best # NULL /\ block[s.best].size = n + s.offset THEN s
            ELSE [ best   |-> IF /\ n + offset <= block[b].size
                                 /\ s.best = NULL \/ block[b].size < block[s.best].size
                              THEN b ELSE s.best,
                   size   |-> block[b].size,
                   offset |-> offset ]
  IN  FoldLeft(Examine, [best |-> NULL, size |-> 0, offset |-> 0], FreeList(h))

Splits(need, size) == need + Header < size

(* The block b is taken from the list of h: what is left of it, or else    *)
(* the block after it, takes its place.  NULL has the header of an address *)
(* where nothing is, as the low memory it points to reads zero.            *)
Taken(h, b, need, size) ==
  LET split == Splits(need, size)
      prev  == block[b].prev
      free  == IF split THEN b + need + Header ELSE block[b].next
      cut   == IF split
               THEN [block EXCEPT ![b].size = need + Header,
                                  ![free] = [ state |-> "init", size |-> size - (need + Header),
                                              prev |-> prev, next |-> block[b].next ]]
               ELSE block
      cur   == IF prev = NULL THEN free ELSE prev
      out   == IF prev = NULL THEN cut ELSE [cut EXCEPT ![prev].next = free]
      after == out[cur].next
      back  == IF after = NULL THEN out ELSE [out EXCEPT ![after].prev = cur]
  IN  [ first |-> IF prev = NULL THEN free ELSE heap[h].first,
        block |-> [back EXCEPT ![b] = [@ EXCEPT !.state = "inuse", !.prev = NULL, !.next = NULL]] ]

(* What the code has wrong of the chosen block.  The size and the offset    *)
(* that the search leaves are those of the block it looked at last (not to *)
(* split the chosen one for another's size only wastes memory).  And the   *)
(* PreviousBlock of a free block is stale if the block before it was taken *)
(* whole from the front of the list, or was split behind another one.      *)
Astray(h, fit, n, alignment) ==
  LET free == FreeList(h)
      i    == CHOOSE j \in DOMAIN free : free[j] = fit.best
  IN  \/ fit.offset # AlignedOffset(fit.best, alignment)
      \/ Splits(n + fit.offset, fit.size) /\ fit.size # block[fit.best].size
      \/ block[fit.best].prev # IF i = 1 THEN NULL ELSE free[i - 1]

(* MallocateOnHeap; AllocateOnHeap has the alignment 0x20.                 *)
MallocateOnHeap(h, size, alignment) ==
  LET n     == Aligned(size)
      fit   == BestFit(h, n, alignment)
      taken == Taken(h, fit.best, n + fit.offset, fit.size)
      head  == fit.best + fit.offset
      given == IF fit.offset = 0 THEN taken.block
               ELSE [taken.block EXCEPT ![head] = [@ EXCEPT !.state = "aligned", !.next = fit.best]]
      ptr   == head + Header
  IN  /\ heap[h].base # NULL /\ size <= heap[h].size
      /\ fit.best # NULL
      /\ heap' = [heap EXCEPT ![h].first = taken.first]
      /\ block' = [a \in Addr |-> IF a \in ptr .. ptr + size - 1 THEN NoBlock ELSE given[a]]
      /\ held' = held \cup {[heap |-> h, ptr |-> ptr, size |-> size, alignment |-> alignment]}
      /\ astray' = Astray(h, fit, n, alignment)

-----------------------------------------------------------------------------
\* mutant: the size stays as it was
MergeKeepsSize(m, p) ==
  IF p = NULL \/ m[p].next = NULL \/ m[p].next # p + m[p].size THEN m
  ELSE LET after == m[m[p].next].next
           link  == [m EXCEPT ![p].next = after]
       IN  IF after = NULL THEN link ELSE [link EXCEPT ![after].prev = p]

(* The block after p in the list is joined to it when it lies behind it.   *)
MergeNextBlockIfUnused(m, p) ==
  IF p = NULL \/ m[p].next = NULL \/ m[p].next # p + m[p].size THEN m
  ELSE LET next  == m[p].next
           after == m[next].next
           link  == [m EXCEPT ![p] = [@ EXCEPT !.next = after, !.size = @ + m[next].size]]
       IN  IF after = NULL THEN link ELSE [link EXCEPT ![after].prev = p]

(* The free block of h that b goes behind, if it does not go to the front. *)
Behind(h, b) ==
  LET free == FreeList(h)
  IN  free[Min({i \in DOMAIN free : i = Len(free) \/ b < free[i + 1]})]

FreeOnHeap(x) ==
  LET at    == x.ptr - Header
      b     == IF block[at].state = "aligned" THEN block[at].next ELSE at
      first == heap[x.heap].first
      front == first = NULL \/ b <= first
      link  == IF front
               THEN [block EXCEPT ![b] = [@ EXCEPT !.state = "init", !.prev = NULL, !.next = first]]
               ELSE LET cur == Behind(x.heap, b)
                    IN  [block EXCEPT ![b] = [@ EXCEPT !.state = "init", !.prev = cur,
                                                       !.next = block[cur].next],
                                      ![cur].next = b]
      back  == IF link[b].next = NULL THEN link ELSE [link EXCEPT ![link[b].next].prev = b]
      after == MergeNextBlockIfUnused(back, b)
  IN  /\ x \in held
      /\ held' = held \ {x}
      /\ IF block[b].state = "inuse"
         THEN /\ heap' = [heap EXCEPT ![x.heap].first = IF front THEN b ELSE @]
              /\ block' = MergeNextBlockIfUnused(after, after[b].prev)
         ELSE UNCHANGED <<heap, block>>
      /\ UNCHANGED astray

-----------------------------------------------------------------------------
(* A region belongs to one heap at a time.                                 *)
Unused(r) == \A h \in HeapId : heap[h].base # r.base

(* A list that was spoilt leads anywhere: the heaps are followed up to the *)
(* call that does it.                                                      *)
Next ==
  /\ ~ astray
  /\ \/ \E p \in Process, r \in Region : Unused(r) /\ CreateHeap(p, r)
     \/ \E p \in Process, h \in HeapId : DestroyHeap(p, h)
     \/ \E h \in HeapId, q \in Request : MallocateOnHeap(h, q.size, q.alignment)
     \/ \E x \in held : FreeOnHeap(x)

Spec == Init /\ [][Next]_vars

-----------------------------------------------------------------------------
(* The block that was given as x.                                          *)
BlockOf(x) ==
  IF block[x.ptr - Header].state = "aligned" THEN block[x.ptr - Header].next ELSE x.ptr - Header
Given(h) == {BlockOf(x) : x \in {y \in held : y.heap = h}}
Extent(b) == b .. b + block[b].size - 1

(* What programs are given does not overlap: each piece lies in its heap,  *)
(* is aligned as asked, and no other piece and no header is in it.  This   *)
(* holds with any number of free blocks, but only up to the first call     *)
(* that cuts its block by the size or the offset of another one            *)
(* (heaps.c:149) or unlinks it by a stale PreviousBlock (heaps.c:162):     *)
(* what is given out then may overlap what is held.                        *)
HeldApart ==
  astray \/ \A x \in held :
    LET mine == x.ptr .. x.ptr + x.size - 1
    IN  /\ mine \subseteq heap[x.heap].base .. heap[x.heap].base + heap[x.heap].size - 1
        /\ x.ptr % x.alignment = 0
        /\ \A y \in held \ {x} : mine \cap (BlockOf(y) .. y.ptr + y.size - 1) = {}
        /\ \A h \in HeapId : mine \cap ToSet(FreeList(h)) = {}

(* Every header is one the code can have written, and no memory is lost or *)
(* counted twice: the free blocks, in ascending order, and the given ones  *)
(* tile the heap.  Freed neighbours become one block again, in whatever    *)
(* order they are freed, up to the heap as it was created.  This too ends  *)
(* with the first call that goes by another block's size or offset or by a *)
(* stale link.                                                             *)
TypeOK ==
  /\ heap \in [HeapId -> HeapInfo]
  /\ block \in [Addr -> BlockHeader]
  /\ held \subseteq [heap : HeapId, ptr : Addr, size : Nat, alignment : Nat]
Tiled ==
  astray \/
  /\ TypeOK
  /\ \A h \in HeapId : heap[h].base # NULL =>
       LET free == FreeList(h)
           all  == ToSet(free) \cup Given(h)
       IN  /\ \A i \in 1 .. Len(free) - 1 :
                free[i] < free[i + 1] /\ free[i] + block[free[i]].size # free[i + 1]
           /\ UNION {Extent(b) : b \in all} = heap[h].base .. heap[h].base + heap[h].size - 1 - Header
           /\ \A b, c \in all : b # c => Extent(b) \cap Extent(c) = {}
=============================================================================
