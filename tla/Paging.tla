-------------------------------- MODULE Paging --------------------------------
(***************************************************************************)
(* Demand paging (libmem.c, mm64.c, mm-vm.c, mm-memphy.c): page tables, the *)
(* frame lists of RAM and of the active swap device, the per-process victim *)
(* lists, and the contents that move between the two devices.               *)
(* Accesses are atomic here: they are those of one CPU, or of several that  *)
(* hold mmvm_lock (__write, __alloc).  One value stands for the bytes of a   *)
(* page; only pages below sbrk are accessed, since a region check precedes   *)
(* every access.                                                            *)
(***************************************************************************)
EXTENDS Naturals, Sequences, SequencesExt

CONSTANTS Proc,
          NumPages,    \* bound of the model: pages of an address space
          PgnRange,    \* what the 14-bit page number of an address can hold
          Stride,      \* 4096-byte alignment of an extension, in 256-byte pages
          NumFrames,   \* frames of RAM
          FpnRange,    \* what the 13-bit frame field of an entry can hold
          NumSlots,    \* frames of the active swap device
          Value,       \* what a page can hold
          Zero,        \* the content of both devices at the start
          Fresh,       \* a page that was never mapped (see FlatMemory)
          Absent       \* a page table entry of 0

ASSUME PagingAssumption ==
  /\ NumPages \in Nat /\ NumFrames \in Nat /\ NumSlots \in Nat
  /\ PgnRange \in Nat \ {0} /\ FpnRange \in Nat \ {0}
  /\ NumPages <= PgnRange    \* an address space of at most 4 MB
  /\ NumFrames <= FpnRange   \* a RAM of at most 2 MB
  /\ Stride \in Nat \ {0}
  /\ Zero \in Value
  /\ Fresh \notin Value
  /\ Absent \notin {"ram", "swap"} \X Nat

VARIABLES pte,       \* pte[p][g]: Absent, <<"ram", fpn>> or <<"swap", slot>>
          fifo_pgn,  \* per process, head first
          ram_free,  \* free_fp_list of mram, head first
          swp_free,  \* free_fp_list of active_mswp, head first
          ram, swp,  \* the contents of the frames
          sbrk,      \* per process, in pages (vm_end is the same)
          last       \* the latest call and its outcome

pagingVars == <<pte, fifo_pgn, ram_free, swp_free, ram, swp, sbrk, last>>

Page == 0 .. NumPages - 1
Frame == 0 .. NumFrames - 1
Slot == 0 .. NumSlots - 1

Present(p, g) == pte[p][g] # Absent /\ pte[p][g][1] = "ram"
Swapped(p, g) == pte[p][g] # Absent /\ pte[p][g][1] = "swap"

FormatList_FromOne(n) == [k \in 1 .. n |-> k]

\* MEMPHY_format() links the n frames of a device in ascending order.
FormatList(n) == [k \in 1 .. n |-> k - 1]

\* init_mm() clears the table, the list and sbrk of each process.
PagingInit ==
  /\ pte = [p \in Proc |-> [g \in Page |-> Absent]]
  /\ fifo_pgn = [p \in Proc |-> <<>>]
  /\ ram_free = FormatList(NumFrames)
  /\ swp_free = FormatList(NumSlots)
  /\ ram = [f \in Frame |-> Zero]
  /\ swp = [s \in Slot |-> Zero]
  /\ sbrk = [p \in Proc |-> 0]
  /\ last = <<>>

-----------------------------------------------------------------------------
(* What an access does to the page once it is in frame f, with content v.   *)
(* It is a read, or a write of w.                                           *)
Accesses(p, g) == {<<"read", p, g>>} \cup {<<"write", p, g, w>> : w \in Value}
ContentAfter(a, v) == IF a[1] = "write" THEN a[4] ELSE v
Outcome(a, v) == <<a[1], a[2], a[3], ContentAfter(a, v)>>
Failure(a) == <<"fail", a[2], a[3]>>

FpnField_TooNarrow(f) == f % (FpnRange - 1)
FpnField(f) == f % FpnRange

\* pte_set_fpn()
Mapped(table, p, g, f) == [table EXCEPT ![p][g] = <<"ram", FpnField(f)>>]

\* enlist_pgn_node() goes to the end of the list.
Enlisted(list, g) == Append(list, g)

\* __swap_cp_page() of the victim's frame f to slot s, its 256 bytes one by one.
CopyToSwap(f, s) == swp' = [swp EXCEPT ![s] = ram[f]]

\* pg_getpage() of a page that is in RAM, then the access.
Hit(p, g, a) ==
  /\ Present(p, g)
  /\ LET f == pte[p][g][2]
     IN /\ ram' = [ram EXCEPT ![f] = ContentAfter(a, @)]
        /\ last' = Outcome(a, ram[f])
  /\ UNCHANGED <<pte, fifo_pgn, ram_free, swp_free, swp, sbrk>>

SwappedIn_Skipped(p, g, old) == old

\* The content of the frame that page g gets: its own if it comes back from
\* the swap device, and otherwise whatever the frame held.
SwappedIn(p, g, old) == IF Swapped(p, g) THEN swp[pte[p][g][2]] ELSE old

AfterGet_NotRemoved(list) == list

\* MEMPHY_get_freefp() takes the head of a free list.
AfterGet(list) == Tail(list)

\* pg_getpage() of another page when RAM has a free frame.
FaultFree(p, g, a) ==
  /\ ~Present(p, g)
  /\ ram_free # <<>>
  /\ LET f == Head(ram_free)
         v == SwappedIn(p, g, ram[f])
     IN /\ ram' = [ram EXCEPT ![f] = ContentAfter(a, v)]
        /\ pte' = Mapped(pte, p, g, f)
        /\ last' = Outcome(a, v)
  /\ ram_free' = AfterGet(ram_free)
  /\ fifo_pgn' = [fifo_pgn EXCEPT ![p] = Enlisted(@, g)]
  /\ UNCHANGED <<swp_free, swp, sbrk>>

\* find_victim_page(): the end of the list, where enlist_pgn_node puts pages.
Victim(p) == Last(fifo_pgn[p])

Delisted_Kept(p) == fifo_pgn[p]
Delisted(p) == Front(fifo_pgn[p])

\* pte_set_swap() of the victim.
Evicted(p, s) == [pte EXCEPT ![p][Victim(p)] = <<"swap", s>>]

\* pg_getpage() when RAM is full: the victim goes to a fresh slot of the swap
\* device and page g takes its frame.  The slot g may come from stays taken.
FaultEvict(p, g, a) ==
  /\ ~Present(p, g)
  /\ ram_free = <<>>
  /\ fifo_pgn[p] # <<>> /\ swp_free # <<>>
  /\ LET f == pte[p][Victim(p)][2]
         s == Head(swp_free)
         v == SwappedIn(p, g, ram[f])
     IN /\ CopyToSwap(f, s)
        /\ ram' = [ram EXCEPT ![f] = ContentAfter(a, v)]
        /\ pte' = Mapped(Evicted(p, s), p, g, f)
        /\ last' = Outcome(a, v)
  /\ swp_free' = AfterGet(swp_free)
  /\ fifo_pgn' = [fifo_pgn EXCEPT ![p] = Enlisted(Delisted(p), g)]
  /\ UNCHANGED <<ram_free, sbrk>>

\* RAM is full and the process has no page to give up: the access fails.
FaultNoVictim(p, g, a) ==
  /\ ~Present(p, g)
  /\ ram_free = <<>> /\ fifo_pgn[p] = <<>>
  /\ last' = Failure(a)
  /\ UNCHANGED <<pte, fifo_pgn, ram_free, swp_free, ram, swp, sbrk>>

\* The swap device is full too: the access fails, but find_victim_page has
\* already dropped the victim, still in RAM, from the list.
FaultNoSlot(p, g, a) ==
  /\ ~Present(p, g)
  /\ ram_free = <<>> /\ fifo_pgn[p] # <<>> /\ swp_free = <<>>
  /\ fifo_pgn' = [fifo_pgn EXCEPT ![p] = Delisted(p)]
  /\ last' = Failure(a)
  /\ UNCHANGED <<pte, ram_free, swp_free, ram, swp, sbrk>>

\* PAGING_PGN() of an address in the v-th page of the address space.
PgnField(v) == v % PgnRange

\* __read() and __write() of a page the process has allocated.
Access(p) == \E v \in 0 .. sbrk[p] - 1 : \E a \in Accesses(p, v) :
  LET g == PgnField(v)
  IN \/ Hit(p, g, a)
     \/ FaultFree(p, g, a)
     \/ FaultEvict(p, g, a)
     \/ FaultNoVictim(p, g, a)
     \/ FaultNoSlot(p, g, a)

-----------------------------------------------------------------------------
\* vmap_page_range(): the pages from b on get the first n free frames, in order,
\* and go to the end of the victim list.
VmapPageRange(p, b, n) ==
  /\ pte' = [pte EXCEPT ![p] = [g \in Page |->
               IF g \in b .. b + n - 1
               THEN <<"ram", FpnField(ram_free[g - b + 1])>> ELSE @[g]]]
  /\ fifo_pgn' = [fifo_pgn EXCEPT ![p] = @ \o [j \in 1 .. n |-> b + j - 1]]

\* inc_vma_limit() by n aligned units, when alloc_pages_range gets n frames:
\* the first n small pages of the extension are mapped.
Extend(p, n) ==
  /\ sbrk[p] + Stride * n <= NumPages
  /\ Len(ram_free) >= n
  /\ VmapPageRange(p, PgnField(sbrk[p]), n)
  /\ ram_free' = SubSeq(ram_free, n + 1, Len(ram_free))
  /\ sbrk' = [sbrk EXCEPT ![p] = @ + Stride * n]
  /\ last' = <<"alloc", p>>
  /\ UNCHANGED <<swp_free, ram, swp>>

\* Too few frames: alloc_pages_range puts those it got back one by one, so that
\* they end up in reverse order.  vm_map_ram's addr_t result is never < 0, and
\* the extension goes ahead with nothing mapped.
ExtendUnmapped(p, n) ==
  /\ sbrk[p] + Stride * n <= NumPages
  /\ Len(ram_free) < n
  /\ ram_free' = Reverse(ram_free)
  /\ sbrk' = [sbrk EXCEPT ![p] = @ + Stride * n]
  /\ last' = <<"alloc", p>>
  /\ UNCHANGED <<pte, fifo_pgn, swp_free, ram, swp>>

PagingNext ==
  \E p \in Proc : \/ Access(p)
                  \/ \E n \in 1 .. NumPages : Extend(p, n) \/ ExtendUnmapped(p, n)

PagingSpec == PagingInit /\ [][PagingNext]_pagingVars

-----------------------------------------------------------------------------
Entry == {Absent} \cup ({"ram"} \X Frame) \cup ({"swap"} \X Slot)

\* Type invariant.
PagingTypeOK ==
  /\ pte \in [Proc -> [Page -> Entry]]
  /\ fifo_pgn \in [Proc -> Seq(Page)]
  /\ ram_free \in Seq(Frame) /\ swp_free \in Seq(Slot)
  /\ ram \in [Frame -> Value] /\ swp \in [Slot -> Value]
  /\ sbrk \in [Proc -> 0 .. NumPages]

\* No two pages, of one process or of two, share a RAM frame; no frame in use
\* is on the free list or there twice; and no frame is lost to both.
FrameOwners(f) == {x \in Proc \X Page : pte[x[1]][x[2]] = <<"ram", f>>}
FreeEntries(f) == {n \in DOMAIN ram_free : ram_free[n] = f}
FrameExclusive ==
  \A f \in Frame :
    \/ FreeEntries(f) = {} /\ \E x \in Proc \X Page : FrameOwners(f) = {x}
    \/ FrameOwners(f) = {} /\ \E n \in DOMAIN ram_free : FreeEntries(f) = {n}

\* A slot of the swap device holds at most one page, and none while it is free.
\* (It may hold none and not be free: swapping in does not give it back.)
SlotExclusive ==
  \A s \in Slot :
    LET owners == {x \in Proc \X Page : pte[x[1]][x[2]] = <<"swap", s>>}
        entries == {n \in DOMAIN swp_free : swp_free[n] = s}
    IN /\ \A x, y \in owners : x = y
       /\ \A m, n \in entries : m = n
       /\ owners = {} \/ entries = {}

\* The victim list names pages that are in RAM, each once, so that the frame of
\* a victim is really its frame; and it forgets a page that is in RAM only when
\* the swap device is full.
FifoExact ==
  \A p \in Proc :
    /\ \A m, n \in DOMAIN fifo_pgn[p] : fifo_pgn[p][m] = fifo_pgn[p][n] => m = n
    /\ \A n \in DOMAIN fifo_pgn[p] : Present(p, fifo_pgn[p][n])
    /\ \A g \in Page : Present(p, g) =>
         swp_free = <<>> \/ \E n \in DOMAIN fifo_pgn[p] : fifo_pgn[p][n] = g

\* The memory a process sees.
Content(p, g) ==
  CASE Present(p, g) -> ram[pte[p][g][2]]
    [] Swapped(p, g) -> swp[pte[p][g][2]]
    [] OTHER         -> Fresh

Flat == INSTANCE FlatMemory WITH mem <- [p \in Proc |-> [g \in Page |-> Content(p, g)]]

\* Paging implements a flat memory: whatever is evicted, swapped in, allocated
\* or refused in between, a read returns the last value written to its page.
ImplementsFlatMemory == Flat!FlatSpec

\* libmem.c:748 calls fifo_pgn a "FIFO list": the page that leaves RAM is the
\* one that has been in the list longest.
VictimIsOldest == [][
  \A p \in Proc, g \in Page :
    Present(p, g) /\ ~Present(p, g)' => g = Head(fifo_pgn[p])
  ]_pagingVars
=============================================================================
