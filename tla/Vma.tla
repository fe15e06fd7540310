--------------------------------- MODULE Vma ---------------------------------
(***************************************************************************)
(* The virtual memory of one process (libmem.c: __alloc, __free,            *)
(* get_free_vmrg_area; mm-vm.c: inc_vma_limit): which addresses belong to   *)
(* which register's region, which ones wait in the free list, and how far    *)
(* the area reaches.  A process runs on one CPU at a time and mmvm_lock is    *)
(* held in __alloc and __free, so a call is one action.  The frames behind   *)
(* the addresses are the business of Paging.                                *)
(***************************************************************************)
EXTENDS Naturals, Sequences, SequencesExt

CONSTANTS Reg,      \* the register indices that pass the bounds check
          MaxSize,  \* bound of the model: the sizes a program asks for
          Align,    \* PAGING64_PAGESZ: an extension is a multiple of it
          MaxBrk    \* bound of the model: how far the area grows

ASSUME VmaAssumption ==
  /\ MaxSize \in Nat /\ MaxBrk \in Nat
  /\ Align \in Nat \ {0}

VARIABLES symrgtbl,        \* symrgtbl[r]: <<rg_start, rg_end>>
          vm_freerg_list,  \* the free regions, head first
          sbrk             \* the end of the area (vm_end is always the same)

vmaVars == <<symrgtbl, vm_freerg_list, sbrk>>

NoRegion == <<0, 0>>
Bytes(rg) == rg[1] .. rg[2] - 1

\* init_mm(): an area without addresses, whose free list holds an empty region.
VmaInit ==
  /\ symrgtbl = [r \in Reg |-> NoRegion]
  /\ vm_freerg_list = <<NoRegion>>
  /\ sbrk = 0

-----------------------------------------------------------------------------
Fits_StartOnly(k, size) == vm_freerg_list[k][1] <= vm_freerg_list[k][2]

Fits(k, size) == vm_freerg_list[k][1] + size <= vm_freerg_list[k][2]

Cut_KeepNode(k, size) == vm_freerg_list

Cut_DropRest(k, size) ==
  IF k < Len(vm_freerg_list) THEN RemoveAt(vm_freerg_list, k)
  ELSE [vm_freerg_list EXCEPT ![k] = <<vm_freerg_list[k][2], vm_freerg_list[k][2]>>]

\* What get_free_vmrg_area leaves of free region k when it gives its first
\* size bytes away: the rest, or nothing; the last node is emptied instead.
Cut(k, size) ==
  LET start == vm_freerg_list[k][1]
      end == vm_freerg_list[k][2]
  IN IF start + size < end
     THEN [vm_freerg_list EXCEPT ![k] = <<start + size, end>>]
     ELSE IF k < Len(vm_freerg_list)
          THEN RemoveAt(vm_freerg_list, k)
          ELSE [vm_freerg_list EXCEPT ![k] = <<end, end>>]

\* __alloc() from the first free region that is large enough.
AllocReuse(r, size) == \E k \in DOMAIN vm_freerg_list :
  /\ Fits(k, size)
  /\ \A j \in 1 .. k - 1 : ~Fits(j, size)
  /\ symrgtbl' = [symrgtbl EXCEPT ![r] = <<vm_freerg_list[k][1],
                                           vm_freerg_list[k][1] + size>>]
  /\ vm_freerg_list' = Cut(k, size)
  /\ sbrk' = sbrk

AlignSize(size) == ((size + Align - 1) \div Align) * Align

Leftover_FromBrk(size) ==
  IF size < AlignSize(size) THEN <<<<sbrk, sbrk + AlignSize(size)>>>> ELSE <<>>

\* What inc_vma_limit() adds to the free list: the part of the extension that
\* was not asked for, if there is one.
Leftover(size) ==
  IF size < AlignSize(size) THEN <<<<sbrk + size, sbrk + AlignSize(size)>>>> ELSE <<>>

\* inc_vma_limit().  It cannot fail: one area overlaps no other, and vm_map_ram
\* never reports that it got no frames.
IncVmaLimit(size) ==
  /\ sbrk + AlignSize(size) <= MaxBrk
  /\ sbrk' = sbrk + AlignSize(size)
  /\ vm_freerg_list' = Leftover(size) \o vm_freerg_list

\* __alloc() when no free region is large enough.
AllocExtend(r, size) ==
  /\ \A k \in DOMAIN vm_freerg_list : ~Fits(k, size)
  /\ IncVmaLimit(size)
  /\ symrgtbl' = [symrgtbl EXCEPT ![r] = <<sbrk, sbrk + size>>]

\* The memmap system call with SYSMEM_INC_OP: more address space, which no
\* register names.
Grow(size) == IncVmaLimit(size) /\ UNCHANGED symrgtbl

Free_KeepRegister(r) ==
  /\ symrgtbl[r] # NoRegion
  /\ vm_freerg_list' = <<symrgtbl[r]>> \o vm_freerg_list
  /\ UNCHANGED <<symrgtbl, sbrk>>

\* __free()
Free(r) ==
  /\ symrgtbl[r] # NoRegion
  /\ vm_freerg_list' = <<symrgtbl[r]>> \o vm_freerg_list
  /\ symrgtbl' = [symrgtbl EXCEPT ![r] = NoRegion]
  /\ sbrk' = sbrk

VmaNext ==
  \/ \E r \in Reg : \/ Free(r)
                    \/ \E size \in 1 .. MaxSize : AllocReuse(r, size) \/ AllocExtend(r, size)
  \/ \E size \in 1 .. MaxSize : Grow(size)

VmaSpec == VmaInit /\ [][VmaNext]_vmaVars

-----------------------------------------------------------------------------
Region == {rg \in (0 .. MaxBrk) \X (0 .. MaxBrk) : rg[1] <= rg[2]}

\* Type invariant; a region never ends before it starts or beyond the area.
VmaTypeOK ==
  /\ sbrk \in 0 .. MaxBrk
  /\ symrgtbl \in [Reg -> Region]
  /\ vm_freerg_list \in Seq(Region)

Disjoint(a, b) == Bytes(a) \cap Bytes(b) = {}

\* An address belongs to at most one owner, a register or a node of the free
\* list, and lies inside the area: however regions are cut, cloned, freed and
\* handed out again, two variables of a program never share a byte, and no
\* variable's memory is given away while it lives.
RegionsDisjoint ==
  /\ \A r, s \in Reg : r # s => Disjoint(symrgtbl[r], symrgtbl[s])
  /\ \A j, k \in DOMAIN vm_freerg_list :
       j # k => Disjoint(vm_freerg_list[j], vm_freerg_list[k])
  /\ \A r \in Reg, k \in DOMAIN vm_freerg_list :
       Disjoint(symrgtbl[r], vm_freerg_list[k])
  /\ \A r \in Reg : symrgtbl[r][2] <= sbrk
  /\ \A k \in DOMAIN vm_freerg_list : vm_freerg_list[k][2] <= sbrk

Owned(b) == \/ \E r \in Reg : b \in Bytes(symrgtbl[r])
            \/ \E k \in DOMAIN vm_freerg_list : b \in Bytes(vm_freerg_list[k])

\* Address space is lost in one way only: an alloc into a register that still
\* has a region forgets that region.  Free, the splitting and removal of free
\* nodes, and the rounding of an extension lose nothing.
LostOnlyByOverwrite == [][
  \A b \in 0 .. MaxBrk - 1 :
    Owned(b) /\ ~Owned(b)' =>
      \E r \in Reg : b \in Bytes(symrgtbl[r]) /\ symrgtbl'[r] \notin {symrgtbl[r], NoRegion}
  ]_vmaVars
=============================================================================
