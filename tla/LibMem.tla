------------------------------- MODULE LibMem -------------------------------
(***************************************************************************)
(* The memory instructions of one process (cpu.c: run; libmem.c): the       *)
(* regions of Vma over a memory that keeps what is written (FlatMemory, which *)
(* Paging implements), where a cell is one byte.  An access may fail, outside *)
(* its region or for want of a page; it then changes nothing, and only a     *)
(* copy, which has moved some of its bytes, shows that it did.              *)
(***************************************************************************)
EXTENDS Vma

CONSTANTS Self,    \* the process
          Value, Fresh,
          Offsets, CopySizes   \* bounds of the model: the copies a program makes

ASSUME LibMemAssumption ==
  /\ Fresh \notin Value
  /\ Offsets \subseteq Nat /\ CopySizes \subseteq Nat

VARIABLES mem,     \* mem[Self][a]: the byte at address a
          copy,    \* the copy that is under way
          orig     \* history: mem as the copy began

libVars == <<vmaVars, mem, copy, orig>>

Flat == INSTANCE FlatMemory WITH
  Proc <- {Self}, Page <- 0 .. MaxBrk, last <- <<>>

NoCopy == [pc |-> "none"]
Idle == copy = NoCopy

LibInit ==
  /\ VmaInit
  /\ Flat!FlatInit
  /\ copy = NoCopy
  /\ orig = mem

-----------------------------------------------------------------------------
InBounds_OffByOne(r, k) ==
  /\ symrgtbl[r] # NoRegion
  /\ symrgtbl[r][1] + k <= symrgtbl[r][2]

\* The test of __read and __write.
InBounds(r, k) ==
  /\ symrgtbl[r][1] # symrgtbl[r][2]
  /\ symrgtbl[r][1] + k < symrgtbl[r][2]

Addr(r, k) == symrgtbl[r][1] + k

\* ALLOC, KMALLOC, and KMEM_CACHE_ALLOC, which asks for a page.
LibAlloc(r, size) ==
  /\ Idle
  /\ AllocReuse(r, size) \/ AllocExtend(r, size)
  /\ UNCHANGED <<mem, copy, orig>>

LibFree(r) == Idle /\ Free(r) /\ UNCHANGED <<mem, copy, orig>>

LibGrow(size) == Idle /\ Grow(size) /\ UNCHANGED <<mem, copy, orig>>

\* READ.  The value goes to run()'s own copy of the instruction and no further.
LibRead(r, k, v) ==
  /\ Idle
  /\ InBounds(r, k)
  /\ Flat!Becomes(Self, Addr(r, k), v)
  /\ UNCHANGED <<vmaVars, copy, orig>>

\* WRITE
LibWrite(r, k, v) ==
  /\ Idle
  /\ InBounds(r, k)
  /\ Flat!Stores(Self, Addr(r, k), v)
  /\ UNCHANGED <<vmaVars, copy, orig>>

-----------------------------------------------------------------------------
\* COPY_FROM_USER and COPY_TO_USER: a loop of one-byte reads and writes through
\* the same __read and __write.  The offset is on the user's side.
CopyBegin(dir, src, dst, off, n) ==
  /\ Idle
  /\ copy' = [pc |-> "read", dir |-> dir, src |-> src, dst |-> dst,
              off |-> off, n |-> n, i |-> 0, data |-> Fresh]
  /\ orig' = mem
  /\ UNCHANGED <<vmaVars, mem>>

ReadAt_NoOffset(j) == j
ReadAt(j) == IF copy.dir = "from_user" THEN copy.off + j ELSE j
WriteAt(j) == IF copy.dir = "from_user" THEN j ELSE copy.off + j

CopyRead(v) ==
  /\ copy.pc = "read" /\ copy.i < copy.n
  /\ InBounds(copy.src, ReadAt(copy.i))
  /\ Flat!Becomes(Self, Addr(copy.src, ReadAt(copy.i)), v)
  /\ copy' = [copy EXCEPT !.pc = "write", !.data = v]
  /\ UNCHANGED <<vmaVars, orig>>

CopyWrite ==
  /\ copy.pc = "write"
  /\ InBounds(copy.dst, WriteAt(copy.i))
  /\ Flat!Stores(Self, Addr(copy.dst, WriteAt(copy.i)), copy.data)
  /\ copy' = [copy EXCEPT !.pc = "read", !.i = @ + 1, !.data = Fresh]
  /\ UNCHANGED <<vmaVars, orig>>

\* The read or the write of a byte fails, and the copy stops there.
CopyFail ==
  /\ copy.pc = "write" \/ (copy.pc = "read" /\ copy.i < copy.n)
  /\ copy' = NoCopy
  /\ orig' = mem
  /\ UNCHANGED <<vmaVars, mem>>

CopyEnd ==
  /\ copy.pc = "read" /\ copy.i = copy.n
  /\ copy' = NoCopy
  /\ orig' = mem
  /\ UNCHANGED <<vmaVars, mem>>

LibNext ==
  \/ \E r \in Reg, size \in 1 .. MaxSize : LibAlloc(r, size)
  \/ \E r \in Reg : LibFree(r)
  \/ \E size \in 1 .. MaxSize : LibGrow(size)
  \/ \E r \in Reg, k \in 0 .. MaxSize, v \in Value : LibRead(r, k, v) \/ LibWrite(r, k, v)
  \/ \E dir \in {"from_user", "to_user"}, src, dst \in Reg, off \in Offsets, n \in CopySizes :
       CopyBegin(dir, src, dst, off, n)
  \/ \E v \in Value : CopyRead(v)
  \/ CopyWrite \/ CopyFail \/ CopyEnd

LibSpec == LibInit /\ [][LibNext]_libVars

-----------------------------------------------------------------------------
\* The bytes a copy has moved are those its source held when it began, and the
\* other bytes of the destination are as they were: also when the copy stops
\* half way, and also when both are one register, unless the copy runs to
\* higher addresses of that register, where it reads what it has just written.
CopyExact ==
  ~Idle /\ (copy.src # copy.dst \/ copy.dir = "from_user" \/ copy.off = 0) =>
    LET from == IF copy.dir = "from_user" THEN copy.off ELSE 0
        to == copy.off - from
    IN \A k \in 0 .. MaxSize - 1 :
         InBounds(copy.dst, k) =>
           LET origin == IF k \in to .. to + copy.i - 1
                         THEN orig[Self][Addr(copy.src, from + k - to)]
                         ELSE orig[Self][Addr(copy.dst, k)]
           IN origin \in {Fresh, mem[Self][Addr(copy.dst, k)]}

Store == INSTANCE VarStore WITH
  val <- [r \in Reg |-> [k \in 1 .. symrgtbl[r][2] - symrgtbl[r][1] |->
                           mem[Self][symrgtbl[r][1] + k - 1]]]

\* What is written through a register is put into the bytes of that register.
AsAsked ==
  IF Idle
  THEN \A r \in Reg, k \in 0 .. MaxSize, v \in Value :
         LibWrite(r, k, v) => Store!Put(r, k + 1, v)
  ELSE CopyWrite => Store!Put(copy.dst, WriteAt(copy.i) + 1, copy.data)

\* Every register has bytes of its own, whatever was allocated, freed, reused,
\* grown and copied before: no access through one register changes what another
\* one holds, and no allocation changes what a living variable holds.
ImplementsVarStore == Store!VarSpec /\ [][AsAsked]_libVars
=============================================================================
