# A verification of the BTL_HDH operating system simulator

The program (`src/src/*.c`, headers in `src/include/`) simulates a small
operating system: CPU threads and a loader thread run in lock step on a timer,
a multi-level queue (MLQ) scheduler hands processes to CPUs, and a paging
memory manager with one swap device gives each process an address space. The
build that is modelled is the one `include/os-cfg.h` selects: `MLQ_SCHED`,
`MM_PAGING`, `MM64`. Paths below are relative to the repository.

To check everything again, run in this directory:
`tlc -workers 2 -config X.cfg M` for each run of the table in section 3, and
`tlapm M.tla` for `ListLemmas` and each `X_proofs` module.

## 1. Inventory

| Component | State | Operations | Interacts with |
|---|---|---|---|
| Ready queues, MLQ scheduler (`queue.c`, `sched.c`) | `mlq_ready_queue[]`, `running_list`, the cursor `curr_prio`, `curr_slot`; `queue_lock` | `add_proc`, `get_proc`, `put_proc`, `finish_proc` | called by CPUs and loader; system calls search its lists |
| Timer (`timer.c`) | `_time`, `timer_stop`; per device `done`, `fsh`, two locks, two condition variables | `next_slot`, `detach_event`, the timer thread, `stop_timer` | barrier of CPUs and loader |
| CPU and loader threads (`os.c`) | per CPU `proc`, `time_left`; loader index; the global `done` | `cpu_routine`, `ld_routine` | scheduler, timer, `run` |
| CPU instructions (`cpu.c`) | `pc`, registers of a process | `run` | memory library, system calls |
| Regions of a process (`libmem.c`, `mm-vm.c`) | `symrgtbl`, `vm_freerg_list`, `sbrk` | `__alloc`, `__free`, `get_free_vmrg_area`, `inc_vma_limit` | paging; `mmvm_lock` |
| Paging (`libmem.c`, `mm64.c`) | page tables, `fifo_pgn` | `pg_getpage`, `find_victim_page`, `pte_set_fpn`, `pte_set_swap`, `vm_map_ram` | devices |
| Devices (`mm-memphy.c`) | contents, `free_fp_list` | `MEMPHY_get_freefp`, `MEMPHY_put_freefp`, read, write | shared by all processes, without a lock of their own |
| Kernel memory (`libmem.c`) | the same regions | `libkmem_malloc`, `libkmem_cache_*`, `libkmem_copy_*` | `__alloc`, `__read`, `__write` |
| System calls (`syscall.c`, `sys_mem.c`, ...) | none of their own | dispatch, `__sys_memmap` | walk `running_list` without `queue_lock`, `inc_vma_limit` without `mmvm_lock` |
| Loader's file format (`loader.c`) | none | `load` | its results are constants of the models |
| Not compiled or output only | | `mm.c`, `mem.c`, `paging.c`, `print_debug.c`, `gantt.py` | |

What is hard in this code, and what makes each part correct:

* **Scheduler.** Four operations in any order from several CPUs and the loader.
  A process is in one place only; a freed PCB is in no list; `get_proc` finds a
  process if there is one; no level waits for ever; nothing is forgotten unless
  a queue is full.
* **Timer.** A handshake over two locks and two condition variables per
  device; devices are released one after the other while others run on. It is
  a barrier, it loses no wakeup, and it ends.
* **Threads.** `done` is read without a lock between two calls of `get_proc`;
  `time_left` belongs to the CPU and not to the process. No process is left
  behind, none executes twice in a slot, slices are whole, all processes end.
* **Regions.** Nodes are moved, cloned and cut in place. Two variables never
  share a byte; free space is not lost.
* **Paging.** A frame passes between two pages, two lists and two devices, and
  each step can fail. Page tables and lists agree, and a read returns the last
  write.
* **Devices.** The lists have no lock; some callers hold `mmvm_lock`, some not.

The full list of hazards, each at its line, is in `PROJECT.json`, with the
properties that cover it or the reason none does yet.

## 2. Modules

    Queue --> MlqSched --> MlqBypass --> MCSched
                 |
                 v
    SlotClock -> OsSim --> Syscall --> MCOs
    Timer                              Timer   implements SlotClock
    Paging --> MCPaging                Paging  implements FlatMemory
    FrameCalls --> MCFrames            FrameCalls implements FramePool
    Vma --> MCVma
     \---> LibMem --> MCLib            LibMem  uses FlatMemory, implements VarStore

The proofs are in modules of their own, each on top of the module it is about:

    ListLemmas --> MlqSched_proofs --> MlqBypass_proofs, Syscall_proofs
             \---> LibMem_proofs (Vma and LibMem), FrameCalls_proofs, Paging_proofs
    Timer_proofs

**Queue** has the operators of `queue.c`: `Enqueue` (drops the process when the
queue is full), `IsBest`/`DequeueAt` (the first entry with the smallest default
priority, then a shift), `Purge`.

**MlqSched** is `sched.c`: one action per call, since each is one critical
section of `queue_lock`. `proc[c]` is the variable `proc` of `cpu_routine`. The
loop of `get_mlq_proc` is not unrolled: after `k` advances it stands on
`LevelAfter(k)` with `SlotAfter(k)` left, and the first round that `Serves` is
the one that dequeues. `loaded` and `finished` are history. Clamping an invalid
`prio` is `Level`.

**MlqBypass** adds a history variable that counts how often other levels were
served, and the fairness of the CPUs. `BypassBound(l)` is what the other levels
can be served in one round: all turns, 1 + ... + `MaxPrio`, but its own. MCSched
checks that this closed form is the sum of the turns.

**SlotClock** is the abstract specification of the timer: a barrier with the
phases working, waiting and gone. **Timer** is `timer.c` in steps of one
critical section (of `event_lock` or of `timer_lock`), with spurious wakeups.
Its refinement mapping reads the phase of a device off `done`, `fsh` and the
timer's position: a `done` flag that the timer has not cleared yet belongs to
the slot that has just ended.

**OsSim** composes MlqSched and SlotClock with the code of `os.c`. Every step
ends at a point where another thread can see the difference: a scheduler call,
the read or write of `done`, an instruction, `next_slot`, `detach_event`. A
process is its number of instructions; the memory effects are in the modules
below.

**Syscall** adds the one instruction that looks at state of other threads: the
`memmap` system call, whose handler gets a pid and searches `running_list`, and
then every ready queue, without `queue_lock`. `Trap` is the way from `run()` to
the handler. For each entry the code tests the size, loads `proc[i]`, compares
the pid it points to, and loads `proc[i]` once more for the result; these are the
steps `TestSize`, `ReadEntry`, `ReadPid` and `TakeCaller`, and dispatches,
preemptions and exits on other CPUs come in between. So a search may be at an
index that is no longer below the size: `slots` has the arrays with what a shift
leaves behind their end (`Store`). It may also take another process than the one
it compared, and a PCB that has been freed may show any pid. The test of `proc[i]`
for NULL always succeeds (`AlwaysAtSlot`). A critical section of the scheduler is
one step, so that no search sees a list halfway through a shift. `shifted` is
history: whether a list lost an entry while it was searched. The operation on
the PCB that was found is not seen by the CPU threads; `SYSMEM_INC_OP` is `Grow`
in Vma.

**FlatMemory** is the abstract specification of paging: private memory, in which
a page holds what was last written to it. **Paging** has the page tables, victim
lists, free lists and contents, with one action for each way through
`pg_getpage` (hit, free frame, eviction, no victim, no slot) and through
`inc_vma_limit` (frames for all pages, or too few). An extension is aligned to
4096 bytes but its frames are mapped to the first 256-byte pages only (constant
`Stride`). `FpnRange` and `PgnRange` are the ranges of the frame field of a page
table entry and of the page number of an address, `FpnField` and `PgnField` the
cuts to them. More frames than that (2 MB of RAM) or more pages (4 MB of address
space) are outside `PagingAssumption`. Frames of finished processes are not given
back: `free_pcb_memph` has no caller.

**FrameCalls** opens up what Paging takes as atomic. The steps are the read of
a list head and its update, for faults and extensions of processes on different
CPUs; `Locks` says which calls hold `mmvm_lock`. `held` stands for what the page
tables name. A stale list head is modelled by what it leads to most directly
(the same frame again); the double `free` of the list node that comes with it
has no defined outcome, and no run that is expected to pass reaches it.

**FramePool** is the abstract specification of the free lists: a call gets as many
frames as it asks for at once, or none, and is refused only while RAM has fewer.
The mapping counts the frames in a call's hands as free (`Unowned`), and the
request as open until its last frame is entered or its first is put back
(`Asked`).

**Vma** is the address space of one process: the symbol table, the free region
list and `sbrk`, with the removal of a node by cloning its successor and the
emptied node at the end of the list. A process is on one CPU at a time, so its
calls do not interleave with one another.

**LibMem** puts the memory instructions of `run()` on top: `READ` and `WRITE` by
register and offset with the region test, the kernel allocations, which are
`__alloc` by other names, and the copies, one byte at a time, that may stop at
any byte. The bytes are in a FlatMemory, the promise that Paging is shown to
keep, so that LibMem need not know of frames. **VarStore** is what a program
may expect of all this: each register names a sequence of bytes of its own.
LibMem implements it with the bytes between `rg_start` and `rg_end` of each
register, and `AsAsked` says that a write goes to the register and index that
the instruction names.

`PROJECT.json` maps each definition to its lines. The `X_Variant` operators
before some definitions are mutated forms of them; they are used only to show
that a property fails when the code has that bug.

## 3. Runs

| Run | Module, cfg | What it shows |
|---|---|---|
| sched_safety | MCSched, sched_safety | For five processes on three levels, two CPUs and queues of two: `NoDoubleDispatch`, `NoStalePointer`, `RunningListExact`, `WorkConserving`, `BoundedBypass`, `LostOnlyWhenFull` (a process disappears only when it is handed in and its level is full), and `EventuallyDispatched`: a process with the smallest default priority of its level does not starve |
| sched_round_robin | MCSched, sched_round_robin | violation: a level is not served round robin |
| timer | Timer, timer | `ImplementsSlotClock` (safety and progress), `ExitsLast`, `SleeperWakes`, `TimerEnds` for three devices |
| os_sim | MCOs, os_sim | `StopIsSafe`, `OncePerSlot`, `WholeSlice`, `EveryProcessFinishes`, `BusyCpuStops`, `MissedOnlyByShift` for two CPUs, the loader and four processes |
| os_terminates | MCOs, os_terminates | violation: `SimulationEnds` |
| memmap_stale | MCOs, memmap_stale | violation: `NoFreedRead`, a system call reads the PCB of a process that has been freed |
| paging | MCPaging, paging | `FrameExclusive`, `SlotExclusive`, `FifoExact`, `ImplementsFlatMemory` for two processes with more pages than RAM and swap together |
| paging_victim | MCPaging, paging_victim | violation: the victim is the newest page, not the oldest |
| frame_lock | MCFrames, frame_lock | Calls that hold `mmvm_lock`: `InOnePlace`, `NothingLost`, `RefusedOnlyWhenShort`, `ImplementsFramePool` |
| frame_race | MCFrames, frame_race | violation: with unlocked reads two processes get one frame |
| vma | MCVma, vma | `RegionsDisjoint`, `LostOnlyByOverwrite` for three registers |
| libmem | MCLib, libmem | `CopyExact`, `ImplementsVarStore` for two registers, with copies that fail at any byte |

Each passing run but *libmem*, whose state is Vma's and plain records, also checks the
type invariant of its module.

### Bounds

* *sched_safety.* Queues of two entries overflow, since three processes share
  level 0 (one through the clamp), `running_list` is just large enough for two
  CPUs, and the cursor has turns of 3, 2 and 1 slots. Processes that finish do
  not return, so the state space is finite without a further bound.
* *timer.* `TimeCap` saturates `_time`, which no guard reads. Three devices
  give a first, a middle and a last one in the release loop.
* *os_sim.* Four processes: one longer than its slice of 2, one shorter, one
  that comes late, one with no instruction. Two of them make system calls, one
  as its last instruction of a slice and as the last of its program, so that
  searches overlap with dispatches, preemptions and exits on the other CPU: a search
  reads slots behind the end of a list, misses its caller and takes another
  process for it. `TimeCap = 10` is past the last
  start time; no thread reads the clock after that.
* *paging.* Two frames, two slots and four pages for each of two processes
  reach full RAM, full swap, a failed eviction and a partial extension. One
  value stands for the bytes of a page. `FpnRange` and `PgnRange` are as small as
  `PagingAssumption` allows.
* *frame_lock.* Three frames and extensions of up to three pages: a failing
  extension can have two frames to put back while a third process faults.
* *vma.* Areas up to 8 units with alignment 2 and sizes up to 3: a region may be
  smaller than, equal to, or larger than an aligned unit, and the free list
  reaches four nodes and more. The run does not check deadlock, because at `MaxBrk`, a
  bound of the model, nothing may be left to do.

* *libmem.* An area of four bytes with alignment 2 and regions of up to three
  bytes: two registers can be neighbours, an allocation can reuse what another
  one left, and a copy of two bytes with offset 0 or 1 can overlap itself, leave
  its region after one byte, or fit. The contents are two values, which are
  symmetric.

*timer* and *os_sim* do not check deadlock either: all threads really end.
Symmetry is used only for safety properties.

### Fairness

* *sched_safety* (for `EventuallyDispatched`): a CPU that holds a process puts it back or finishes it in the
  end, and one that holds none asks again. `cpu_routine` guarantees both: slices
  and programs are finite and every path of its loop comes back to `get_proc`.
  Nothing is assumed of the order of the CPUs.
* *timer, os_sim:* weak fairness of each thread (the host schedules them) and,
  in *timer*, of ending a slot, since every path through `cpu_routine` and
  `ld_routine` comes to `next_slot` or `detach_event`. The weak fairness of the
  clock in *os_sim* is what *timer* shows of the implementation. Spurious
  wakeups have no fairness.

## 4. What is proved

TLAPS proves the following for every value of the constants that satisfies the
assumptions named. TLC evaluates the `ASSUME`s of the modules in the runs.

| Module | Theorem | Statement |
|---|---|---|
| MlqSched_proofs | `AlwaysTypeOK` | the types, and the cursor's remaining turn is positive and at most its level's share |
| | `AlwaysWorkConserving` | `get_proc` returns NULL only when every queue is empty |
| | `AlwaysNoDoubleDispatch` | a process is in at most one place |
| | `AlwaysNoStalePointer` | a freed PCB is in no list, even if `running_list` overflows |
| | `AlwaysLostOnlyWhenFull` | a process is forgotten only by the `add_proc` or `put_proc` that hands it in and finds its level full |
| | `AlwaysRunningListExact` | under `FitsCPUs`: `running_list` is exactly what the CPUs hold |
| | `RoundRobinOfEquals` | under `EvenPriorities`: every dispatch takes the head of its level |
| MlqBypass_proofs | `AlwaysBoundedBypass` | a level with a ready process is passed over at most `BypassBound` times in a row |
| Timer_proofs | `AlwaysTimerTypeOK`, `AlwaysExitsLast` | the types; the timer ends only after every device has detached |
| | `AlwaysNoLostWakeup` | a thread that sleeps has something to wait for, and the timer and a device never sleep on each other |
| | `TimerImplementsClock` | each step of the handshake is a step of the barrier or a stutter |
| Syscall_proofs | `AlwaysOsTypeOK` | the types of the threads and of the scheduler under them |
| | `AlwaysOncePerSlot`, `AlwaysWholeSlice` | at most one instruction of a process in a slot; slices start whole |
| | `AlwaysStopIsSafe` | under `FitsScript`: no CPU stops while it is needed |
| | `AlwaysMissedOnlyByShift` | under `FitsCPUs`: a search misses its caller, or takes another process, only if a list lost an entry meanwhile |
| | `AlwaysFreedReadOnlyByShift`, `AlwaysAtSlot` | a search reads a freed PCB only if a list lost an entry meanwhile, and never an empty slot |
| | `SimulationUsesScheduler` | a behaviour of the simulation is one of MlqSched and one of SlotClock |
| | `IdleNeverStops` | a CPU that is idle when all has run and `done` is set never stops |
| Paging_proofs | `AlwaysPagingTypeOK`, `AlwaysFrameExclusive`, `AlwaysSlotExclusive`, `AlwaysFifoExact` | page tables, free lists and victim lists agree |
| | `PagingImplementsFlatMemory` | through faults, evictions and swaps, a read returns the last write |
| | `AlwaysEvictsOwnNewest` | a page leaves RAM only when RAM is full, for a page of its own process, from the end of its list |
| FrameCalls_proofs | `AlwaysFrameTypeOK`, `AlwaysInOnePlace`, `AlwaysNothingLost`, `AlwaysRefusedOnlyWhenShort` | under `AllLocked`: no frame is shared or lost, no call refused without need |
| | `FrameCallsImplementPool` | under `AllLocked`: the steps of a call amount to all or nothing |
| LibMem_proofs | `AlwaysVmaTypeOK`, `AlwaysRegionsDisjoint` | no address is in two regions, or in a region and free |
| | `AlwaysLostOnlyByOverwrite` | address space is lost only by an `alloc` over a living region |
| | `LibImplementsVma`, `AlwaysLibDisjoint` | the memory instructions use the regions only as Vma says |
| | `AlwaysCopyExact` | a copy moves what its source held, and nothing else, wherever it stops |
| | `LibImplementsVarStore` | each register has bytes of its own that hold what was last written |

Assumptions beyond the types of the constants: at least one level, one queue
entry, one device, one unit of alignment; in `PagingAssumption`, a RAM of at
most `FpnRange` frames and address spaces of at most `PgnRange` pages; and, where a theorem names one,

* `FitsCPUs`: no more CPUs than `MAX_QUEUE_SIZE`, 50 in `queue.h`;
* `FitsScript`: no level has more processes than its queue has entries, and the
  loader loads all of them;
* `EvenPriorities`: the processes of a level have the same default priority;
* `AllLocked`: every call holds `mmvm_lock`, which the code does not do for
  reads (section 5, item 4).

The arguments:

* **Scheduler.** `TypeInv` is `SchedTypeOK` and `CursorOK`. The latter is needed:
  a turn of 0 would let the loop pass a level without serving it. With it,
  `WorkConserving` follows because `MAX_PRIO` rounds reach every level
  (`RoundReachesLevel`). `NoDoubleDispatch` is inductive only with all of its
  parts. `NoStalePointer` is not: a process must not be in `running_list` after
  `Purge`, which removes one entry only, so `ListInv` says that the list has no
  duplicates and names only held processes. `LostOnlyWhenFull` is an action
  property: `get_proc` keeps every process that is queued or held and `finish_proc`
  all but the one that ends; `add_proc` and `put_proc` keep all but the one they
  hand in (`HandsIn`), and that one too unless its level is full. For `RunningListExact` a CPU that asks for a
  process must find room in the list: its entries map one to one to the other
  CPUs (`RunningListHasRoom`). `RoundRobinOfEquals` says when the code does what
  `report.md` says: the first of several equals is the head.
* **Bypass.** `Left` is what the cursor can still serve before it comes to a level:
  the rest of its turn and the full turns between. `Pays` says that what a
  waiting level has been made to wait for and what is left add up to no more
  than `BypassBound`. Each dispatch elsewhere takes at least one from `Left`; a dispatch of
  the level, or its queue running empty, starts the count again.
* **Timer.** `Flags` relates `done` and `fsh` to where a device's thread is,
  `Seen` says which devices the timer knows to have arrived, `Counted` what its
  count of departed devices means. `PhaseOf` is the refinement mapping: a `done`
  that the timer has not yet come to clear (`Unreleased`) counts for the slot
  that has ended. The last device to be passed is the tick of the barrier.
  `NoLostWakeup` is inductive on top of these: the flag is tested and the sleep
  begun under one lock, and whoever changes the flag signals.
* **Threads.** Each step calls the scheduler or leaves it alone (`StepCalls`), so
  that the scheduler's invariants hold here too. `NoRest`: a CPU that holds
  nothing, or was just given a process, has no slice left. `RanHeld`: who has
  executed in this slot is held by a CPU on its way to the next, and
  `NoDoubleDispatch` says that no other CPU has it. For `StopIsSafe`, a CPU that
  asks in vain has seen all queues empty, so that what is left maps one to one
  to the other CPUs (`AskedInVain`). `Enough` keeps this until the CPU has
  tested `done`: processes that the loader adds in between come with a
  `next_slot` before `done` is set, and by then the CPU has left its test
  (`Quiet`). `NoneLost` and `QueueHasRoom` say that no queue overflows.
  `IdleAtEnd` is stable: no queue has a process, no CPU has one to put back, and
  the loader, past its last, adds none; so the CPU goes round the branch that does
  not test `done`. It needs `Progress`, which ties `done` to the loader's end.
* **System call.** `InArray`: no list outgrows its array, which has the list's
  entries in their order. `AtSlot`: past its test of the size a search is at a
  slot that has been written, and a slot that was written never becomes empty.
  `OnTrack`: while nothing has been taken out of a list, the
  caller's entry is at or behind the one the search has come to. A pointer that
  was read is still there, so its PCB is not freed, its pid is its own, and the
  next load gives the same pointer.
  `ReadsInPlace` says so of any entry, not only of the caller's: a list only grows
  at its end unless it `Shrinks`, and what is in a list is not freed.
* **Paging.** `PagingInv`: the entries of all page tables are distinct, nothing
  that is mapped is free, every frame is free or mapped, the victim list of a
  process names pages in RAM only, and nothing is mapped beyond `sbrk`
  (`Within`), so that an extension never maps a page a second time. The contents
  of a page are those of the frame or slot its entry names; `Distinct` then says
  that a copy to or from swap changes no other page.
* **Frame lists.** `Standing`: a call that is under way is the only holder of
  `mmvm_lock`, so that the list head it has read is still the head, and RAM is
  still full when it turns to the swap device. For the refinement,
  the frames it takes in the end are distinct and in no page table
  (`FramesInHand`), so that they are as many as it asked for.
* **Regions.** `VmaInv` is the types and `RegionsDisjoint`, which is inductive.
  `CutProperties` says what a free region loses to an allocation, also where it
  is cloned over its predecessor, and `IncProperties` what an extension adds;
  `CutKeeps`, `PrependKeeps` and `IncKeeps` say that nothing else drops out of
  the free list, and `OverwriteLoses` that it then lay in the region that is overwritten.
* **Memory instructions.** A byte that passes the access test belongs to its
  register's region, and regions are disjoint. `CopyInv` is what a copy has done
  after any number of bytes: those of the destination that it has moved, those
  it has not, those of the source, and the one in transit. It holds for copies
  that do not read what they have written (`Apart`), which is what `CopyExact`
  is about.

Model-checked only: liveness (`EventuallyDispatched`, `SleeperWakes`,
`TimerEnds`, `EveryProcessFinishes`, `BusyCpuStops` and the fairness that
`ImplementsSlotClock` adds to the barrier), which is out of the prover's reach
here as `ENABLED` is. All invariants and action properties of the passing runs are
also theorems. No module has a recursive operator; the lists are dealt with by the lemmas of
`ListLemmas`.

## 5. Where the code and its descriptions differ

1. `queue.c:45` picks the smallest default priority, so a level of the MLQ is
   not served round robin as `report.md:96` says, and `prio` does not replace
   the default priority as `include/common.h:113` says (*sched_round_robin*).
2. `os.c:70`: a CPU that is idle when the loader finishes never tests `done`
   again, and `main` waits for it for ever (*os_terminates*). `BusyCpuStops`
   shows that a CPU with a process does stop.
3. `libmem.c:743`: the victim comes from the end of the list where pages are
   added, which a comment calls a FIFO list (*paging_victim*).
4. `libmem.c:389`: `__read`, called a "protected" path at `libmem.c:636`, takes
   no lock, and two reads that fault together can get the same frame
   (*frame_race*).
5. `sys_mem.c:56`: the search of `__sys_memmap` reads a PCB that another CPU may
   have freed since its pointer was read. `finish_mlq_proc` purges it so that
   "no stale pointer is left behind" (`sched.c:152-154`), but the search takes no
   lock (*memmap_stale*). What the search can get wrong otherwise is limited by
   `MissedOnlyByShift`.

## 6. What is not modelled

`mm.c` (32-bit), `mem.c` and `paging.c` (legacy) are not in the build that is
modelled; `print_debug.c` and `gantt.py` only print; `loader.c` and
`read_config` parse input, whose results are constants; the set-up in `main` is
Init. Failures of `malloc` are left out. Configurations have a positive time
slice, as all files in `input/` do, and devices of two frames or more; with one
frame or none `MEMPHY_format` leaves its list without an end. The inputs with a
memory line have such devices. `sched`, `sched_0`, `sched_1`,
`os_1_singleCPU_mlq` and `votien_sched_*` have no memory line: they are written for
`MM_FIXED_MEMSZ`, which `os-cfg.h` leaves off, and this build takes their first
process line for the sizes. Several inputs have a RAM of more than the 2^13 frames
that a page table entry can name; of those, Paging says something only as long as
no frame beyond them is given out. The multi-level page table is a function from
pages to entries. An address beyond 4 MB would wrap in its page number
(`PgnField`), which `PagingAssumption` excludes.

## 7. Plan

Done: the scheduler, the timer, the threads and the system call's search, paging,
the frame lists, the regions, the memory instructions, and proofs of all their
safety properties and of the safety part of each refinement. What could follow:

1. The effect of `SYSMEM_MAP_OP` and `SYSMEM_SWP_OP` on Paging (`mm64.c:252`).
2. **Device**: sequential devices and their cursor, and devices of zero or one
   frame.
3. An abstract specification of the scheduler, the life of a process from new to
   finished, with MlqSched and the simulation on top shown to implement it.
