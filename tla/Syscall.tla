------------------------------- MODULE Syscall -------------------------------
(***************************************************************************)
(* The memmap system call (libstd.c, syscall.c, sys_mem.c) inside the        *)
(* simulation of OsSim.  The handler gets a pid only and looks for its PCB   *)
(* in the lists of the scheduler, without queue_lock, while other CPUs       *)
(* dispatch, put back and finish.  The test of the size and each load of an  *)
(* array entry is a step.  A critical section of another CPU is one step,    *)
(* so that a search meets no list halfway through a shift.                   *)
(* The calls of the table that touch no shared state are Execute of OsSim.   *)
(***************************************************************************)
EXTENDS OsSim

CONSTANT Memmap   \* Memmap[p]: the indices of p's memmap instructions

ASSUME SyscallAssumption == Memmap \in [Proc -> SUBSET Nat]

VARIABLES slots,    \* the arrays proc[] of the queues, with what is left in
                    \* them behind their size
          list,     \* per CPU: the list the search is in
          entry,    \* the index it has come to, from 1
          stage,    \* what it does next there: "size", "entry", "pid", "caller"
          seen,     \* the pointer whose pid is read next
          caller,   \* what the search has found
          shifted   \* history: a list lost an entry since the search began

walkVars == <<list, entry, stage, seen, caller, shifted>>
sysVars == <<osVars, slots, walkVars>>

\* The search goes through running_list, then through the levels in order; it
\* is over when it comes to MaxPrio.
Running == MaxPrio + 1
Lists == Levels \cup {Running}
Content(l) == IF l = Running THEN running_list ELSE mlq_ready_queue[l]
ListAfter(l) == IF l = Running THEN 0 ELSE l + 1

FirstEntry_OffByOne == 2
FirstEntry == 1

SysInit ==
  /\ OsInit
  /\ slots = [l \in Lists |-> [k \in 1 .. MaxQueueSize |-> NoProc]]
  /\ list = [c \in CPU |-> Running]
  /\ entry = [c \in CPU |-> FirstEntry]
  /\ stage = [c \in CPU |-> "size"]
  /\ seen = [c \in CPU |-> NoProc]
  /\ caller = [c \in CPU |-> NoProc]
  /\ shifted = [c \in CPU |-> FALSE]

\* enqueue, dequeue and purgequeue write the entries below the new size, and
\* clear none: the last one a shift moves stays in its old place as well.
Store == slots' = [l \in Lists |-> [k \in 1 .. MaxQueueSize |->
                     IF k <= Len(Content(l)') THEN Content(l)'[k] ELSE slots[l][k]]]

-----------------------------------------------------------------------------
AtMemmap(c) == Runs(c) /\ pc[proc[c]] \in Memmap[proc[c]] /\ ~Ended(c)

\* run() comes to the instruction: libsyscall, _syscall, sys_memmap.
Trap(c) ==
  /\ AtMemmap(c)
  /\ RunInstruction(c)
  /\ Goto(c, "memmap")
  /\ list' = [list EXCEPT ![c] = Running]
  /\ entry' = [entry EXCEPT ![c] = FirstEntry]
  /\ stage' = [stage EXCEPT ![c] = "size"]
  /\ seen' = [seen EXCEPT ![c] = NoProc]
  /\ caller' = [caller EXCEPT ![c] = NoProc]
  /\ shifted' = [shifted EXCEPT ![c] = FALSE]
  /\ UNCHANGED slots

Searching(c) == At(c, "memmap") /\ caller[c] = NoProc /\ list[c] \in Lists
NextStage(c, s) == stage' = [stage EXCEPT ![c] = s]

\* i < size.  Entries below the size are set, and none is ever cleared, so that
\* the test of proc[i] for NULL succeeds.
TestSize(c) ==
  /\ Searching(c) /\ stage[c] = "size"
  /\ entry[c] <= Len(Content(list[c]))
  /\ NextStage(c, "entry")
  /\ UNCHANGED <<osVars, slots, list, entry, seen, caller, shifted>>

\* The load of proc[i] whose pid is compared.
ReadEntry(c) ==
  /\ Searching(c) /\ stage[c] = "entry"
  /\ seen' = [seen EXCEPT ![c] = slots[list[c]][entry[c]]]
  /\ NextStage(c, "pid")
  /\ UNCHANGED <<osVars, slots, list, entry, caller, shifted>>

\* proc[i]->pid == pid.  The memory of a PCB that was freed may hold anything.
ReadPid(c) ==
  /\ Searching(c) /\ stage[c] = "pid"
  /\ \/ /\ seen[c] = proc[c] \/ seen[c] \in finished
        /\ NextStage(c, "caller")
        /\ UNCHANGED entry
     \/ /\ seen[c] # proc[c]
        /\ NextStage(c, "size")
        /\ entry' = [entry EXCEPT ![c] = @ + 1]
  /\ seen' = [seen EXCEPT ![c] = NoProc]
  /\ UNCHANGED <<osVars, slots, list, caller, shifted>>

\* caller = proc[i], another load of the entry, and break.
TakeCaller(c) ==
  /\ Searching(c) /\ stage[c] = "caller"
  /\ caller' = [caller EXCEPT ![c] = slots[list[c]][entry[c]]]
  /\ NextStage(c, "size")
  /\ UNCHANGED <<osVars, slots, list, entry, seen, shifted>>

\* The end of the list, as its size is now.
NextList(c) ==
  /\ Searching(c) /\ stage[c] = "size"
  /\ entry[c] > Len(Content(list[c]))
  /\ list' = [list EXCEPT ![c] = ListAfter(@)]
  /\ entry' = [entry EXCEPT ![c] = FirstEntry]
  /\ UNCHANGED <<osVars, slots, stage, seen, caller, shifted>>

\* The operation on what was found, which no CPU thread sees, or -1: back to
\* cpu_routine.
SysReturn(c) ==
  /\ At(c, "memmap") /\ ~Searching(c)
  /\ Goto(c, AfterRun)
  /\ UNCHANGED <<schedVars, clockVars, time_left, pc, ldpc, i, done, ran, slots, walkVars>>

SearchStep(c) == TestSize(c) \/ ReadEntry(c) \/ ReadPid(c) \/ TakeCaller(c) \/ NextList(c)
Memmapping(c) == Trap(c) \/ SearchStep(c) \/ SysReturn(c)

\* A step of the scheduler may shift the list another CPU is searching.
Shrinks(l) == Len(Content(l)') < Len(Content(l))
Watch == shifted' = [c \in CPU |-> shifted[c] \/
                       (cpc[c] = "memmap" /\ \E l \in Lists : Shrinks(l))]

OtherStep(c) ==
  /\ ~AtMemmap(c)
  /\ CpuStep(c)
  /\ Store
  /\ Watch
  /\ UNCHANGED <<list, entry, stage, seen, caller>>

\* A step of the loader or of the clock: no list loses an entry.
StoreOnly == Store /\ UNCHANGED walkVars

SysNext ==
  \/ \E c \in CPU : OtherStep(c) \/ Memmapping(c)
  \/ (LoaderStep \/ NewSlot \/ LastTick) /\ StoreOnly

SysSpec ==
  /\ SysInit /\ [][SysNext]_sysVars
  /\ \A c \in CPU : WF_sysVars(OtherStep(c) \/ Memmapping(c))
  /\ WF_sysVars(LoaderStep /\ StoreOnly)
  /\ WF_sysVars(NewSlot /\ StoreOnly)

-----------------------------------------------------------------------------
\* The handler fails to find the process it runs for, or goes on with another,
\* only if another CPU took an entry out of a list in the middle of the search;
\* otherwise the caller is in running_list whenever one of its instructions
\* executes, and the pointer that is kept is the one whose pid was compared.
MissedOnlyByShift == [][
  \A c \in CPU :
    cpc[c] = "memmap" /\ cpc'[c] # "memmap" /\ caller[c] # proc[c] => shifted[c]
  ]_sysVars

\* sched.c:152-154: finish_mlq_proc "Removes the process from running_list so
\* no stale pointer is left behind".  The PCB whose pid a search is about to
\* read has not been freed.
NoFreedRead == \A c \in CPU : cpc[c] = "memmap" => seen[c] \notin finished
=============================================================================
