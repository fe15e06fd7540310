-------------------------------- MODULE OsSim --------------------------------
(***************************************************************************)
(* os.c: the CPU threads (cpu_routine) and the loader thread (ld_routine)   *)
(* on top of the scheduler (MlqSched) and of the time slots (SlotClock).    *)
(* A step ends where another thread could see it: at a call that takes      *)
(* queue_lock, at the read or the write of the shared flag done, at the     *)
(* execution of an instruction, at next_slot and at detach_event.           *)
(***************************************************************************)
EXTENDS MlqSched, SlotClock, FiniteSets

CONSTANTS Loader,     \* the loader thread
          TimeSlot,   \* time_slot of the configuration file
          Script,     \* the processes in the order of the configuration file
          StartTime,  \* their start times
          Size        \* code->size of each

ASSUME OsAssumption ==
  /\ Loader \notin CPU
  /\ Device = CPU \cup {Loader}
  /\ TimeSlot \in Nat \ {0}
  /\ Script \in Seq(Proc) /\ IsInjective(Script)
  /\ StartTime \in [Proc -> 0 .. TimeCap]
  /\ Size \in [Proc -> Nat]

VARIABLES cpc,        \* CPU thread: "top", "get", "check", "slot", "stopped",
                      \* or "memmap" while it is in that system call (Syscall)
          time_left,  \* its local time_left
          pc,         \* pcb_t.pc of each process
          ldpc,       \* loader thread: "load", "slot", "detach", "exit"
          i,          \* its index in the configuration, from 1
          done,       \* the global done
          ran         \* history: the processes that executed in this time slot

threadVars == <<cpc, time_left, pc, ldpc, i, done, ran>>
osVars == <<schedVars, clockVars, threadVars>>

OsInit ==
  /\ SchedInit
  /\ ClockInit
  /\ cpc = [c \in CPU |-> "top"]
  /\ time_left = [c \in CPU |-> 0]
  /\ pc = [p \in Proc |-> 0]
  /\ ldpc = "load"
  /\ i = 1
  /\ done = FALSE
  /\ ran = {}

-----------------------------------------------------------------------------
\* cpu_routine.  A CPU in next_slot does nothing.
At(c, label) == cpc[c] = label /\ phase[c] = "working"
Goto(c, label) == cpc' = [cpc EXCEPT ![c] = label]

Ended(c) == pc[proc[c]] = Size[proc[c]]

\* No process at the top of the loop: ask for one; without one go straight to
\* next_slot (the test of done further down is skipped).
GetFirst(c) ==
  /\ At(c, "top")
  /\ GetProc(c)
  /\ Goto(c, IF proc'[c] = NoProc THEN "slot" ELSE "check")
  /\ UNCHANGED <<clockVars, time_left, pc, ldpc, i, done, ran>>

SliceAfterRetire_Kept(c) == time_left
SliceAfterRetire(c) == [time_left EXCEPT ![c] = 0]

\* The process has executed its last instruction: finish_proc, free.  The
\* local time_left is cleared for whatever get_proc returns next.
Retire(c) ==
  /\ At(c, "top")
  /\ proc[c] # NoProc /\ Ended(c)
  /\ FinishProc(c)
  /\ time_left' = SliceAfterRetire(c)
  /\ Goto(c, "get")
  /\ UNCHANGED <<clockVars, pc, ldpc, i, done, ran>>

\* The slice of the process is used up: put_proc.
Preempt(c) ==
  /\ At(c, "top")
  /\ proc[c] # NoProc /\ ~Ended(c)
  /\ time_left[c] = 0
  /\ PutProc(c)
  /\ Goto(c, "get")
  /\ UNCHANGED <<clockVars, time_left, pc, ldpc, i, done, ran>>

AfterGetNext_SkipTest(c) == IF proc'[c] = NoProc THEN "slot" ELSE "check"
AfterGetNext(c) == "check"

\* The get_proc after finish_proc or put_proc.
GetNext(c) ==
  /\ At(c, "get")
  /\ GetProc(c)
  /\ Goto(c, AfterGetNext(c))
  /\ UNCHANGED <<clockVars, time_left, pc, ldpc, i, done, ran>>

MayStop_IgnoreDone(c) == proc[c] = NoProc
MayStop(c) == proc[c] = NoProc /\ done

\* Nothing to run and the loader is done: leave the loop, detach_event.
Stop(c) ==
  /\ At(c, "check")
  /\ MayStop(c)
  /\ Leave(c)
  /\ Goto(c, "stopped")
  /\ UNCHANGED <<schedVars, time_left, pc, ldpc, i, done, ran>>

\* Nothing to run yet: skip the slot.
SkipSlot(c) ==
  /\ At(c, "check")
  /\ proc[c] = NoProc /\ ~done
  /\ Goto(c, "slot")
  /\ UNCHANGED <<schedVars, clockVars, time_left, pc, ldpc, i, done, ran>>

Slice_NotRenewed(c) == time_left[c]

\* A fresh slice for a process that was just dispatched.
Slice(c) == IF time_left[c] = 0 THEN TimeSlot ELSE time_left[c]

AfterRun_NoNextSlot == "top"
AfterRun == "slot"

\* The CPU has come to run().
Runs(c) ==
  /\ proc[c] # NoProc
  /\ At(c, "check") \/ (At(c, "top") /\ ~Ended(c) /\ time_left[c] # 0)

\* run() of one instruction (nothing, if the program is empty), time_left--.
RunInstruction(c) ==
  /\ Runs(c)
  /\ time_left' = [time_left EXCEPT ![c] = Slice(c) - 1]
  /\ pc' = [pc EXCEPT ![proc[c]] = IF @ < Size[proc[c]] THEN @ + 1 ELSE @]
  /\ ran' = ran \cup {proc[c]}
  /\ UNCHANGED <<schedVars, clockVars, ldpc, i, done>>

\* An instruction that no other thread can see the middle of.
Execute(c) == RunInstruction(c) /\ Goto(c, AfterRun)

\* next_slot at the end of the loop's body, or before a continue.
EndSlot(c) ==
  /\ At(c, "slot")
  /\ Arrive(c)
  /\ Goto(c, "top")
  /\ UNCHANGED <<schedVars, time_left, pc, ldpc, i, done, ran>>

CpuStep(c) ==
  \/ GetFirst(c) \/ Retire(c) \/ Preempt(c) \/ GetNext(c)
  \/ Stop(c) \/ SkipSlot(c) \/ Execute(c) \/ EndSlot(c)

-----------------------------------------------------------------------------
\* ld_routine.  load() and init_mm() touch nothing another thread can see.
LoaderAt(label) == ldpc = label /\ phase[Loader] = "working"

\* while (current_time() < start_time[i]) next_slot
LoaderWait ==
  /\ LoaderAt("load")
  /\ i <= Len(Script) /\ time < StartTime[Script[i]]
  /\ Arrive(Loader)
  /\ UNCHANGED <<schedVars, threadVars>>

LoaderAdd ==
  /\ LoaderAt("load")
  /\ i <= Len(Script) /\ time >= StartTime[Script[i]]
  /\ AddProc(Script[i])
  /\ i' = i + 1
  /\ ldpc' = "slot"
  /\ UNCHANGED <<clockVars, cpc, time_left, pc, done, ran>>

\* next_slot after add_proc
LoaderSlot ==
  /\ LoaderAt("slot")
  /\ Arrive(Loader)
  /\ ldpc' = "load"
  /\ UNCHANGED <<schedVars, cpc, time_left, pc, i, done, ran>>

LoaderDone ==
  /\ LoaderAt("load")
  /\ i > Len(Script)
  /\ done' = TRUE
  /\ ldpc' = "detach"
  /\ UNCHANGED <<schedVars, clockVars, cpc, time_left, pc, i, ran>>

LoaderExit ==
  /\ LoaderAt("detach")
  /\ Leave(Loader)
  /\ ldpc' = "exit"
  /\ UNCHANGED <<schedVars, cpc, time_left, pc, i, done, ran>>

LoaderStep == LoaderWait \/ LoaderAdd \/ LoaderSlot \/ LoaderDone \/ LoaderExit

NewSlot ==
  /\ Tick
  /\ ran' = {}
  /\ UNCHANGED <<schedVars, cpc, time_left, pc, ldpc, i, done>>

LastTick == FinalTick /\ UNCHANGED <<schedVars, threadVars>>

OsNext ==
  \/ \E c \in CPU : CpuStep(c)
  \/ LoaderStep
  \/ NewSlot
  \/ LastTick

\* The threads are scheduled by the host, and the timer implements the clock
\* (Timer!ImplementsSlotClock).
OsSpec ==
  /\ OsInit /\ [][OsNext]_osVars
  /\ \A c \in CPU : WF_osVars(CpuStep(c))
  /\ WF_osVars(LoaderStep)
  /\ WF_osVars(NewSlot)

-----------------------------------------------------------------------------
\* Type invariant.
OsTypeOK ==
  /\ SchedTypeOK
  /\ cpc \in [CPU -> {"top", "get", "check", "memmap", "slot", "stopped"}]
  /\ time_left \in [CPU -> 0 .. TimeSlot]
  /\ \A p \in Proc : pc[p] \in 0 .. Size[p]
  /\ ldpc \in {"load", "slot", "detach", "exit"}
  /\ i \in 1 .. Len(Script) + 1
  /\ done \in BOOLEAN
  /\ ran \subseteq Proc

Unfinished == {p \in Proc : p \notin finished}
Stopped == {c \in CPU : cpc[c] = "stopped"}

\* A CPU stops ("No process to run, exit") only when the remaining CPUs hold
\* everything that is left to run: the read of done, outside any lock and after
\* the get_proc that found nothing, never strands a process that the loader
\* added or another CPU put back in between.
StopIsSafe ==
  Stopped # {} => /\ done
                  /\ Cardinality(Unfinished) <= Cardinality(CPU \ Stopped)

\* A process executes at most one instruction in a time slot, even when it
\* moves from one CPU to another in the middle of the slot.
OncePerSlot == [][\A p \in Proc : pc'[p] # pc[p] => p \notin ran]_osVars

\* A dispatched process starts with a whole slice: what its predecessor on the
\* CPU did not use is never passed on.
WholeSlice ==
  [][\A c \in CPU : cpc[c] = "check" /\ cpc'[c] # "check" /\ proc[c] # NoProc
        => time_left'[c] = TimeSlot - 1]_osVars

\* Every process of the configuration runs to its end.
EveryProcessFinishes == \A p \in Proc : <>(p \in finished)

\* A CPU that has a process when the loader is done stops in the end.
BusyCpuStops == \A c \in CPU : done /\ proc[c] # NoProc ~> cpc[c] = "stopped"

\* os.c:96 "No process to run, exit" and os.c:317 "Wait for CPU and loader
\* finishing": all CPU threads end, and main gets past its joins.
SimulationEnds == <>(Stopped = CPU)
=============================================================================
