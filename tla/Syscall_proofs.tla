---------------------------- MODULE Syscall_proofs ----------------------------
(***************************************************************************)
(* Proofs about the CPU threads, the loader and the memmap system call, for  *)
(* any number of CPUs and processes, any programs and any configuration.     *)
(* What is proved of the scheduler alone (MlqSched_proofs) holds of it in    *)
(* here, because every step of a thread is a call of the scheduler or leaves  *)
(* it as it is.                                                             *)
(***************************************************************************)
EXTENDS Syscall, MlqSched_proofs

-----------------------------------------------------------------------------
(* The types, and every step seen as a step of the scheduler. *)

CpuLabel == {"top", "get", "check", "memmap", "slot", "stopped"}
LoaderLabel == {"load", "slot", "detach", "exit"}

\* OsTypeOK without the scheduler's part, and with the phases of the clock.
ThreadTypeOK ==
  /\ cpc \in [CPU -> CpuLabel]
  /\ time_left \in [CPU -> 0 .. TimeSlot]
  /\ pc \in [Proc -> Nat]
  /\ \A p \in Proc : pc[p] <= Size[p]
  /\ ldpc \in LoaderLabel
  /\ i \in 1 .. Len(Script) + 1
  /\ done \in BOOLEAN
  /\ ran \subseteq Proc
  /\ phase \in [Device -> {"working", "waiting", "gone"}]

BaseInv == PlaceInv /\ ThreadTypeOK

\* run() up to the memmap instruction, and the way back from its handler.
EnterMemmap(c) == RunInstruction(c) /\ Runs(c) /\ Goto(c, "memmap")
LeaveMemmap(c) ==
  /\ At(c, "memmap") /\ Goto(c, "slot")
  /\ UNCHANGED <<schedVars, clockVars, time_left, pc, ldpc, i, done, ran>>

\* What the system call adds to the threads of OsSim.
LEMMA SysSteps ==
  ASSUME [SysNext]_sysVars
  PROVE  \/ \E c \in CPU : CpuStep(c) \/ EnterMemmap(c) \/ LeaveMemmap(c)
         \/ LoaderStep \/ NewSlot \/ LastTick
         \/ UNCHANGED osVars
<1>1. ASSUME NEW c \in CPU, Memmapping(c)
      PROVE  EnterMemmap(c) \/ LeaveMemmap(c) \/ UNCHANGED osVars
  <2>1. CASE Trap(c)
    BY <2>1 DEF Trap, AtMemmap, EnterMemmap
  <2>2. CASE SearchStep(c)
    BY <2>2 DEF SearchStep, TestSize, ReadEntry, ReadPid, TakeCaller, NextList
  <2>3. CASE SysReturn(c)
    BY <2>3 DEF SysReturn, LeaveMemmap, AfterRun
  <2> QED
    BY <1>1, <2>1, <2>2, <2>3 DEF Memmapping
<1> QED
  BY <1>1 DEF SysNext, OtherStep, sysVars

\* The types of the threads, in the form that the proofs below use.
LEMMA ThreadFacts ==
  ASSUME ThreadTypeOK, TypeInv
  PROVE  /\ \A c \in CPU : c \in Device /\ cpc[c] \in CpuLabel
         /\ \A c \in CPU : time_left[c] \in 0 .. TimeSlot /\ time_left[c] \in Nat
         /\ TimeSlot \in Nat /\ TimeSlot >= 1 /\ 0 \in 0 .. TimeSlot
         /\ \A p \in Proc : pc[p] \in Nat /\ Size[p] \in Nat /\ pc[p] <= Size[p]
         /\ \A c \in CPU : proc[c] # NoProc => proc[c] \in Proc
         /\ i \in Nat /\ 1 <= i /\ i <= Len(Script) + 1 /\ Len(Script) \in Nat
         /\ \A k \in 1 .. Len(Script) : Script[k] \in Proc
         /\ Loader \in Device
<1>1. Script \in Seq(Proc) /\ Len(Script) \in Nat
  BY OsAssumption, LenProperties
<1>2. \A k \in 1 .. Len(Script) : Script[k] \in Proc
  BY <1>1, ElementOfSeq
<1>3. TimeSlot \in Nat /\ TimeSlot >= 1 /\ 0 \in 0 .. TimeSlot
  BY OsAssumption
<1>4. \A c \in CPU : time_left[c] \in 0 .. TimeSlot /\ time_left[c] \in Nat
  BY <1>3 DEF ThreadTypeOK
<1>5. \A c \in CPU : c \in Device /\ cpc[c] \in CpuLabel
  BY OsAssumption DEF ThreadTypeOK
<1>6. \A p \in Proc : pc[p] \in Nat /\ Size[p] \in Nat /\ pc[p] <= Size[p]
  BY OsAssumption DEF ThreadTypeOK
<1>7. \A c \in CPU : proc[c] # NoProc => proc[c] \in Proc
  BY DEF TypeInv, SchedTypeOK
<1>8. i \in Nat /\ 1 <= i /\ i <= Len(Script) + 1
  BY <1>1 DEF ThreadTypeOK
<1> QED
  BY <1>1, <1>2, <1>3, <1>4, <1>5, <1>6, <1>7, <1>8, OsAssumption

\* Each thread calls the scheduler or leaves it alone.
LEMMA StepCalls ==
  ASSUME BaseInv, [SysNext]_sysVars PROVE [SchedNext]_schedVars
<1>1. ASSUME NEW c \in CPU, CpuStep(c) PROVE [SchedNext]_schedVars
  <2>1. CASE GetFirst(c) \/ GetNext(c)
    BY <2>1 DEF GetFirst, GetNext, SchedNext
  <2>2. CASE Preempt(c)
    BY <2>2 DEF Preempt, SchedNext
  <2>3. CASE Retire(c)
    BY <2>3 DEF Retire, SchedNext
  <2>4. CASE Stop(c) \/ SkipSlot(c) \/ Execute(c) \/ EndSlot(c)
    BY <2>4 DEF Stop, SkipSlot, Execute, RunInstruction, EndSlot
  <2> QED
    BY <1>1, <2>1, <2>2, <2>3, <2>4 DEF CpuStep
<1>2. ASSUME NEW c \in CPU, EnterMemmap(c) \/ LeaveMemmap(c) PROVE UNCHANGED schedVars
  BY <1>2 DEF EnterMemmap, LeaveMemmap, RunInstruction
<1>3. LoaderAdd => SchedNext
  <2>1. LoaderAdd => i \in 1 .. Len(Script)
    BY DEF LoaderAdd, BaseInv, ThreadTypeOK
  <2>2. LoaderAdd => Script[i] \in Proc
    BY <2>1, ThreadFacts DEF BaseInv, PlaceInv, DispatchInv
  <2> QED
    BY <2>2 DEF LoaderAdd, SchedNext
<1>4. LoaderStep => [SchedNext]_schedVars
  BY <1>3 DEF LoaderStep, LoaderWait, LoaderSlot, LoaderDone, LoaderExit
<1>5. NewSlot \/ LastTick \/ UNCHANGED osVars => UNCHANGED schedVars
  BY DEF NewSlot, LastTick, osVars
<1> QED
  BY <1>1, <1>2, <1>4, <1>5, SysSteps

-----------------------------------------------------------------------------
(* Types. *)

\* All types are right at first.
LEMMA SysInitBase == SysInit => BaseInv
<1> SUFFICES ASSUME SysInit PROVE ThreadTypeOK
  BY InitPlaceInv DEF SysInit, OsInit, BaseInv
<1>1. OsInit
  BY DEF SysInit
<1>2. 0 \in Nat /\ Len(Script) \in Nat /\ 0 \in 0 .. TimeSlot
  BY OsAssumption, LenProperties
<1>3. i \in 1 .. Len(Script) + 1
  BY <1>1, <1>2 DEF OsInit
<1>4. \A p \in Proc : pc[p] <= Size[p]
  BY <1>1, OsAssumption DEF OsInit
<1> QED
  BY <1>1, <1>2, <1>3, <1>4
  DEF OsInit, ClockInit, ThreadTypeOK, CpuLabel, LoaderLabel

\* A step of a CPU keeps the types of the threads.
LEMMA CpuTypes ==
  ASSUME BaseInv, NEW c \in CPU, CpuStep(c) \/ EnterMemmap(c) \/ LeaveMemmap(c)
  PROVE  ThreadTypeOK'
<1> USE DEF BaseInv, ThreadTypeOK
<1>f. /\ c \in Device /\ cpc[c] \in CpuLabel
      /\ time_left[c] \in 0 .. TimeSlot /\ time_left[c] \in Nat
      /\ TimeSlot \in Nat /\ TimeSlot >= 1 /\ 0 \in 0 .. TimeSlot
      /\ \A p \in Proc : pc[p] \in Nat /\ Size[p] \in Nat /\ pc[p] <= Size[p]
      /\ proc[c] # NoProc => proc[c] \in Proc
  BY ThreadFacts DEF PlaceInv, DispatchInv
<1>l. \A x \in {"top", "get", "check", "memmap", "slot", "stopped"} :
        Goto(c, x) => cpc' \in [CPU -> CpuLabel]
  BY DEF Goto, CpuLabel
<1>1. CASE GetFirst(c)
  <2>1. cpc' \in [CPU -> CpuLabel]
    BY <1>1, <1>l DEF GetFirst
  <2> QED
    BY <1>1, <2>1 DEF GetFirst, clockVars
<1>2. CASE GetNext(c)
  BY <1>2, <1>l DEF GetNext, AfterGetNext, clockVars
<1>3. CASE Retire(c)
  BY <1>3, <1>l, <1>f DEF Retire, SliceAfterRetire, clockVars
<1>4. CASE Preempt(c)
  BY <1>4, <1>l DEF Preempt, clockVars
<1>5. CASE Stop(c)
  BY <1>5, <1>l, <1>f DEF Stop, Leave
<1>6. CASE SkipSlot(c) \/ LeaveMemmap(c)
  BY <1>6, <1>l DEF SkipSlot, LeaveMemmap, clockVars
<1>7. CASE EndSlot(c)
  BY <1>7, <1>l, <1>f DEF EndSlot, Arrive
<1>8. CASE Execute(c) \/ EnterMemmap(c)
  <2>1. RunInstruction(c) /\ cpc' \in [CPU -> CpuLabel]
    BY <1>8, <1>l DEF Execute, EnterMemmap, AfterRun
  <2>2. proc[c] \in Proc
    BY <2>1, <1>f DEF RunInstruction, Runs
  <2>3. Slice(c) - 1 \in 0 .. TimeSlot
    BY <1>f DEF Slice
  <2>4. time_left' \in [CPU -> 0 .. TimeSlot]
    BY <2>1, <2>3 DEF RunInstruction
  <2>5. \A p \in Proc : pc'[p] = IF p = proc[c] /\ pc[p] < Size[p] THEN pc[p] + 1 ELSE pc[p]
    BY <2>1, <2>2 DEF RunInstruction
  <2>6. pc' \in [Proc -> Nat]
    BY <2>1, <2>2, <1>f DEF RunInstruction
  <2>7. \A p \in Proc : pc'[p] <= Size[p]
    BY <2>5, <1>f
  <2> QED
    BY <2>1, <2>2, <2>4, <2>6, <2>7 DEF RunInstruction, clockVars
<1> QED
  BY <1>1, <1>2, <1>3, <1>4, <1>5, <1>6, <1>7, <1>8 DEF CpuStep

\* A step of the loader keeps the types of the threads.
LEMMA LoaderTypes ==
  ASSUME BaseInv, LoaderStep PROVE ThreadTypeOK'
<1> USE DEF BaseInv, ThreadTypeOK, LoaderLabel
<1>f. Loader \in Device /\ Len(Script) \in Nat
  BY ThreadFacts DEF PlaceInv, DispatchInv
<1>1. CASE LoaderWait
  BY <1>1, <1>f DEF LoaderWait, Arrive, threadVars
<1>2. CASE LoaderAdd
  <2>1. i' \in 1 .. Len(Script) + 1
    BY <1>2, <1>f DEF LoaderAdd
  <2> QED
    BY <1>2, <2>1 DEF LoaderAdd, clockVars
<1>3. CASE LoaderSlot
  BY <1>3, <1>f DEF LoaderSlot, Arrive
<1>4. CASE LoaderDone
  BY <1>4 DEF LoaderDone, clockVars
<1>5. CASE LoaderExit
  BY <1>5, <1>f DEF LoaderExit, Leave
<1> QED
  BY <1>1, <1>2, <1>3, <1>4, <1>5 DEF LoaderStep

\* No step disturbs the types or the scheduler's invariant.
LEMMA SysNextBase == BaseInv /\ [SysNext]_sysVars => BaseInv'
<1> SUFFICES ASSUME BaseInv, [SysNext]_sysVars PROVE ThreadTypeOK'
  BY StepCalls, NextPlaceInv DEF BaseInv
<1>1. CASE NewSlot
  BY <1>1 DEF NewSlot, Tick, BaseInv, ThreadTypeOK
<1>2. CASE LastTick
  BY <1>2 DEF LastTick, FinalTick, threadVars, BaseInv, ThreadTypeOK
<1>3. CASE UNCHANGED osVars
  BY <1>3 DEF osVars, clockVars, threadVars, BaseInv, ThreadTypeOK
<1> QED
  BY <1>1, <1>2, <1>3, CpuTypes, LoaderTypes, SysSteps

\* The types of the threads and the scheduler's invariant hold throughout: the
\* CPUs call get_proc, put_proc and finish_proc only as the scheduler expects.
THEOREM AlwaysBase == SysSpec => []BaseInv
BY SysInitBase, SysNextBase, PTL DEF SysSpec

\* The state of the threads and of the scheduler under them has its types.
THEOREM AlwaysOsTypeOK == SysSpec => []OsTypeOK
<1>1. BaseInv => OsTypeOK
  <2> SUFFICES ASSUME BaseInv PROVE OsTypeOK
    OBVIOUS
  <2>1. \A p \in Proc : pc[p] \in 0 .. Size[p]
    BY ThreadFacts DEF BaseInv, PlaceInv, DispatchInv
  <2> QED
    BY <2>1 DEF BaseInv, PlaceInv, DispatchInv, TypeInv, ThreadTypeOK, OsTypeOK,
                CpuLabel, LoaderLabel
<1> QED
  BY <1>1, AlwaysBase, PTL

-----------------------------------------------------------------------------
(* The threads use the scheduler and the clock as these are specified. *)

\* Each thread, the timer included, takes a step of the slot clock or leaves it
\* alone.
LEMMA StepClocks ==
  ASSUME BaseInv, [SysNext]_sysVars PROVE [ClockNext]_clockVars
<1>f. /\ \A c \in CPU : c \in Device
      /\ Loader \in Device
  BY OsAssumption
<1>1. ASSUME NEW c \in CPU, CpuStep(c) PROVE [ClockNext]_clockVars
  <2>1. CASE EndSlot(c) \/ Stop(c)
    BY <1>f, <2>1 DEF EndSlot, Stop, ClockNext
  <2>2. CASE GetFirst(c) \/ Retire(c) \/ Preempt(c) \/ GetNext(c) \/ SkipSlot(c) \/ Execute(c)
    BY <2>2 DEF GetFirst, Retire, Preempt, GetNext, SkipSlot, Execute, RunInstruction
  <2> QED
    BY <1>1, <2>1, <2>2 DEF CpuStep
<1>2. ASSUME NEW c \in CPU, EnterMemmap(c) \/ LeaveMemmap(c) PROVE UNCHANGED clockVars
  BY <1>2 DEF EnterMemmap, LeaveMemmap, RunInstruction
<1>3. LoaderStep => [ClockNext]_clockVars
  BY <1>f DEF LoaderStep, LoaderWait, LoaderAdd, LoaderSlot, LoaderDone, LoaderExit, ClockNext
<1>4. NewSlot \/ LastTick \/ UNCHANGED osVars => [ClockNext]_clockVars
  BY DEF NewSlot, LastTick, osVars, ClockNext
<1> QED
  BY <1>1, <1>2, <1>3, <1>4, SysSteps

\* In the simulation the scheduler sees only add_proc of processes it has not
\* seen, get_proc of CPUs that hold nothing, and put_proc and finish_proc of
\* CPUs that hold a process: all that is proved of MlqSched holds of it there.
\* The threads keep the rules of the slot clock as well, which the timer is
\* proved to implement.
THEOREM SimulationUsesScheduler == SysSpec => SchedSpec /\ ClockSafe
<1>1. SysInit => SchedInit /\ ClockInit
  BY DEF SysInit, OsInit
<1>2. BaseInv /\ [SysNext]_sysVars => [SchedNext]_schedVars /\ [ClockNext]_clockVars
  BY StepCalls, StepClocks
<1> QED
  BY <1>1, <1>2, AlwaysBase, PTL DEF SysSpec, SchedSpec, ClockSafe

-----------------------------------------------------------------------------
(* Slices and slots. *)

\* A CPU that holds nothing, or has just been given a process, has no slice
\* left over.
NoRest == \A c \in CPU : proc[c] = NoProc \/ cpc[c] = "check" => time_left[c] = 0

\* The other CPUs, and what a call of the scheduler by c does to them.
LEMMA OthersKeep ==
  ASSUME BaseInv, NEW c \in CPU, CpuStep(c) \/ EnterMemmap(c) \/ LeaveMemmap(c),
         NEW d \in CPU, d # c
  PROVE  /\ cpc'[d] = cpc[d] /\ time_left'[d] = time_left[d] /\ proc'[d] = proc[d]
         /\ phase'[d] = phase[d]
<1> USE DEF BaseInv, ThreadTypeOK, PlaceInv, DispatchInv, TypeInv, SchedTypeOK
<1>1. \A x : Goto(c, x) => cpc'[d] = cpc[d]
  BY DEF Goto
<1>2. GetProc(c) => proc'[d] = proc[d]
  <2>1. GetServed(c) => proc'[d] = proc[d]
    BY DEF GetServed
  <2>2. GetNothing(c) => proc'[d] = proc[d]
    BY DEF GetNothing
  <2> QED
    BY <2>1, <2>2 DEF GetProc
<1>3. CASE GetFirst(c) \/ GetNext(c)
  BY <1>1, <1>2, <1>3 DEF GetFirst, GetNext, clockVars
<1>4. CASE Retire(c)
  BY <1>1, <1>4 DEF Retire, FinishProc, SliceAfterRetire, clockVars
<1>5. CASE Preempt(c)
  BY <1>1, <1>5 DEF Preempt, PutProc, clockVars
<1>6. CASE Stop(c)
  BY <1>1, <1>6, OsAssumption DEF Stop, Leave, schedVars
<1>7. CASE EndSlot(c)
  BY <1>1, <1>7, OsAssumption DEF EndSlot, Arrive, schedVars
<1>8. CASE SkipSlot(c) \/ LeaveMemmap(c)
  BY <1>1, <1>8 DEF SkipSlot, LeaveMemmap, clockVars, schedVars
<1>9. CASE Execute(c) \/ EnterMemmap(c)
  BY <1>1, <1>9 DEF Execute, EnterMemmap, RunInstruction, clockVars, schedVars
<1> QED
  BY <1>3, <1>4, <1>5, <1>6, <1>7, <1>8, <1>9 DEF CpuStep

\* The loader and the clock leave the CPUs and what they hold alone.
LEMMA LoaderKeeps ==
  ASSUME LoaderStep \/ NewSlot \/ LastTick \/ UNCHANGED osVars
  PROVE  UNCHANGED <<cpc, time_left, pc, proc>>
BY DEF LoaderStep, LoaderWait, LoaderAdd, LoaderSlot, LoaderDone, LoaderExit, AddProc,
       NewSlot, LastTick, osVars, schedVars, threadVars

\* What each step of a CPU does to the CPU itself.
LEMMA OwnRest ==
  ASSUME BaseInv, NoRest, NEW c \in CPU, CpuStep(c) \/ EnterMemmap(c) \/ LeaveMemmap(c)
  PROVE  proc'[c] = NoProc \/ cpc'[c] = "check" => time_left'[c] = 0
<1> USE DEF BaseInv, ThreadTypeOK, NoRest
<1>1. CASE GetFirst(c) \/ GetNext(c)
  BY <1>1 DEF GetFirst, GetNext, GetProc
<1>2. CASE Retire(c)
  BY <1>2 DEF Retire, SliceAfterRetire
<1>3. CASE Preempt(c)
  BY <1>3 DEF Preempt
<1>4. CASE Stop(c) \/ SkipSlot(c) \/ EndSlot(c) \/ LeaveMemmap(c)
  BY <1>4 DEF Stop, SkipSlot, EndSlot, LeaveMemmap, Goto, schedVars
<1>5. CASE Execute(c) \/ EnterMemmap(c)
  <2>1. proc'[c] = proc[c] /\ proc[c] # NoProc
    BY <1>5 DEF Execute, EnterMemmap, RunInstruction, Runs, schedVars
  <2>2. cpc'[c] # "check"
    BY <1>5 DEF Execute, EnterMemmap, Goto, AfterRun
  <2> QED
    BY <2>1, <2>2
<1> QED
  BY <1>1, <1>2, <1>3, <1>4, <1>5 DEF CpuStep

\* No step leaves a slice with a CPU that holds nothing.
LEMMA NextNoRest == BaseInv /\ NoRest /\ [SysNext]_sysVars => NoRest'
<1> SUFFICES ASSUME BaseInv, NoRest, [SysNext]_sysVars, NEW d \in CPU
             PROVE  proc'[d] = NoProc \/ cpc'[d] = "check" => time_left'[d] = 0
  BY DEF NoRest
<1>1. ASSUME NEW c \in CPU, CpuStep(c) \/ EnterMemmap(c) \/ LeaveMemmap(c)
      PROVE  proc'[d] = NoProc \/ cpc'[d] = "check" => time_left'[d] = 0
  <2>1. CASE d = c
    BY <1>1, <2>1, OwnRest
  <2>2. CASE d # c
    <3>1. cpc'[d] = cpc[d] /\ time_left'[d] = time_left[d] /\ proc'[d] = proc[d]
      BY <1>1, <2>2, OthersKeep
    <3> QED
      BY <3>1 DEF NoRest
  <2> QED
    BY <2>1, <2>2
<1>2. CASE LoaderStep \/ NewSlot \/ LastTick \/ UNCHANGED osVars
  BY <1>2, LoaderKeeps DEF NoRest
<1> QED
  BY <1>1, <1>2, SysSteps

\* The CPUs start without a slice.
LEMMA InitNoRest == SysInit => NoRest
BY DEF SysInit, OsInit, NoRest

\* A dispatched process starts with a whole slice, for any slice and any order
\* of dispatches, preemptions and exits on its CPU.
THEOREM AlwaysWholeSlice == SysSpec => WholeSlice
<1> DEFINE A == \A c \in CPU : cpc[c] = "check" /\ cpc'[c] # "check" /\ proc[c] # NoProc
                  => time_left'[c] = TimeSlot - 1
<1>1. ASSUME BaseInv, NoRest, [SysNext]_sysVars PROVE [A]_osVars
  <2> SUFFICES ASSUME NEW d \in CPU, cpc[d] = "check", cpc'[d] # "check", proc[d] # NoProc
               PROVE  time_left'[d] = TimeSlot - 1
    OBVIOUS
  <2>1. PICK c \in CPU : CpuStep(c) \/ EnterMemmap(c) \/ LeaveMemmap(c)
    BY <1>1, SysSteps, LoaderKeeps
  <2>2. d = c
    BY <1>1, <2>1, OthersKeep
  <2>3. RunInstruction(d)
    BY <2>1, <2>2 DEF CpuStep, GetFirst, Retire, Preempt, GetNext, Stop, MayStop, SkipSlot,
                      Execute, EndSlot, EnterMemmap, LeaveMemmap, At
  <2>4. Slice(d) = TimeSlot
    BY <1>1 DEF NoRest, Slice
  <2> QED
    BY <1>1, <2>3, <2>4 DEF RunInstruction, BaseInv, ThreadTypeOK
<1> QED
  BY <1>1, AlwaysBase, InitNoRest, NextNoRest, PTL DEF SysSpec, WholeSlice

\* A process that has executed in this slot is held by a CPU that is on its
\* way to next_slot or waits in it.
RanHeld == \A p \in ran : \E c \in CPU :
  /\ proc[c] = p
  /\ cpc[c] \in {"memmap", "slot"} \/ phase[c] = "waiting"

\* Such a CPU does not call the scheduler before the next slot.
LEMMA RanStays ==
  ASSUME BaseInv, NEW c \in CPU, CpuStep(c) \/ EnterMemmap(c) \/ LeaveMemmap(c),
         cpc[c] \in {"memmap", "slot"} \/ phase[c] = "waiting"
  PROVE  /\ proc'[c] = proc[c] /\ ran' = ran
         /\ cpc'[c] \in {"memmap", "slot"} \/ phase'[c] = "waiting"
<1> USE DEF BaseInv, ThreadTypeOK
<1>1. phase[c] # "waiting"
  BY DEF CpuStep, GetFirst, Retire, Preempt, GetNext, Stop, SkipSlot, Execute,
         RunInstruction, Runs, EndSlot, EnterMemmap, LeaveMemmap, At
<1>2. EndSlot(c) \/ LeaveMemmap(c)
  BY <1>1 DEF CpuStep, GetFirst, Retire, Preempt, GetNext, Stop, SkipSlot, Execute,
         RunInstruction, Runs, EndSlot, EnterMemmap, LeaveMemmap, At
<1>3. CASE EndSlot(c)
  <2>1. c \in Device
    BY OsAssumption
  <2> QED
    BY <1>3, <2>1 DEF EndSlot, Arrive, schedVars
<1>4. CASE LeaveMemmap(c)
  BY <1>4 DEF LeaveMemmap, Goto, schedVars
<1> QED
  BY <1>2, <1>3, <1>4

\* No step lets go of a process that has executed in this slot.
LEMMA NextRanHeld == BaseInv /\ RanHeld /\ [SysNext]_sysVars => RanHeld'
<1> SUFFICES ASSUME BaseInv, RanHeld, [SysNext]_sysVars, NEW p \in ran'
             PROVE  \E d \in CPU : /\ proc'[d] = p
                                   /\ cpc'[d] \in {"memmap", "slot"} \/ phase'[d] = "waiting"
  BY DEF RanHeld
<1>1. ASSUME NEW c \in CPU, CpuStep(c) \/ EnterMemmap(c) \/ LeaveMemmap(c), p \in ran
      PROVE  \E d \in CPU : /\ proc'[d] = p
                            /\ cpc'[d] \in {"memmap", "slot"} \/ phase'[d] = "waiting"
  <2>1. PICK d \in CPU : /\ proc[d] = p
                         /\ cpc[d] \in {"memmap", "slot"} \/ phase[d] = "waiting"
    BY <1>1 DEF RanHeld
  <2>2. CASE d = c
    BY <1>1, <2>1, <2>2, RanStays
  <2>3. CASE d # c
    BY <1>1, <2>1, <2>3, OthersKeep
  <2> QED
    BY <2>2, <2>3
<1>2. ASSUME NEW c \in CPU, CpuStep(c) \/ EnterMemmap(c) \/ LeaveMemmap(c), p \notin ran
      PROVE  proc'[c] = p /\ cpc'[c] \in {"memmap", "slot"}
  <2>1. Execute(c) \/ EnterMemmap(c)
    BY <1>2 DEF CpuStep, GetFirst, Retire, Preempt, GetNext, Stop, SkipSlot,
                EndSlot, LeaveMemmap
  <2>2. RunInstruction(c) /\ (Goto(c, "slot") \/ Goto(c, "memmap"))
    BY <2>1 DEF Execute, EnterMemmap, AfterRun
  <2> QED
    BY <1>2, <2>2 DEF RunInstruction, Goto, schedVars, BaseInv, ThreadTypeOK
<1>3. CASE LoaderStep
  <2>1. ran' = ran /\ \A d \in CPU : phase'[d] = phase[d]
    <3>1. \A d \in CPU : d # Loader /\ d \in Device
      BY OsAssumption
    <3> QED
      BY <1>3, <3>1 DEF LoaderStep, LoaderWait, LoaderAdd, LoaderSlot, LoaderDone,
           LoaderExit, Arrive, Leave, clockVars, threadVars, BaseInv, ThreadTypeOK
  <2> QED
    BY <1>3, <2>1, LoaderKeeps DEF RanHeld
<1>4. CASE NewSlot
  BY <1>4 DEF NewSlot
<1>5. CASE LastTick \/ UNCHANGED osVars
  <2>1. UNCHANGED <<ran, phase>>
    BY <1>5 DEF LastTick, FinalTick, osVars, threadVars, clockVars
  <2> QED
    BY <1>5, <2>1, LoaderKeeps DEF RanHeld
<1> QED
  BY <1>1, <1>2, <1>3, <1>4, <1>5, SysSteps

\* At first no process has executed.
LEMMA InitRanHeld == SysInit => RanHeld
BY DEF SysInit, OsInit, RanHeld

\* A process executes at most one instruction in a time slot, however often it
\* changes CPUs and whatever the order of the threads in the slot.
THEOREM AlwaysOncePerSlot == SysSpec => OncePerSlot
<1> DEFINE A == \A p \in Proc : pc'[p] # pc[p] => p \notin ran
<1>1. ASSUME BaseInv, RanHeld, [SysNext]_sysVars PROVE [A]_osVars
  <2> SUFFICES ASSUME NEW p \in Proc, pc'[p] # pc[p], p \in ran
               PROVE  FALSE
    OBVIOUS
  <2>1. PICK c \in CPU : CpuStep(c) \/ EnterMemmap(c) \/ LeaveMemmap(c)
    BY <1>1, SysSteps, LoaderKeeps
  <2>2. RunInstruction(c)
    BY <2>1 DEF CpuStep, GetFirst, Retire, Preempt, GetNext, Stop, SkipSlot,
                Execute, EndSlot, EnterMemmap, LeaveMemmap
  <2>3. proc[c] = p
    BY <1>1, <2>2 DEF RunInstruction, BaseInv, ThreadTypeOK
  <2>4. PICK d \in CPU : /\ proc[d] = p
                         /\ cpc[d] \in {"memmap", "slot"} \/ phase[d] = "waiting"
    BY <1>1 DEF RanHeld
  <2>5. d = c
    BY <1>1, <2>2, <2>3, <2>4
    DEF BaseInv, PlaceInv, DispatchInv, NoDoubleDispatch, HeldOnce, RunInstruction, Runs
  <2> QED
    BY <2>2, <2>4, <2>5 DEF RunInstruction, Runs, At
<1> QED
  BY <1>1, AlwaysBase, InitRanHeld, NextRanHeld, PTL DEF SysSpec, OncePerSlot

-----------------------------------------------------------------------------
(* Nobody is stranded by a CPU that stops. *)

\* What the configuration must be like: as many processes on a level as its
\* queue has room for, and no process that the loader does not load.
FitsScript ==
  /\ FitsQueues /\ IsFiniteSet(CPU)
  /\ \A p \in Proc : \E k \in 1 .. Len(Script) : Script[k] = p

\* S fits in T, one to one.
Fits(S, T) == \E f \in [S -> T] : \A x, y \in S : f[x] = f[y] => x = y

\* Less fits in more.
LEMMA FitsLess ==
  ASSUME NEW S, NEW T, Fits(S, T), NEW Q \in SUBSET S, NEW R, T \subseteq R
  PROVE  Fits(Q, R)
<1>1. PICK f \in [S -> T] : \A x, y \in S : f[x] = f[y] => x = y
  BY DEF Fits
<1> DEFINE g == [x \in Q |-> f[x]]
<1>2. g \in [Q -> R] /\ \A x, y \in Q : g[x] = g[y] => x = y
  BY <1>1
<1> QED
  BY <1>2 DEF Fits

\* What fits one to one in a finite set is not larger than it.
LEMMA FitsCount ==
  ASSUME NEW S, NEW T, Fits(S, T), IsFiniteSet(T)
  PROVE  Cardinality(S) <= Cardinality(T)
<1>1. PICK f \in [S -> T] : \A x, y \in S : f[x] = f[y] => x = y
  BY DEF Fits
<1>2. f \in Injection(S, T)
  BY <1>1 DEF Injection, IsInjective
<1> QED
  BY <1>2, FS_Injection

Live == loaded \ finished

\* The CPUs that stopped, or hold nothing and are about to test done.
GaveUp == {c \in CPU : cpc[c] = "stopped" \/ (cpc[c] = "check" /\ proc[c] = NoProc)}

\* The loader adds nothing more before the CPUs have gone to the next slot, or
\* has added nothing yet in this one.
Quiet == ldpc \in {"detach", "exit"} \/ (ldpc = "load" /\ phase[Loader] = "working")

\* How far the loader is, and what that means for the CPUs.
Progress ==
  /\ \A k \in 1 .. Len(Script) : k < i => Script[k] \in loaded
  /\ ldpc \in {"detach", "exit"} => i = Len(Script) + 1
  /\ done => ldpc \in {"detach", "exit"}
  /\ \A c \in CPU : /\ cpc[c] = "check" => phase[c] = "working"
                    /\ cpc[c] = "stopped" => done /\ proc[c] = NoProc

\* What is left to run fits on the CPUs that have not given up, unless the
\* loader adds to it; and then the CPUs that have only been about to test done
\* find it unset.
Enough == GaveUp # {} /\ Quiet => Fits(Live, CPU \ GaveUp)

StopInv == BaseInv /\ LoadInv /\ Progress /\ Enough

\* A CPU's step leaves the loader where it is, and a CPU stops only if done is set.
LEMMA CpuProgress ==
  ASSUME BaseInv, Progress, NEW c \in CPU,
         CpuStep(c) \/ EnterMemmap(c) \/ LeaveMemmap(c)
  PROVE  /\ Progress'
         /\ UNCHANGED <<ldpc, i, done, loaded>> /\ phase'[Loader] = phase[Loader]
<1> USE DEF BaseInv, ThreadTypeOK
<1>1. c # Loader /\ c \in Device /\ Loader \in Device
  BY OsAssumption
<1>2. UNCHANGED <<ldpc, i, done, loaded>> /\ phase'[Loader] = phase[Loader]
  <2>1. CASE GetFirst(c) \/ GetNext(c)
    BY <2>1 DEF GetFirst, GetNext, GetProc, clockVars
  <2>2. CASE Retire(c)
    BY <2>2 DEF Retire, FinishProc, clockVars
  <2>3. CASE Preempt(c)
    BY <2>3 DEF Preempt, PutProc, clockVars
  <2>4. CASE Stop(c)
    BY <2>4, <1>1 DEF Stop, Leave, schedVars
  <2>5. CASE EndSlot(c)
    BY <2>5, <1>1 DEF EndSlot, Arrive, schedVars
  <2>6. CASE SkipSlot(c) \/ LeaveMemmap(c)
    BY <2>6 DEF SkipSlot, LeaveMemmap, clockVars, schedVars
  <2>7. CASE Execute(c) \/ EnterMemmap(c)
    BY <2>7 DEF Execute, EnterMemmap, RunInstruction, clockVars, schedVars
  <2> QED
    BY <2>1, <2>2, <2>3, <2>4, <2>5, <2>6, <2>7 DEF CpuStep
<1>3. /\ cpc'[c] = "check" => phase'[c] = "working"
      /\ cpc'[c] = "stopped" => done /\ proc'[c] = NoProc
  <2>1. CASE GetFirst(c) \/ GetNext(c)
    BY <2>1 DEF GetFirst, GetNext, AfterGetNext, At, Goto, clockVars
  <2>2. CASE Retire(c) \/ Preempt(c)
    BY <2>2 DEF Retire, Preempt, Goto
  <2>3. CASE Stop(c)
    BY <2>3 DEF Stop, MayStop, Goto, schedVars
  <2>4. CASE EndSlot(c) \/ SkipSlot(c) \/ LeaveMemmap(c) \/ Execute(c) \/ EnterMemmap(c)
    BY <2>4 DEF EndSlot, SkipSlot, LeaveMemmap, Execute, EnterMemmap, AfterRun, Goto
  <2> QED
    BY <2>1, <2>2, <2>3, <2>4 DEF CpuStep
<1>4. \A d \in CPU \ {c} : /\ cpc'[d] = "check" => phase'[d] = "working"
                           /\ cpc'[d] = "stopped" => done /\ proc'[d] = NoProc
  BY OthersKeep DEF Progress
<1> QED
  BY <1>2, <1>3, <1>4 DEF Progress

\* The loader sets done only after the last process of the script.
LEMMA LoaderProgress ==
  ASSUME BaseInv, Progress, LoaderStep PROVE Progress'
<1> USE DEF BaseInv, ThreadTypeOK
<1>1. Loader \in Device /\ Loader \notin CPU /\ \A c \in CPU : c \in Device
  BY OsAssumption
<1>2. \A c \in CPU : phase'[c] = phase[c]
  BY <1>1 DEF LoaderStep, LoaderWait, LoaderAdd, LoaderSlot, LoaderDone, LoaderExit,
              Arrive, Leave, clockVars
<1>3. Len(Script) \in Nat /\ i \in Nat /\ i <= Len(Script) + 1 /\ 1 <= i
  BY ThreadFacts DEF PlaceInv, DispatchInv
<1>4. cpc' = cpc /\ proc' = proc
  BY LoaderKeeps
<1>5. CASE LoaderWait \/ LoaderSlot \/ LoaderExit
  BY <1>2, <1>4, <1>5 DEF LoaderWait, LoaderSlot, LoaderExit, threadVars, schedVars,
                          LoaderAt, Progress
<1>6. CASE LoaderAdd
  <2>1. ~done
    BY <1>6 DEF LoaderAdd, LoaderAt, Progress
  <2>2. \A k \in 1 .. Len(Script) : k < i' => k < i \/ k = i
    BY <1>3, <1>6 DEF LoaderAdd
  <2> QED
    BY <1>2, <1>4, <1>6, <2>1, <2>2 DEF LoaderAdd, AddProc, Progress
<1>7. CASE LoaderDone
  <2>1. i = Len(Script) + 1
    BY <1>3, <1>7 DEF LoaderDone
  <2> QED
    BY <1>2, <1>4, <1>7, <2>1 DEF LoaderDone, schedVars, clockVars, Progress
<1> QED
  BY <1>5, <1>6, <1>7 DEF LoaderStep

\* No step disturbs how far the loader is and what follows for the CPUs.
LEMMA NextProgress == BaseInv /\ Progress /\ [SysNext]_sysVars => Progress'
<1> SUFFICES ASSUME BaseInv, Progress, [SysNext]_sysVars PROVE Progress'
  OBVIOUS
<1>1. CASE NewSlot
  <2>1. \A c \in CPU : cpc[c] # "check"
    BY <1>1, OsAssumption DEF NewSlot, Tick, NobodyWorking, Progress
  <2> QED
    BY <1>1, <2>1 DEF NewSlot, schedVars, Progress
<1>2. CASE LastTick \/ UNCHANGED osVars
  BY <1>2 DEF LastTick, FinalTick, osVars, threadVars, schedVars, clockVars, Progress
<1> QED
  BY <1>1, <1>2, CpuProgress, LoaderProgress, SysSteps

\* A CPU that asked in vain has seen all queues empty: what is left is held by
\* the others.
LEMMA AskedInVain ==
  ASSUME StopInv, NEW c \in CPU, GetNext(c), proc'[c] = NoProc, Progress'
  PROVE  Fits(Live', CPU \ GaveUp')
<1> USE DEF StopInv, BaseInv, LoadInv, PlaceInv, DispatchInv
<1>1. GetNothing(c)
  <2>1. GetServed(c) => proc'[c] \in Proc
    <3> SUFFICES ASSUME GetServed(c) PROVE proc'[c] \in Proc
      OBVIOUS
    <3>1. PICK k \in Levels : GetServed(c)!(k)
      BY DEF GetServed
    <3>2. LevelAfter(k) \in Levels
      BY LevelAfterType DEF TypeInv, SchedTypeOK
    <3>3. mlq_ready_queue[LevelAfter(k)] \in Seq(Proc)
      BY <3>2 DEF TypeInv, SchedTypeOK
    <3> QED
      BY <3>1, <3>3, ElementOfSeq, LenProperties DEF TypeInv, SchedTypeOK
  <2> QED
    BY <2>1, MlqAssumption DEF GetNext, GetProc
<1>2. AllLevelsEmpty
  BY <1>1, TypeInvConserves DEF GetNothing, WorkConserving
<1>3. \A p \in Live : Held(p)
  <2>1. \A p : ~Queued(p)
    <3>1. DOMAIN <<>> = {}
      OBVIOUS
    <3> QED
      BY <1>2, <3>1 DEF AllLevelsEmpty, Queued
  <2> QED
    BY <2>1 DEF NoneLost, Known, Live
<1>4. Live' = Live /\ proc' = proc
  BY <1>1 DEF GetNext, GetProc, GetNothing, Live
<1>5. \A d \in GaveUp' : proc[d] = NoProc
  BY <1>4 DEF GaveUp, Progress
<1> DEFINE T == CPU \ GaveUp'
           f == [p \in Live |-> CHOOSE d \in CPU : proc[d] = p]
<1>6. ASSUME NEW p \in Live PROVE f[p] \in T /\ proc[f[p]] = p
  <2>1. \E d \in CPU : proc[d] = p
    BY <1>3 DEF Held
  <2>2. f[p] \in CPU /\ proc[f[p]] = p
    BY <2>1
  <2>3. p # NoProc
    BY MlqAssumption DEF Live, TypeInv, SchedTypeOK
  <2> QED
    BY <1>5, <2>2, <2>3
<1>7. f \in [Live -> T] /\ \A x, y \in Live : f[x] = f[y] => x = y
  BY <1>6
<1> HIDE DEF f
<1> QED
  BY <1>4, <1>7 DEF Fits

\* No step leaves more to run than the CPUs that have not given up can hold.
LEMMA NextEnough ==
  ASSUME StopInv, [SysNext]_sysVars, Progress' PROVE Enough'
<1> USE DEF StopInv, BaseInv, ThreadTypeOK
<1> SUFFICES ASSUME GaveUp' # {}, Quiet' PROVE Fits(Live', CPU \ GaveUp')
  BY DEF Enough
<1>1. ASSUME GaveUp' \subseteq GaveUp, Quiet, Live' \subseteq Live
      PROVE  Fits(Live', CPU \ GaveUp')
  <2>1. Fits(Live, CPU \ GaveUp)
    BY <1>1 DEF Enough
  <2>2. Live' \in SUBSET Live /\ CPU \ GaveUp \subseteq CPU \ GaveUp'
    BY <1>1
  <2> QED
    BY <2>1, <2>2, FitsLess
<1>2. ASSUME NEW c \in CPU, CpuStep(c) \/ EnterMemmap(c) \/ LeaveMemmap(c)
      PROVE  Fits(Live', CPU \ GaveUp')
  <2>1. CASE GetNext(c) /\ proc'[c] = NoProc
    BY <2>1, AskedInVain
  <2>2. CASE ~(GetNext(c) /\ proc'[c] = NoProc)
    <3>1. c \in GaveUp' => c \in GaveUp
      <4>1. \A x : Goto(c, x) => cpc'[c] = x
        BY DEF Goto
      <4>2. CASE GetFirst(c) \/ GetNext(c)
        BY <2>2, <4>1, <4>2 DEF GetFirst, GetNext, AfterGetNext, GaveUp
      <4>3. CASE Retire(c) \/ Preempt(c)
        BY <4>1, <4>3 DEF Retire, Preempt, GaveUp
      <4>4. CASE Stop(c)
        BY <4>4 DEF Stop, MayStop, At, GaveUp
      <4>5. CASE EndSlot(c) \/ SkipSlot(c) \/ LeaveMemmap(c) \/ Execute(c) \/ EnterMemmap(c)
        BY <4>1, <4>5 DEF EndSlot, SkipSlot, LeaveMemmap, Execute, EnterMemmap, AfterRun,
                          GaveUp
      <4> QED
        BY <1>2, <4>2, <4>3, <4>4, <4>5 DEF CpuStep
    <3>2. \A d \in CPU : d # c /\ d \in GaveUp' => d \in GaveUp
      BY <1>2, OthersKeep DEF GaveUp
    <3>3. GaveUp' \subseteq GaveUp
      BY <3>1, <3>2 DEF GaveUp
    <3>4. Quiet
      BY <1>2, CpuProgress DEF Quiet
    <3>5. finished \subseteq finished' /\ loaded' = loaded
      <4>1. loaded' = loaded
        BY <1>2, CpuProgress
      <4>2. finished \subseteq finished'
        BY <1>2 DEF CpuStep, GetFirst, Retire, Preempt, GetNext, GetProc, PutProc,
               FinishProc, Stop, SkipSlot, Execute, RunInstruction, EndSlot,
               EnterMemmap, LeaveMemmap, schedVars
      <4> QED
        BY <4>1, <4>2
    <3> QED
      BY <1>1, <3>3, <3>4, <3>5 DEF Live
  <2> QED
    BY <2>1, <2>2
<1>3. CASE LoaderStep
  <2>1. Loader \in Device
    BY OsAssumption
  <2>2. LoaderDone \/ LoaderExit
    BY <1>3, <2>1 DEF LoaderStep, LoaderWait, LoaderAdd, LoaderSlot, LoaderAt, Arrive,
                      threadVars, Quiet
  <2>3. Quiet /\ Live' = Live
    BY <2>2 DEF LoaderDone, LoaderExit, LoaderAt, schedVars, Quiet, Live
  <2>4. GaveUp' = GaveUp
    BY <1>3, LoaderKeeps DEF GaveUp
  <2> QED
    BY <1>1, <2>3, <2>4
<1>4. CASE NewSlot
  <2>1. GaveUp' = GaveUp /\ Live' = Live
    BY <1>4, LoaderKeeps DEF NewSlot, schedVars, GaveUp, Live
  <2>2. PICK c \in CPU : c \in GaveUp
    BY <2>1 DEF GaveUp
  <2>3. cpc[c] # "check"
    BY <1>4, OsAssumption DEF NewSlot, Tick, NobodyWorking, Progress
  <2>4. done
    BY <2>2, <2>3 DEF GaveUp, Progress
  <2>5. Quiet
    BY <2>4 DEF Progress, Quiet
  <2> QED
    BY <1>1, <2>1, <2>5
<1>5. CASE LastTick \/ UNCHANGED osVars
  <2>1. UNCHANGED <<loaded, finished, cpc, proc, ldpc, phase>>
    BY <1>5 DEF LastTick, FinalTick, osVars, threadVars, schedVars, clockVars
  <2>2. GaveUp' = GaveUp /\ Live' = Live /\ Quiet
    BY <2>1 DEF GaveUp, Live, Quiet
  <2> QED
    BY <1>1, <2>2
<1> QED
  BY <1>2, <1>3, <1>4, <1>5, SysSteps

\* No CPU has given up at first.
LEMMA SysInitStop == SysInit => StopInv
<1> SUFFICES ASSUME SysInit PROVE StopInv
  OBVIOUS
<1>1. BaseInv
  BY SysInitBase
<1>2. LoadInv
  BY InitLoadInv DEF SysInit, OsInit
<1>3. Progress
  <2>1. \A k \in 1 .. Len(Script) : ~(k < 1)
    BY OsAssumption, LenProperties
  <2> QED
    BY <2>1 DEF SysInit, OsInit, Progress
<1>4. GaveUp = {}
  BY DEF SysInit, OsInit, GaveUp
<1> QED
  BY <1>1, <1>2, <1>3, <1>4 DEF StopInv, Enough

\* Where nothing is lost, what is left to run is at most as much as the CPUs
\* that have not stopped.
LEMMA StopInvSafe ==
  ASSUME FitsScript, StopInv PROVE StopIsSafe
<1> SUFFICES ASSUME Stopped # {}
             PROVE  done /\ Cardinality(Unfinished) <= Cardinality(CPU \ Stopped)
  BY DEF StopIsSafe
<1>1. done /\ Quiet /\ i = Len(Script) + 1
  BY DEF Stopped, StopInv, Progress, Quiet
<1>2. Stopped \subseteq GaveUp /\ GaveUp # {}
  BY DEF Stopped, GaveUp
<1>3. Unfinished \subseteq Live
  <2>1. \A k \in 1 .. Len(Script) : k < Len(Script) + 1
    BY OsAssumption, LenProperties
  <2>2. \A p \in Proc : p \in loaded
    BY <1>1, <2>1 DEF FitsScript, StopInv, Progress
  <2> QED
    BY <2>2 DEF Unfinished, Live
<1>4. Fits(Live, CPU \ GaveUp)
  BY <1>1, <1>2 DEF StopInv, Enough
<1>5. Fits(Unfinished, CPU \ Stopped)
  <2>1. Unfinished \in SUBSET Live /\ CPU \ GaveUp \subseteq CPU \ Stopped
    BY <1>2, <1>3
  <2> QED
    BY <1>4, <2>1, FitsLess
<1>6. IsFiniteSet(CPU \ Stopped)
  BY FS_Difference DEF FitsScript
<1> QED
  BY <1>1, <1>5, <1>6, FitsCount

\* A CPU that finds no process and done set leaves for good, and the others
\* can still run all that is left: for every configuration whose processes fit
\* in their queues.
THEOREM AlwaysStopIsSafe == FitsScript => (SysSpec => []StopIsSafe)
<1> SUFFICES ASSUME FitsScript PROVE SysSpec => []StopIsSafe
  OBVIOUS
<1>1. StopInv /\ [SysNext]_sysVars => StopInv'
  <2> SUFFICES ASSUME StopInv, [SysNext]_sysVars PROVE StopInv'
    OBVIOUS
  <2>1. BaseInv'
    BY SysNextBase DEF StopInv
  <2>2. LoadInv'
    BY StepCalls, NextLoadInv DEF StopInv, FitsScript
  <2>3. Progress'
    BY NextProgress DEF StopInv
  <2> QED
    BY <2>1, <2>2, <2>3, NextEnough DEF StopInv
<1>2. StopInv => StopIsSafe
  BY StopInvSafe
<1> QED
  BY <1>1, <1>2, SysInitStop, PTL DEF SysSpec

-----------------------------------------------------------------------------
(* The CPU that never ends. *)

\* Everything has run, the loader is done, and CPU c is on the way from a
\* get_proc that found nothing to next_slot, or back at the top of its loop.
IdleAtEnd(c) ==
  /\ done /\ AllLevelsEmpty /\ \A d \in CPU : proc[d] = NoProc
  /\ cpc[c] \in {"top", "slot"}

\* CPU c and the others go on asking a scheduler that has nothing, and none puts
\* anything back.
LEMMA IdleStays ==
  ASSUME BaseInv, Progress, NEW c \in CPU, IdleAtEnd(c), [SysNext]_sysVars
  PROVE  IdleAtEnd(c)'
<1> USE DEF IdleAtEnd
<1>1. ldpc \in {"detach", "exit"} /\ cpc \in [CPU -> CpuLabel]
  BY DEF Progress, BaseInv, ThreadTypeOK
<1>2. ASSUME NEW d \in CPU, GetProc(d)
      PROVE  UNCHANGED <<mlq_ready_queue, proc>>
  <2>1. ~GetServed(d)
    <3> SUFFICES ASSUME NEW k \in Levels, Serves(k) PROVE FALSE
      BY DEF GetServed
    <3>1. LevelAfter(k) \in Levels
      BY LevelAfterType DEF BaseInv, PlaceInv, DispatchInv, TypeInv, SchedTypeOK
    <3> QED
      BY <3>1 DEF Serves, AllLevelsEmpty
  <2> QED
    BY <1>2, <2>1 DEF GetProc, GetNothing
<1>3. ASSUME NEW d \in CPU, CpuStep(d) \/ EnterMemmap(d) \/ LeaveMemmap(d)
      PROVE  IdleAtEnd(c)'
  <2>1. ~Retire(d) /\ ~Preempt(d) /\ ~Execute(d) /\ ~EnterMemmap(d)
    BY DEF Retire, Preempt, Execute, EnterMemmap, RunInstruction, Runs
  <2>2. CASE GetFirst(d) \/ GetNext(d)
    <3>1. /\ UNCHANGED <<mlq_ready_queue, proc, done>>
          /\ d = c => GetFirst(d)
          /\ cpc' = [cpc EXCEPT ![d] = "slot"] \/ cpc' = [cpc EXCEPT ![d] = "check"]
          /\ GetFirst(d) => cpc' = [cpc EXCEPT ![d] = "slot"]
      BY <1>2, <2>2 DEF GetFirst, GetNext, AfterGetNext, Goto, At
    <3> QED
      BY <1>1, <3>1 DEF AllLevelsEmpty
  <2>3. CASE Stop(d) \/ SkipSlot(d) \/ LeaveMemmap(d)
    BY <1>1, <2>3 DEF Stop, SkipSlot, LeaveMemmap, At, Goto, schedVars, AllLevelsEmpty
  <2>4. CASE EndSlot(d)
    BY <1>1, <2>4 DEF EndSlot, Goto, schedVars, AllLevelsEmpty
  <2> QED
    BY <1>3, <2>1, <2>2, <2>3, <2>4 DEF CpuStep
<1>4. ASSUME LoaderStep \/ NewSlot \/ LastTick \/ UNCHANGED osVars
      PROVE  IdleAtEnd(c)'
  <2>1. ~LoaderWait /\ ~LoaderAdd /\ ~LoaderSlot /\ ~LoaderDone
    BY <1>1 DEF LoaderWait, LoaderAdd, LoaderSlot, LoaderDone, LoaderAt
  <2>2. UNCHANGED <<schedVars, cpc, done>>
    BY <1>4, <2>1 DEF LoaderStep, LoaderExit, NewSlot, LastTick, osVars, threadVars
  <2> QED
    BY <2>2 DEF schedVars, AllLevelsEmpty
<1> QED
  BY <1>3, <1>4, SysSteps

\* os.c:70: the branch that finds no process at the top of the loop goes back
\* without a test of done.  In every configuration, a CPU that is there when all
\* has run never stops, and main waits for it for ever.
THEOREM IdleNeverStops ==
  ASSUME NEW c \in CPU
  PROVE  SysSpec => [](IdleAtEnd(c) => [](cpc[c] # "stopped"))
<1>1. SysInit => Progress
  BY SysInitStop DEF StopInv
<1>2. BaseInv /\ Progress /\ [SysNext]_sysVars => Progress'
  BY NextProgress
<1>3. BaseInv /\ Progress /\ IdleAtEnd(c) /\ [SysNext]_sysVars => IdleAtEnd(c)'
  BY IdleStays
<1>4. IdleAtEnd(c) => cpc[c] # "stopped"
  BY DEF IdleAtEnd
<1> QED
  BY <1>1, <1>2, <1>3, <1>4, AlwaysBase, PTL DEF SysSpec

-----------------------------------------------------------------------------
(* The search of memmap. *)

WalkTypeOK ==
  /\ list \in [CPU -> Nat]
  /\ entry \in [CPU -> Nat \ {0}]
  /\ stage \in [CPU -> {"size", "entry", "pid", "caller"}]
  /\ seen \in [CPU -> Proc \cup {NoProc}]
  /\ caller \in [CPU -> Proc \cup {NoProc}]
  /\ shifted \in [CPU -> BOOLEAN]
  /\ slots \in [Lists -> [1 .. MaxQueueSize -> Proc \cup {NoProc}]]

\* No list outgrows its array, which holds the list's entries in their order.
InArray ==
  \A l \in Lists : \A k \in DOMAIN Content(l) :
    k \in 1 .. MaxQueueSize /\ slots[l][k] = Content(l)[k]

\* A search past the test of the size is at a slot that has been written, and
\* keeps a pointer only until it has compared the pid.
AtSlot(c) ==
  /\ stage[c] # "size" => /\ list[c] \in Lists
                          /\ entry[c] \in 1 .. MaxQueueSize
                          /\ slots[list[c]][entry[c]] \in Proc
  /\ stage[c] # "pid" => seen[c] = NoProc

SlotInv == BaseInv /\ WalkTypeOK /\ InArray /\ \A c \in CPU : AtSlot(c)

\* The lists are sequences of processes.
LEMMA ContentType ==
  ASSUME PlaceInv, NEW l \in Lists
  PROVE  /\ Content(l) \in Seq(Proc) /\ Len(Content(l)) \in Nat
         /\ DOMAIN Content(l) = 1 .. Len(Content(l))
<1>1. Content(l) \in Seq(Proc)
  BY DEF Content, Lists, PlaceInv, DispatchInv, TypeInv, SchedTypeOK
<1> QED
  BY <1>1, LenProperties

\* purgequeue() takes an entry out or leaves the list alone.
LEMMA PurgeShortens ==
  ASSUME NEW S, NEW s \in Seq(S), NEW x
  PROVE  Purge(s, x) = s \/ Len(Purge(s, x)) < Len(s)
<1>1. CASE \E k \in DOMAIN s : s[k] = x
  <2> DEFINE First(k) == s[k] = x /\ \A j \in DOMAIN s : s[j] = x => k <= j
             n == CHOOSE k \in DOMAIN s : First(k)
             Hits == {k \in DOMAIN s : s[k] = x}
  <2>1. Hits \in SUBSET Nat /\ Hits # {}
    BY <1>1, LenProperties
  <2>2. PICK k \in Hits : \A j \in Hits : k <= j
    BY <2>1, SmallestOfNatSet
  <2>3. n \in DOMAIN s
    BY <2>2
  <2>4. Purge(s, x) = RemoveAt(s, n)
    BY <1>1 DEF Purge
  <2> HIDE DEF n, First
  <2>5. n \in 1 .. Len(s) /\ Len(s) \in Nat
    BY <2>3, LenProperties
  <2>6. Len(RemoveAt(s, n)) = Len(s) - 1
    BY <2>5, RemoveAtProperties
  <2> QED
    BY <2>4, <2>5, <2>6
<1>2. CASE ~ \E k \in DOMAIN s : s[k] = x
  BY <1>2 DEF Purge
<1> QED
  BY <1>1, <1>2

\* enqueue() leaves every entry in its place.
LEMMA EnqueueInPlace ==
  ASSUME NEW S, NEW s \in Seq(S), NEW x \in S, NEW k \in DOMAIN s
  PROVE  k \in DOMAIN Enqueue(s, x) /\ Enqueue(s, x)[k] = s[k]
<1>1. CASE Len(s) < MaxQueueSize
  <2>1. /\ Append(s, x) \in Seq(S)
        /\ Len(Append(s, x)) = Len(s) + 1
        /\ \A j \in 1 .. Len(s) : Append(s, x)[j] = s[j]
    BY AppendProperties
  <2>2. /\ DOMAIN Append(s, x) = 1 .. Len(s) + 1
        /\ DOMAIN s = 1 .. Len(s) /\ Len(s) \in Nat
    BY <2>1, LenProperties
  <2>3. k \in 1 .. Len(s) + 1 /\ k \in 1 .. Len(s)
    BY <2>2
  <2>4. Enqueue(s, x) = Append(s, x)
    BY <1>1 DEF Enqueue
  <2> QED
    BY <2>1, <2>2, <2>3, <2>4
<1>2. CASE ~(Len(s) < MaxQueueSize)
  BY <1>2 DEF Enqueue
<1> QED
  BY <1>1, <1>2

\* What a call of the scheduler does to a list: it enqueues a process at its end,
\* takes one out, or leaves it alone.
LEMMA ListStep ==
  ASSUME PlaceInv, [SchedNext]_schedVars, NEW l \in Lists
  PROVE  \/ Content(l)' = Content(l)
         \/ \E x \in Proc : Content(l)' = Enqueue(Content(l), x)
         \/ Len(Content(l)') < Len(Content(l))
<1>1. /\ mlq_ready_queue \in [Levels -> Seq(Proc)] /\ running_list \in Seq(Proc)
      /\ \A c \in CPU : proc[c] # NoProc => proc[c] \in Proc
  BY DEF PlaceInv, DispatchInv, TypeInv, SchedTypeOK
<1>2. ASSUME NEW c \in CPU, GetServed(c)
      PROVE  \E n \in Levels : \E k \in DOMAIN mlq_ready_queue[n] :
               /\ mlq_ready_queue' = [mlq_ready_queue EXCEPT ![n] = DequeueAt(@, k)]
               /\ running_list' = Enqueue(running_list, mlq_ready_queue[n][k])
               /\ mlq_ready_queue[n][k] \in Proc
  <2>1. PICK k \in Levels : GetServed(c)!(k)
    BY <1>2 DEF GetServed
  <2> DEFINE n == LevelAfter(k)
  <2>2. n \in Levels /\ mlq_ready_queue[n] \in Seq(Proc)
    BY <1>1, LevelAfterType DEF PlaceInv, DispatchInv, TypeInv, SchedTypeOK
  <2>3. PICK m \in DOMAIN mlq_ready_queue[n] :
          /\ mlq_ready_queue' = [mlq_ready_queue EXCEPT ![n] = DequeueAt(@, m)]
          /\ running_list' = Enqueue(running_list, mlq_ready_queue[n][m])
    BY <2>1
  <2>4. mlq_ready_queue[n][m] \in Proc
    BY <2>2, ElementOfSeq, LenProperties
  <2> HIDE DEF n
  <2> QED
    BY <2>2, <2>3, <2>4
<1>3. CASE l = Running
  <2>1. Content(l) = running_list /\ Content(l)' = running_list'
    BY <1>3 DEF Content
  <2>2. ASSUME NEW x, running_list' = Purge(running_list, x)
        PROVE  running_list' = running_list \/ Len(running_list') < Len(running_list)
    BY <1>1, <2>2, PurgeShortens
  <2>3. \/ running_list' = running_list
        \/ \E x \in Proc : running_list' = Enqueue(running_list, x)
        \/ Len(running_list') < Len(running_list)
    BY <1>2, <2>2 DEF SchedNext, AddProc, GetProc, GetNothing, PutProc, FinishProc, schedVars
  <2> QED
    BY <2>1, <2>3
<1>4. CASE l # Running
  <2>1. /\ l \in Levels
        /\ Content(l) = mlq_ready_queue[l] /\ Content(l)' = mlq_ready_queue'[l]
    BY <1>4 DEF Content, Lists
  <2>2. ASSUME NEW x \in Proc,
               mlq_ready_queue' = [mlq_ready_queue EXCEPT ![Level(x)] = Enqueue(@, x)]
        PROVE  mlq_ready_queue'[l] \in {mlq_ready_queue[l], Enqueue(mlq_ready_queue[l], x)}
    BY <1>1, <2>1, <2>2
  <2>3. ASSUME NEW n \in Levels, NEW k \in DOMAIN mlq_ready_queue[n],
               mlq_ready_queue' = [mlq_ready_queue EXCEPT ![n] = DequeueAt(@, k)]
        PROVE  \/ mlq_ready_queue'[l] = mlq_ready_queue[l]
               \/ Len(mlq_ready_queue'[l]) < Len(mlq_ready_queue[l])
    <3>1. CASE n = l
      <4>1. mlq_ready_queue'[l] = RemoveAt(mlq_ready_queue[l], k)
        BY <1>1, <2>1, <2>3, <3>1 DEF DequeueAt
      <4>2. mlq_ready_queue[l] \in Seq(Proc) /\ k \in 1 .. Len(mlq_ready_queue[l])
        BY <1>1, <2>1, <2>3, <3>1, LenProperties
      <4>3. Len(RemoveAt(mlq_ready_queue[l], k)) = Len(mlq_ready_queue[l]) - 1
        BY <4>2, RemoveAtProperties
      <4> QED
        BY <4>1, <4>2, <4>3, LenProperties
    <3>2. CASE n # l
      BY <1>1, <2>1, <2>3, <3>2
    <3> QED
      BY <3>1, <3>2
  <2>4. \/ mlq_ready_queue'[l] = mlq_ready_queue[l]
        \/ \E x \in Proc : mlq_ready_queue'[l] = Enqueue(mlq_ready_queue[l], x)
        \/ Len(mlq_ready_queue'[l]) < Len(mlq_ready_queue[l])
    <3>1. ASSUME NEW c \in CPU, GetServed(c)
          PROVE  \/ mlq_ready_queue'[l] = mlq_ready_queue[l]
                 \/ Len(mlq_ready_queue'[l]) < Len(mlq_ready_queue[l])
      BY <1>2, <2>3, <3>1
    <3> QED
      BY <1>1, <2>2, <3>1
      DEF SchedNext, AddProc, GetProc, GetNothing, PutProc, FinishProc, schedVars
  <2> QED
    BY <2>1, <2>4
<1> QED
  BY <1>3, <1>4

\* No list outgrows MAX_QUEUE_SIZE.
LEMMA ListsFit ==
  ASSUME PlaceInv, [SchedNext]_schedVars, NEW l \in Lists, Len(Content(l)) <= MaxQueueSize
  PROVE  Len(Content(l)') <= MaxQueueSize
<1>1. Content(l) \in Seq(Proc) /\ Len(Content(l)) \in Nat /\ MaxQueueSize \in Nat
  BY ContentType, QueueAssumption
<1>2. ASSUME NEW x \in Proc PROVE Len(Enqueue(Content(l), x)) <= MaxQueueSize
  <2>1. Len(Append(Content(l), x)) = Len(Content(l)) + 1
    BY <1>1, AppendProperties
  <2> QED
    BY <1>1, <2>1 DEF Enqueue
<1>3. CASE Len(Content(l)') < Len(Content(l))
  <2>1. Content(l)' \in Seq(Proc)
    BY NextPlaceInv DEF Content, Lists, PlaceInv, DispatchInv, TypeInv, SchedTypeOK
  <2> DEFINE n == Len(Content(l)')
             m == Len(Content(l))
  <2>2. n \in Nat
    BY <2>1, LenProperties
  <2>3. m \in Nat /\ n < m /\ m <= MaxQueueSize
    BY <1>1, <1>3
  <2> HIDE DEF n, m
  <2>4. n <= MaxQueueSize
    BY <1>1, <2>2, <2>3
  <2> QED
    BY <2>4 DEF n
<1>4. CASE Content(l)' = Content(l)
  BY <1>4
<1> QED
  BY <1>2, <1>3, <1>4, ListStep

\* The entries of a list stay in place until one is taken out of it.
LEMMA ContentInPlace ==
  ASSUME PlaceInv, [SchedNext]_schedVars, NEW l \in Lists, ~Shrinks(l)
  PROVE  \A k \in DOMAIN Content(l) : k \in DOMAIN Content(l)' /\ Content(l)'[k] = Content(l)[k]
<1>1. Content(l) \in Seq(Proc)
  BY ContentType
<1> QED
  BY <1>1, ListStep, EnqueueInPlace DEF Shrinks

\* Every step writes the arrays along with the lists, or leaves both alone.
LEMMA StepStores ==
  ASSUME [SysNext]_sysVars
  PROVE  Store \/ UNCHANGED <<mlq_ready_queue, running_list, slots>>
<1>1. ASSUME NEW c \in CPU, Memmapping(c)
      PROVE  UNCHANGED <<mlq_ready_queue, running_list, slots>>
  <2>1. CASE Trap(c)
    BY <2>1 DEF Trap, RunInstruction, schedVars
  <2>2. CASE SearchStep(c)
    BY <2>2 DEF SearchStep, TestSize, ReadEntry, ReadPid, TakeCaller, NextList,
       osVars, schedVars
  <2>3. CASE SysReturn(c)
    BY <2>3 DEF SysReturn, schedVars
  <2> QED
    BY <1>1, <2>1, <2>2, <2>3 DEF Memmapping
<1> QED
  BY <1>1 DEF SysNext, OtherStep, StoreOnly, sysVars, osVars, schedVars

\* The arrays hold the lists after every step, and a slot that has held a process
\* holds one for ever.
LEMMA NextInArray ==
  ASSUME SlotInv, [SysNext]_sysVars
  PROVE  /\ InArray'
         /\ slots' \in [Lists -> [1 .. MaxQueueSize -> Proc \cup {NoProc}]]
         /\ \A l \in Lists : \A k \in 1 .. MaxQueueSize :
              slots[l][k] \in Proc => slots'[l][k] \in Proc
<1>1. PlaceInv /\ PlaceInv' /\ [SchedNext]_schedVars
  BY SysNextBase, StepCalls DEF SlotInv, BaseInv
<1>2. /\ slots \in [Lists -> [1 .. MaxQueueSize -> Proc \cup {NoProc}]]
      /\ MaxQueueSize \in Nat
  BY QueueAssumption DEF SlotInv, WalkTypeOK
<1>3. CASE Store
  <2>1. ASSUME NEW l \in Lists
        PROVE  /\ Content(l)' \in Seq(Proc) /\ Len(Content(l)') \in Nat
               /\ Len(Content(l)') <= MaxQueueSize
               /\ \A k \in 1 .. Len(Content(l)') : Content(l)'[k] \in Proc
               /\ DOMAIN Content(l)' = 1 .. Len(Content(l)')
    <3>1. Content(l) \in Seq(Proc) /\ Len(Content(l)) \in Nat
          /\ DOMAIN Content(l) = 1 .. Len(Content(l))
      BY <1>1, ContentType
    <3>2. Len(Content(l)) <= MaxQueueSize
      <4>1. CASE Len(Content(l)) = 0
        BY <1>2, <4>1
      <4>2. CASE Len(Content(l)) # 0
        <5>1. Len(Content(l)) \in DOMAIN Content(l)
          BY <3>1, <4>2
        <5> QED
          BY <1>2, <3>1, <5>1 DEF SlotInv, InArray
      <4> QED
        BY <4>1, <4>2
    <3>3. Content(l)' \in Seq(Proc)
      BY <1>1 DEF Content, Lists, PlaceInv, DispatchInv, TypeInv, SchedTypeOK
    <3>4. Len(Content(l)') <= MaxQueueSize
      BY <1>1, <3>2, ListsFit
    <3> QED
      BY <3>3, <3>4, ElementOfSeq, LenProperties
  <2>2. ASSUME NEW l \in Lists, NEW k \in 1 .. MaxQueueSize
        PROVE  slots'[l][k] = IF k <= Len(Content(l)') THEN Content(l)'[k] ELSE slots[l][k]
    BY <1>3, <2>2 DEF Store
  <2>3. ASSUME NEW l \in Lists, NEW k \in 1 .. MaxQueueSize
        PROVE  /\ slots'[l][k] \in Proc \cup {NoProc}
               /\ slots[l][k] \in Proc => slots'[l][k] \in Proc
    <3>1. CASE k <= Len(Content(l)')
      <4>1. k \in 1 .. Len(Content(l)')
        BY <1>2, <2>1, <3>1
      <4> QED
        BY <2>1, <2>2, <3>1, <4>1
    <3>2. CASE ~(k <= Len(Content(l)'))
      BY <1>2, <2>2, <3>2
    <3> QED
      BY <3>1, <3>2
  <2>4. slots' \in [Lists -> [1 .. MaxQueueSize -> Proc \cup {NoProc}]]
    <3> DEFINE W(l, k) == IF k <= Len(Content(l)') THEN Content(l)'[k] ELSE slots[l][k]
    <3>1. slots' = [l \in Lists |-> [k \in 1 .. MaxQueueSize |-> W(l, k)]]
      BY <1>3 DEF Store
    <3>2. \A l \in Lists : \A k \in 1 .. MaxQueueSize : W(l, k) \in Proc \cup {NoProc}
      BY <2>2, <2>3
    <3> HIDE DEF W
    <3> QED
      BY <3>1, <3>2
  <2>5. ASSUME NEW l \in Lists, NEW k \in DOMAIN Content(l)'
        PROVE  k \in 1 .. MaxQueueSize /\ slots'[l][k] = Content(l)'[k]
    <3> DEFINE n == Len(Content(l)')
    <3>1. k \in 1 .. n /\ n \in Nat /\ n <= MaxQueueSize
      BY <2>1, <2>5
    <3> HIDE DEF n
    <3>2. k \in 1 .. MaxQueueSize /\ k <= n
      BY <1>2, <3>1
    <3> QED
      BY <2>2, <3>2 DEF n
  <2> QED
    BY <2>3, <2>4, <2>5 DEF InArray, Content
<1>4. CASE UNCHANGED <<mlq_ready_queue, running_list, slots>>
  BY <1>2, <1>4 DEF SlotInv, InArray, Content
<1> QED
  BY <1>3, <1>4, StepStores

\* The types of the search and its place, after a step of its own.
LEMMA OwnSlot ==
  ASSUME SlotInv, NEW c \in CPU, Memmapping(c)
  PROVE  /\ list' \in [CPU -> Nat] /\ entry' \in [CPU -> Nat \ {0}]
         /\ stage' \in [CPU -> {"size", "entry", "pid", "caller"}]
         /\ seen' \in [CPU -> Proc \cup {NoProc}] /\ caller' \in [CPU -> Proc \cup {NoProc}]
         /\ shifted' \in [CPU -> BOOLEAN]
         /\ \A d \in CPU : AtSlot(d)'
<1> USE DEF SlotInv, WalkTypeOK, AtSlot
<1>r. Running \in Nat /\ FirstEntry \in Nat \ {0} /\ \A l \in Nat : ListAfter(l) \in Nat
  BY MlqAssumption DEF Running, FirstEntry, ListAfter
<1>1. CASE Trap(c)
  BY <1>1, <1>r DEF Trap
<1>2. CASE TestSize(c)
  <2>1. list[c] \in Lists /\ entry[c] <= Len(Content(list[c])) /\ entry[c] \in Nat \ {0}
    BY <1>2 DEF TestSize, Searching
  <2>2. Content(list[c]) \in Seq(Proc) /\ entry[c] \in 1 .. Len(Content(list[c]))
        /\ entry[c] \in DOMAIN Content(list[c])
    BY <2>1, ContentType DEF BaseInv
  <2>3. entry[c] \in 1 .. MaxQueueSize /\ slots[list[c]][entry[c]] = Content(list[c])[entry[c]]
    BY <2>1, <2>2 DEF InArray
  <2>4. slots[list[c]][entry[c]] \in Proc
    BY <2>2, <2>3, ElementOfSeq
  <2> QED
    BY <1>2, <2>1, <2>3, <2>4 DEF TestSize, NextStage
<1>3. CASE ReadEntry(c)
  <2>1. slots[list[c]][entry[c]] \in Proc /\ stage[c] = "entry"
    BY <1>3 DEF ReadEntry
  <2> QED
    BY <1>3, <2>1 DEF ReadEntry, NextStage
<1>4. CASE ReadPid(c)
  <2>1. entry[c] + 1 \in Nat \ {0} /\ stage[c] = "pid"
    BY <1>4 DEF ReadPid
  <2>2. seen' = [seen EXCEPT ![c] = NoProc] /\ UNCHANGED <<slots, list, caller, shifted>>
    BY <1>4 DEF ReadPid
  <2>3. \/ stage' = [stage EXCEPT ![c] = "caller"] /\ entry' = entry
        \/ stage' = [stage EXCEPT ![c] = "size"] /\ entry' = [entry EXCEPT ![c] = @ + 1]
    BY <1>4 DEF ReadPid, NextStage
  <2>4. CASE stage' = [stage EXCEPT ![c] = "caller"] /\ entry' = entry
    BY <2>1, <2>2, <2>4
  <2>5. CASE stage' = [stage EXCEPT ![c] = "size"] /\ entry' = [entry EXCEPT ![c] = @ + 1]
    <3>1. entry' \in [CPU -> Nat \ {0}] /\ \A d \in CPU : d # c => entry'[d] = entry[d]
      BY <2>1, <2>5
    <3>2. stage'[c] = "size" /\ \A d \in CPU : d # c => stage'[d] = stage[d]
      BY <2>5
    <3>3. \A d \in CPU : AtSlot(d)'
      BY <2>2, <3>1, <3>2
    <3> QED
      BY <2>2, <2>5, <3>1, <3>3
  <2> QED
    BY <2>3, <2>4, <2>5
<1>5. CASE TakeCaller(c)
  <2>1. slots[list[c]][entry[c]] \in Proc /\ seen[c] = NoProc
    BY <1>5 DEF TakeCaller
  <2> QED
    BY <1>5, <2>1 DEF TakeCaller, NextStage
<1>6. CASE NextList(c)
  BY <1>6, <1>r DEF NextList
<1>7. CASE SysReturn(c)
  BY <1>7 DEF SysReturn, walkVars
<1> QED
  BY <1>1, <1>2, <1>3, <1>4, <1>5, <1>6, <1>7 DEF Memmapping, SearchStep

\* No step takes a search off the slots, whoever takes it.
LEMMA NextSlotInv == SlotInv /\ [SysNext]_sysVars => SlotInv'
<1> SUFFICES ASSUME SlotInv, [SysNext]_sysVars PROVE SlotInv'
  OBVIOUS
<1>1. BaseInv' /\ InArray'
      /\ slots' \in [Lists -> [1 .. MaxQueueSize -> Proc \cup {NoProc}]]
      /\ \A l \in Lists : \A k \in 1 .. MaxQueueSize :
           slots[l][k] \in Proc => slots'[l][k] \in Proc
  BY SysNextBase, NextInArray DEF SlotInv
<1>2. ASSUME UNCHANGED <<list, entry, stage, seen, caller>>, shifted' \in [CPU -> BOOLEAN]
      PROVE  SlotInv'
  <2>1. \A c \in CPU : AtSlot(c)'
    BY <1>1, <1>2 DEF SlotInv, AtSlot
  <2> QED
    BY <1>1, <1>2, <2>1 DEF SlotInv, WalkTypeOK
<1>3. ASSUME NEW c \in CPU, OtherStep(c) PROVE shifted' \in [CPU -> BOOLEAN]
  <2>1. \A d \in CPU : shifted[d] \in BOOLEAN
    BY DEF SlotInv, WalkTypeOK
  <2> QED
    BY <1>3, <2>1 DEF OtherStep, Watch
<1>4. CASE \E c \in CPU : OtherStep(c)
  BY <1>2, <1>3, <1>4 DEF OtherStep
<1>5. CASE UNCHANGED walkVars
  BY <1>2, <1>5 DEF walkVars, SlotInv, WalkTypeOK
<1>6. CASE \E c \in CPU : Memmapping(c)
  BY <1>1, <1>6, OwnSlot DEF SlotInv, WalkTypeOK
<1> QED
  BY <1>4, <1>5, <1>6 DEF SysNext, StoreOnly, sysVars

\* At first the arrays and the lists are empty, and no search is under way.
LEMMA InitSlotInv == SysInit => SlotInv
<1> SUFFICES ASSUME SysInit PROVE SlotInv
  OBVIOUS
<1>1. Running \in Nat /\ FirstEntry \in Nat \ {0}
  BY MlqAssumption DEF Running, FirstEntry
<1>2. WalkTypeOK
  BY <1>1 DEF SysInit, WalkTypeOK
<1>3. \A l \in Lists : Content(l) = << >>
  BY DEF SysInit, OsInit, SchedInit, Content, Lists
<1> QED
  BY <1>2, <1>3, SysInitBase DEF SysInit, SlotInv, InArray, AtSlot

\* The search reads only slots that hold a process, the stale ones behind a
\* list's size included: its test of proc[i] for NULL succeeds every time.
THEOREM AlwaysAtSlot == SysSpec => [](\A c \in CPU : AtSlot(c))
<1>1. SlotInv => \A c \in CPU : AtSlot(c)
  BY DEF SlotInv
<1> QED
  BY <1>1, InitSlotInv, NextSlotInv, PTL DEF SysSpec

-----------------------------------------------------------------------------
(* The search finds its caller. *)

\* The caller's own PCB is in running_list, at or behind the entry that the
\* search of c has come to, and what it has read is what is there.
Ahead(c) ==
  /\ list[c] = Running
  /\ \E k \in DOMAIN running_list : running_list[k] = proc[c] /\ entry[c] <= k
  /\ stage[c] = "pid" => seen[c] = running_list[entry[c]]
  /\ stage[c] = "caller" => running_list[entry[c]] = proc[c]

\* As long as no list has lost an entry, the search has found its caller or
\* will.
Track(c) ==
  /\ proc[c] # NoProc
  /\ caller[c] = proc[c] \/ (caller[c] = NoProc /\ Ahead(c))

OnTrack == \A c \in CPU : cpc[c] = "memmap" /\ ~shifted[c] => Track(c)

WalkInv == SlotInv /\ AllListed /\ OnTrack

\* The steps of the search alone.
LEMMA SearchOnTrack ==
  ASSUME WalkInv, NEW c \in CPU, SearchStep(c), cpc'[c] = "memmap", ~shifted'[c]
  PROVE  Track(c)'
<1> USE DEF WalkInv, SlotInv, WalkTypeOK
<1>1. /\ cpc' = cpc /\ proc' = proc /\ running_list' = running_list
      /\ shifted' = shifted /\ caller[c] = NoProc
  BY DEF SearchStep, TestSize, ReadEntry, ReadPid, TakeCaller, NextList, Searching,
     osVars, schedVars, threadVars
<1>2. proc[c] # NoProc /\ Ahead(c)
  BY <1>1 DEF OnTrack, Track
<1>3. PICK k \in DOMAIN running_list : running_list[k] = proc[c] /\ entry[c] <= k
  BY <1>2 DEF Ahead
<1>4. /\ running_list \in Seq(Proc) /\ Len(running_list) \in Nat
      /\ DOMAIN running_list = 1 .. Len(running_list)
  BY LenProperties DEF BaseInv, PlaceInv, DispatchInv, TypeInv, SchedTypeOK
<1>5. list[c] = Running /\ entry[c] \in Nat \ {0}
  BY <1>2 DEF Ahead
<1>6. entry[c] \in DOMAIN running_list
  BY <1>3, <1>4, <1>5
<1>7. slots[list[c]][entry[c]] = running_list[entry[c]]
  BY <1>5, <1>6 DEF InArray, Content, Lists
<1>8. CASE TestSize(c)
  BY <1>1, <1>2, <1>3, <1>5, <1>8 DEF TestSize, NextStage, Ahead, Track, Running
<1>9. CASE ReadEntry(c)
  <2>1. /\ seen' = [seen EXCEPT ![c] = slots[list[c]][entry[c]]]
        /\ stage' = [stage EXCEPT ![c] = "pid"] /\ UNCHANGED <<list, entry, caller>>
    BY <1>9 DEF ReadEntry, NextStage
  <2>2. seen'[c] = running_list'[entry'[c]] /\ stage'[c] = "pid"
    BY <1>1, <1>7, <2>1
  <2> QED
    BY <1>1, <1>2, <1>3, <1>5, <2>1, <2>2 DEF Ahead, Track, Running
<1>10. CASE ReadPid(c)
  <2>1. seen[c] = running_list[entry[c]]
    BY <1>2, <1>10 DEF ReadPid, Ahead
  <2>2. seen[c] \notin finished
    BY <1>4, <1>6, <2>1, ElementOfSeq
    DEF BaseInv, PlaceInv, ListInv, DispatchInv, NoDoubleDispatch, LiveOnly
  <2>3. UNCHANGED <<list, caller>>
    BY <1>10 DEF ReadPid
  <2>4. CASE seen[c] = proc[c] /\ stage' = [stage EXCEPT ![c] = "caller"] /\ entry' = entry
    BY <1>1, <1>2, <1>3, <1>5, <2>1, <2>3, <2>4 DEF Ahead, Track, Running
  <2>5. CASE /\ seen[c] # proc[c] /\ stage' = [stage EXCEPT ![c] = "size"]
             /\ entry' = [entry EXCEPT ![c] = @ + 1]
    <3>1. entry[c] # k
      BY <1>3, <2>1, <2>5
    <3>2. entry'[c] = entry[c] + 1 /\ entry'[c] <= k
      BY <1>3, <1>4, <1>5, <2>5, <3>1
    <3> QED
      BY <1>1, <1>2, <1>3, <1>5, <2>3, <2>5, <3>2 DEF Ahead, Track, Running
  <2> QED
    BY <1>10, <2>2, <2>4, <2>5 DEF ReadPid, NextStage
<1>11. CASE TakeCaller(c)
  <2>1. running_list[entry[c]] = proc[c]
    BY <1>2, <1>11 DEF TakeCaller, Ahead
  <2> QED
    BY <1>1, <1>2, <1>7, <1>11, <2>1 DEF TakeCaller, Track
<1>12. CASE NextList(c)
  <2>1. entry[c] > Len(running_list)
    BY <1>5, <1>12 DEF NextList, Content
  <2> QED
    BY <1>4, <1>6, <2>1
<1> QED
  BY <1>8, <1>9, <1>10, <1>11, <1>12 DEF SearchStep

\* The steps of the handler on its own CPU.
LEMMA OwnWalk ==
  ASSUME WalkInv, NEW c \in CPU, Memmapping(c), cpc'[c] = "memmap", ~shifted'[c]
  PROVE  Track(c)'
<1> USE DEF WalkInv, SlotInv, WalkTypeOK
<1>1. CASE Trap(c)
  <2>1. proc' = proc /\ running_list' = running_list /\ proc[c] # NoProc
    BY <1>1 DEF Trap, AtMemmap, Runs, RunInstruction, schedVars
  <2>2. PICK k \in DOMAIN running_list : running_list[k] = proc[c]
    BY <2>1 DEF AllListed
  <2>3. k \in Nat /\ 1 <= k
    BY <2>2, LenProperties DEF BaseInv, PlaceInv, DispatchInv, TypeInv, SchedTypeOK
  <2> QED
    BY <1>1, <2>1, <2>2, <2>3 DEF Trap, FirstEntry, Ahead, Track, Running
<1>2. CASE SysReturn(c)
  BY <1>2 DEF SysReturn, Goto, AfterRun, BaseInv, ThreadTypeOK
<1> QED
  BY <1>1, <1>2, SearchOnTrack DEF Memmapping

\* The handler of one CPU leaves the search of another alone.
LEMMA OthersSearch ==
  ASSUME SlotInv, NEW c \in CPU, Memmapping(c), NEW d \in CPU, d # c
  PROVE  /\ cpc'[d] = cpc[d] /\ shifted'[d] = shifted[d] /\ list'[d] = list[d]
         /\ entry'[d] = entry[d] /\ stage'[d] = stage[d] /\ seen'[d] = seen[d]
         /\ caller'[d] = caller[d] /\ proc' = proc
         /\ mlq_ready_queue' = mlq_ready_queue /\ running_list' = running_list
<1> USE DEF SlotInv, BaseInv, ThreadTypeOK, WalkTypeOK
<1>1. CASE Trap(c)
  BY <1>1 DEF Trap, RunInstruction, Goto, schedVars
<1>2. CASE SearchStep(c)
  BY <1>2 DEF SearchStep, TestSize, ReadEntry, ReadPid, TakeCaller, NextList, NextStage,
     osVars, schedVars, threadVars
<1>3. CASE SysReturn(c)
  BY <1>3 DEF SysReturn, Goto, walkVars, schedVars
<1> QED
  BY <1>1, <1>2, <1>3 DEF Memmapping

\* A step of another CPU that lets the search of d go on has taken nothing out of
\* any list.
LEMMA OtherStepSearch ==
  ASSUME SlotInv, [SysNext]_sysVars, NEW c \in CPU, OtherStep(c),
         NEW d \in CPU, cpc'[d] = "memmap", ~shifted'[d]
  PROVE  /\ cpc'[d] = cpc[d] /\ proc'[d] = proc[d] /\ ~shifted[d]
         /\ UNCHANGED <<list, entry, stage, seen, caller>>
         /\ \A l \in Lists : \A k \in DOMAIN Content(l) :
              k \in DOMAIN Content(l)' /\ Content(l)'[k] = Content(l)[k]
<1> USE DEF SlotInv
<1>1. CpuStep(c) /\ Watch /\ UNCHANGED <<list, entry, stage, seen, caller>>
  BY DEF OtherStep
<1>2. c # d
  BY <1>1 DEF CpuStep, GetFirst, Retire, Preempt, GetNext, AfterGetNext, Stop, SkipSlot,
       Execute, RunInstruction, Runs, AfterRun, EndSlot, At, Goto, BaseInv, ThreadTypeOK
<1>3. cpc'[d] = cpc[d] /\ proc'[d] = proc[d]
  BY <1>1, <1>2, OthersKeep
<1>4. ~shifted[d] /\ \A l \in Lists : ~Shrinks(l)
  BY <1>1, <1>3 DEF Watch
<1> QED
  BY <1>1, <1>3, <1>4, StepCalls, ContentInPlace DEF BaseInv

\* A list that loses no entry keeps the caller's ahead of the search.
LEMMA NextOnTrack ==
  ASSUME WalkInv, [SysNext]_sysVars PROVE OnTrack'
<1> USE DEF WalkInv
<1> SUFFICES ASSUME NEW d \in CPU, cpc'[d] = "memmap", ~shifted'[d]
             PROVE  Track(d)'
  BY DEF OnTrack
<1>1. ASSUME cpc[d] = "memmap", ~shifted[d], proc'[d] = proc[d],
             list'[d] = list[d], entry'[d] = entry[d], stage'[d] = stage[d],
             seen'[d] = seen[d], caller'[d] = caller[d],
             \A k \in DOMAIN running_list :
               k \in DOMAIN running_list' /\ running_list'[k] = running_list[k]
      PROVE  Track(d)'
  <2>1. Track(d)
    BY <1>1 DEF OnTrack
  <2>2. CASE caller[d] = proc[d]
    BY <1>1, <2>1, <2>2 DEF Track
  <2>3. CASE caller[d] = NoProc /\ Ahead(d)
    <3>1. PICK k \in DOMAIN running_list : running_list[k] = proc[d] /\ entry[d] <= k
      BY <2>3 DEF Ahead
    <3>2. entry[d] \in DOMAIN running_list
      <4>1. running_list \in Seq(Proc) /\ entry[d] \in Nat \ {0}
        BY DEF SlotInv, WalkTypeOK, BaseInv, PlaceInv, DispatchInv, TypeInv, SchedTypeOK
      <4> QED
        BY <3>1, <4>1, LenProperties
    <3>3. running_list'[entry[d]] = running_list[entry[d]]
      BY <1>1, <3>2
    <3>4. k \in DOMAIN running_list' /\ running_list'[k] = proc[d]
      BY <1>1, <3>1
    <3> QED
      BY <1>1, <2>1, <2>3, <3>1, <3>3, <3>4 DEF Ahead, Track, Running
  <2> QED
    BY <2>1, <2>2, <2>3 DEF Track
<1>2. ASSUME NEW c \in CPU, Memmapping(c) PROVE Track(d)'
  <2>1. CASE c = d
    BY <1>2, <2>1, OwnWalk
  <2>2. CASE c # d
    BY <1>1, <1>2, <2>2, OthersSearch
  <2> QED
    BY <2>1, <2>2
<1>3. ASSUME NEW c \in CPU, OtherStep(c) PROVE Track(d)'
  <2>1. /\ cpc[d] = "memmap" /\ ~shifted[d] /\ proc'[d] = proc[d]
        /\ UNCHANGED <<list, entry, stage, seen, caller>>
        /\ \A l \in Lists : \A k \in DOMAIN Content(l) :
             k \in DOMAIN Content(l)' /\ Content(l)'[k] = Content(l)[k]
    BY <1>3, OtherStepSearch
  <2>2. \A k \in DOMAIN running_list :
          k \in DOMAIN running_list' /\ running_list'[k] = running_list[k]
    BY <2>1 DEF Content, Lists
  <2> QED
    BY <1>1, <2>1, <2>2
<1>4. ASSUME LoaderStep \/ NewSlot \/ LastTick \/ UNCHANGED osVars, UNCHANGED walkVars
      PROVE  Track(d)'
  <2>1. running_list' = running_list
    BY <1>4 DEF LoaderStep, LoaderWait, LoaderAdd, LoaderSlot, LoaderDone, LoaderExit,
         AddProc, NewSlot, LastTick, osVars, schedVars
  <2>2. cpc' = cpc /\ proc' = proc
    BY <1>4, LoaderKeeps
  <2> QED
    BY <1>1, <1>4, <2>1, <2>2 DEF walkVars
<1> QED
  BY <1>2, <1>3, <1>4 DEF SysNext, StoreOnly, sysVars

\* No search is under way at first.
LEMMA InitWalk == SysInit => WalkInv
BY InitSlotInv DEF SysInit, OsInit, SchedInit, AllListed, OnTrack, WalkInv

\* The system call fails to find the process it runs for, or takes another for
\* it, only if a list lost an entry while it was searched, for any number of CPUs
\* up to MAX_QUEUE_SIZE.
THEOREM AlwaysMissedOnlyByShift == FitsCPUs => (SysSpec => MissedOnlyByShift)
<1> SUFFICES ASSUME FitsCPUs PROVE SysSpec => MissedOnlyByShift
  OBVIOUS
<1> DEFINE A == \A c \in CPU :
     cpc[c] = "memmap" /\ cpc'[c] # "memmap" /\ caller[c] # proc[c] => shifted[c]
<1>1. WalkInv /\ [SysNext]_sysVars => WalkInv'
  <2> SUFFICES ASSUME WalkInv, [SysNext]_sysVars PROVE WalkInv'
    OBVIOUS
  <2>1. SlotInv'
    BY NextSlotInv DEF WalkInv
  <2>2. AllListed'
    BY StepCalls, NextAllListed DEF WalkInv, SlotInv, BaseInv
  <2> QED
    BY <2>1, <2>2, NextOnTrack DEF WalkInv
<1>2. ASSUME WalkInv, [SysNext]_sysVars PROVE [A]_sysVars
  <2> SUFFICES ASSUME NEW d \in CPU, cpc[d] = "memmap", cpc'[d] # "memmap",
                      caller[d] # proc[d], ~shifted[d]
               PROVE  FALSE
    BY <1>2 DEF WalkInv, SlotInv, WalkTypeOK
  <2>1. caller[d] = NoProc /\ list[d] = Running
    BY <1>2 DEF WalkInv, OnTrack, Track, Ahead
  <2>2. PICK c \in CPU : OtherStep(c) \/ Memmapping(c)
    BY <1>2, LoaderKeeps DEF SysNext, sysVars, osVars, threadVars
  <2>3. c = d
    BY <1>2, <2>2, OthersKeep, OthersSearch DEF WalkInv, SlotInv, OtherStep
  <2>4. ~OtherStep(d) /\ ~Trap(d)
    BY DEF OtherStep, CpuStep, GetFirst, Retire, Preempt, GetNext, Stop, SkipSlot,
        Execute, RunInstruction, Runs, EndSlot, At, Trap, AtMemmap
  <2>5. ~SearchStep(d)
    BY DEF SearchStep, TestSize, ReadEntry, ReadPid, TakeCaller, NextList, osVars, threadVars
  <2>6. ~SysReturn(d)
    BY <2>1 DEF SysReturn, Searching, Lists
  <2> QED
    BY <2>2, <2>3, <2>4, <2>5, <2>6 DEF Memmapping
<1> QED
  BY <1>1, <1>2, InitWalk, PTL DEF SysSpec, MissedOnlyByShift

-----------------------------------------------------------------------------
(* The PCBs the search reads. *)

\* The entry a search is at is still there, and so is what it has read and not
\* yet looked into, unless a list lost an entry meanwhile.
InPlace(c) ==
  /\ list[c] \in Lists
  /\ entry[c] \in DOMAIN Content(list[c])
  /\ stage[c] = "pid" => seen[c] = Content(list[c])[entry[c]]

ReadsInPlace ==
  \A c \in CPU : cpc[c] = "memmap" /\ ~shifted[c] /\ stage[c] # "size" => InPlace(c)

ReadInv == SlotInv /\ ReadsInPlace

\* A PCB is freed between the read of an entry and the read of the pid in it
\* only if a list lost an entry in between.
FreedReadOnlyByShift ==
  \A c \in CPU : cpc[c] = "memmap" /\ seen[c] \in finished => shifted[c]

\* add_proc takes nothing out of a list.
LEMMA AddProcInPlace ==
  ASSUME PlaceInv, NEW x \in Proc, AddProc(x), NEW l \in Lists
  PROVE  \A k \in DOMAIN Content(l) : k \in DOMAIN Content(l)' /\ Content(l)'[k] = Content(l)[k]
<1>1. Content(l) \in Seq(Proc)
  BY ContentType
<1>2. Content(l)' \in {Content(l), Enqueue(Content(l), x)}
  BY DEF AddProc, Content, Lists, PlaceInv, DispatchInv, TypeInv, SchedTypeOK
<1> QED
  BY <1>1, <1>2, EnqueueInPlace

\* A step of a search finds the entry it reads in its place.
LEMMA OwnRead ==
  ASSUME ReadInv, NEW c \in CPU, Memmapping(c),
         cpc'[c] = "memmap", ~shifted'[c], stage'[c] # "size"
  PROVE  InPlace(c)'
<1> USE DEF ReadInv, SlotInv, WalkTypeOK
<1>1. CASE SearchStep(c)
  <2>1. /\ list[c] \in Lists /\ cpc' = cpc /\ shifted' = shifted
        /\ running_list' = running_list /\ mlq_ready_queue' = mlq_ready_queue
    BY <1>1 DEF SearchStep, TestSize, ReadEntry, ReadPid, TakeCaller, NextList, Searching,
       osVars, schedVars, threadVars
  <2>2. CASE TestSize(c)
    <3>1. list' = list /\ entry' = entry /\ stage'[c] = "entry"
          /\ entry[c] <= Len(Content(list[c])) /\ entry[c] \in Nat \ {0}
      BY <2>2 DEF TestSize, NextStage
    <3>2. entry[c] \in DOMAIN Content(list[c])
      BY <2>1, <3>1, ContentType DEF BaseInv
    <3> QED
      BY <2>1, <3>1, <3>2 DEF InPlace, Content, Lists, Levels, Running
  <2>3. CASE ReadEntry(c)
    <3>1. /\ list' = list /\ entry' = entry /\ stage[c] = "entry"
          /\ seen'[c] = slots[list[c]][entry[c]]
      BY <2>3 DEF ReadEntry
    <3>2. InPlace(c)
      BY <2>1, <3>1 DEF ReadsInPlace
    <3>3. entry[c] \in DOMAIN Content(list[c])
          /\ slots[list[c]][entry[c]] = Content(list[c])[entry[c]]
      BY <2>1, <3>2 DEF InPlace, InArray
    <3> QED
      BY <2>1, <3>1, <3>3 DEF InPlace, Content, Lists, Levels, Running
  <2>4. CASE ReadPid(c)
    <3>1. list' = list /\ stage[c] = "pid" /\ stage'[c] = "caller" /\ entry' = entry
      BY <2>4 DEF ReadPid, NextStage
    <3>2. InPlace(c)
      BY <2>1, <3>1 DEF ReadsInPlace
    <3> QED
      BY <2>1, <3>1, <3>2 DEF InPlace, Content, Lists, Levels, Running
  <2>5. CASE TakeCaller(c) \/ NextList(c)
    BY <2>5 DEF TakeCaller, NextList, NextStage
  <2> QED
    BY <1>1, <2>2, <2>3, <2>4, <2>5 DEF SearchStep
<1>2. CASE Trap(c)
  BY <1>2 DEF Trap
<1>3. CASE SysReturn(c)
  BY <1>3 DEF SysReturn, Goto, AfterRun, BaseInv, ThreadTypeOK
<1> QED
  BY <1>1, <1>2, <1>3 DEF Memmapping

\* Steps of other threads leave it there unless they take an entry out.
LEMMA NextReadsInPlace ==
  ASSUME ReadInv, [SysNext]_sysVars PROVE ReadsInPlace'
<1> USE DEF ReadInv
<1> SUFFICES ASSUME NEW d \in CPU, cpc'[d] = "memmap", ~shifted'[d], stage'[d] # "size"
             PROVE  InPlace(d)'
  BY DEF ReadsInPlace
<1>1. ASSUME cpc[d] = "memmap", ~shifted[d], list'[d] = list[d], entry'[d] = entry[d],
             stage'[d] = stage[d], seen'[d] = seen[d],
             \A l \in Lists : \A k \in DOMAIN Content(l) :
               k \in DOMAIN Content(l)' /\ Content(l)'[k] = Content(l)[k]
      PROVE  InPlace(d)'
  <2>1. InPlace(d)
    BY <1>1 DEF ReadsInPlace
  <2>2. PICK l \in Lists : l = list[d]
    BY <2>1 DEF InPlace
  <2>3. /\ entry[d] \in DOMAIN Content(l)'
        /\ stage[d] = "pid" => seen[d] = Content(l)'[entry[d]]
    BY <1>1, <2>1, <2>2 DEF InPlace
  <2>4. Content(list[d])' = Content(l)'
    BY <1>1, <2>2 DEF Content
  <2> QED
    BY <1>1, <2>2, <2>3, <2>4 DEF InPlace, Lists, Levels, Running
<1>2. ASSUME UNCHANGED <<mlq_ready_queue, running_list>>, NEW l \in Lists
      PROVE  \A k \in DOMAIN Content(l) :
               k \in DOMAIN Content(l)' /\ Content(l)'[k] = Content(l)[k]
  BY <1>2 DEF Content
<1>3. ASSUME NEW c \in CPU, Memmapping(c) PROVE InPlace(d)'
  <2>1. CASE c = d
    BY <1>3, <2>1, OwnRead
  <2>2. CASE c # d
    BY <1>1, <1>2, <1>3, <2>2, OthersSearch
  <2> QED
    BY <2>1, <2>2
<1>4. ASSUME NEW c \in CPU, OtherStep(c) PROVE InPlace(d)'
  BY <1>1, <1>4, OtherStepSearch
<1>5. ASSUME LoaderStep \/ NewSlot \/ LastTick \/ UNCHANGED osVars, UNCHANGED walkVars
      PROVE  InPlace(d)'
  <2>1. cpc' = cpc
    BY <1>5, LoaderKeeps
  <2>2. CASE LoaderAdd
    <3>1. i \in 1 .. Len(Script)
      BY <2>2 DEF LoaderAdd, SlotInv, BaseInv, ThreadTypeOK
    <3>2. PICK x \in Proc : AddProc(x)
      BY <2>2, <3>1, ThreadFacts DEF LoaderAdd, SlotInv, BaseInv, PlaceInv, DispatchInv
    <3>3. \A l \in Lists : \A k \in DOMAIN Content(l) :
            k \in DOMAIN Content(l)' /\ Content(l)'[k] = Content(l)[k]
      BY <3>2, AddProcInPlace DEF SlotInv, BaseInv
    <3> QED
      BY <1>1, <1>5, <2>1, <3>3 DEF walkVars
  <2>3. CASE UNCHANGED schedVars
    BY <1>1, <1>2, <1>5, <2>1, <2>3 DEF walkVars, schedVars
  <2> QED
    BY <1>5, <2>2, <2>3 DEF LoaderStep, LoaderWait, LoaderSlot, LoaderDone, LoaderExit,
       NewSlot, LastTick, osVars
<1> QED
  BY <1>3, <1>4, <1>5 DEF SysNext, StoreOnly, sysVars

\* At first no search has read anything.
LEMMA InitReadInv == SysInit => ReadInv
BY InitSlotInv DEF SysInit, ReadInv, ReadsInPlace

\* The search of memmap looks into a PCB that was freed only if a list lost an
\* entry between the read of the pointer and the read of the pid: no entry that
\* stays where it was read is ever freed, with any number of CPUs.
THEOREM AlwaysFreedReadOnlyByShift == SysSpec => []FreedReadOnlyByShift
<1>1. ReadInv /\ [SysNext]_sysVars => ReadInv'
  BY NextSlotInv, NextReadsInPlace DEF ReadInv
<1>2. ReadInv => FreedReadOnlyByShift
  <2> SUFFICES ASSUME ReadInv, NEW c \in CPU, cpc[c] = "memmap", seen[c] \in finished,
                      ~shifted[c]
               PROVE  FALSE
    BY DEF FreedReadOnlyByShift, ReadInv, SlotInv, WalkTypeOK
  <2> USE DEF ReadInv, SlotInv, BaseInv, PlaceInv, DispatchInv, TypeInv
  <2>1. finished \subseteq Proc
    BY DEF SchedTypeOK
  <2>2. seen[c] # NoProc
    BY <2>1, MlqAssumption
  <2>3. InPlace(c) /\ stage[c] = "pid"
    BY <2>2 DEF ReadsInPlace, AtSlot
  <2>4. ~Queued(seen[c]) /\ ~Held(seen[c])
    BY <2>1 DEF NoDoubleDispatch, LiveOnly
  <2>5. CASE list[c] = Running
    BY <2>3, <2>4, <2>5 DEF InPlace, Content, ListInv
  <2>6. CASE list[c] \in Levels
    <3>1. list[c] # Running
      BY <2>6, MlqAssumption DEF Levels, Running
    <3> QED
      BY <2>3, <2>4, <2>6, <3>1 DEF InPlace, Content, Queued
  <2> QED
    BY <2>3, <2>5, <2>6 DEF InPlace, Lists
<1> QED
  BY <1>1, <1>2, InitReadInv, PTL DEF SysSpec
=============================================================================
