----------------------------- MODULE Timer_proofs -----------------------------
(***************************************************************************)
(* Proofs about the timer, for any number of attached threads: it is a       *)
(* barrier.  (That the next slot comes is left to TLC.)                     *)
(***************************************************************************)
EXTENDS Timer, TLAPS

\* Where a thread stands, and its two flags.
Flags ==
  \A d \in Device :
    /\ dpc[d] = "gone" <=> fsh[d]
    /\ dpc[d] \in {"work", "gone"} => ~done[d]

Arrived(d) == done[d] \/ fsh[d]

\* What the timer knows: the devices it has passed in this turn have arrived,
\* and so have, once it ticks, those it has not released yet.
Seen ==
  /\ tpc = "wait" => \A d \in Device : d < temp => Arrived(d)
  /\ tpc = "tick" => temp = 1 /\ \A d \in Device : Arrived(d)
  /\ tpc = "release" => \A d \in Device : temp <= d => Arrived(d)

\* The count of a turn is that of devices that have left for good.
Counted ==
  /\ tpc = "wait" => /\ fsh_count <= temp - 1
                     /\ fsh_count = temp - 1 => \A d \in Device : d < temp => fsh[d]
  /\ tpc \in {"tick", "release"} /\ fsh_count = NumDev => \A d \in Device : fsh[d]
  /\ timer_stop \/ tpc = "exit" => \A d \in Device : fsh[d]

TimerInv == TimerTypeOK /\ Flags /\ Seen /\ Counted

\* The order in which the timer passes the devices.
LEMMA DeviceFacts ==
  /\ 1 \in Device /\ NumDev \in Nat
  /\ \A d \in Device : d \in Nat /\ 1 <= d /\ d <= NumDev /\ ~(d < 1)
  /\ \A d \in Device : d < NumDev => d + 1 \in Device
  /\ \A d, e \in Device : d < e + 1 => d < e \/ d = e
  /\ \A d, e \in Device : e + 1 <= d => e <= d /\ e # d
  /\ \A d, e \in Device : ~(e < NumDev) => e = NumDev /\ (d < e \/ d = e)
BY TimerAssumption DEF Device

\* At first every device works and the timer is at the top of its loop.
LEMMA TimerInitInv == Init => TimerInv
<1> SUFFICES ASSUME Init PROVE TimerInv
  OBVIOUS
<1>1. TimerTypeOK
  <2>1. 0 \in 0 .. NumDev /\ 0 \in Nat /\ 1 \in Device
    BY DeviceFacts
  <2>2. done \in [Device -> BOOLEAN] /\ fsh \in [Device -> BOOLEAN] /\ timer_stop \in BOOLEAN
    BY DEF Init
  <2>3. dpc \in [Device -> {"work", "block", "asleep", "gone"}]
    BY DEF Init
  <2> QED
    BY <2>1, <2>2, <2>3 DEF Init, TimerTypeOK
<1>2. Flags /\ Seen /\ Counted
  BY DEF Init, Flags, Seen, Counted
<1> QED
  BY <1>1, <1>2 DEF TimerInv

-----------------------------------------------------------------------------
(* The timer thread. *)

\* The timer starts a round, or exits, with nothing counted.
LEMMA LoopTopInv == ASSUME TimerInv, LoopTop PROVE TimerInv'
<1>1. TimerTypeOK'
  BY DeviceFacts, TimerAssumption DEF TimerInv, TimerTypeOK, LoopTop
<1>2. Flags'
  BY DEF TimerInv, Flags, LoopTop
<1>3. Seen' /\ Counted'
  BY DeviceFacts DEF TimerInv, Seen, Counted, LoopTop
<1> QED
  BY <1>1, <1>2, <1>3 DEF TimerInv

\* Waiting for a device changes no flag.
LEMMA WaitForDeviceInv == ASSUME TimerInv, WaitForDevice PROVE TimerInv'
<1>1. /\ UNCHANGED <<done, fsh, _time, timer_stop, tpc, temp, fsh_count, dpc>>
      /\ tAsleep' = TRUE
  BY DEF WaitForDevice, timerThread
<1> QED
  BY <1>1 DEF TimerInv, TimerTypeOK, Flags, Seen, Arrived, Counted

\* The timer passes a device that is done or gone.
LEMMA SeeDeviceInv == ASSUME TimerInv, SeeDevice PROVE TimerInv'
<1>1. /\ tpc = "wait" /\ Arrived(temp)
      /\ fsh_count' = IF fsh[temp] THEN fsh_count + 1 ELSE fsh_count
      /\ IF temp < NumDev THEN temp' = temp + 1 /\ tpc' = tpc
                          ELSE temp' = 1 /\ tpc' = "tick"
      /\ UNCHANGED <<done, fsh, _time, timer_stop, tAsleep, dpc>>
  BY DEF SeeDevice, Advance, Arrived
<1>2. /\ temp \in Device /\ temp \in Nat /\ fsh_count \in Nat /\ NumDev \in Nat
      /\ temp <= NumDev /\ fsh_count <= temp - 1
  BY <1>1, DeviceFacts DEF TimerInv, TimerTypeOK, Counted
<1>3. fsh_count' \in Nat /\ fsh_count' <= temp /\ fsh_count' \in 0 .. NumDev
  BY <1>1, <1>2 DEF TimerInv, TimerTypeOK
<1>4. fsh_count' = temp => fsh_count = temp - 1 /\ fsh[temp]
  BY <1>1, <1>2
<1>5. \A d \in Device : d < temp => Arrived(d)
  BY <1>1 DEF TimerInv, Seen
<1>6. fsh_count' = temp => \A d \in Device : d < temp \/ d = temp => fsh[d]
  BY <1>1, <1>4 DEF TimerInv, Counted
<1>7. TimerTypeOK'
  BY <1>1, <1>2, <1>3, DeviceFacts DEF TimerInv, TimerTypeOK
<1>8. Flags'
  BY <1>1 DEF TimerInv, Flags
<1>9. CASE temp < NumDev
  <2>1. temp' = temp + 1 /\ tpc' = "wait" /\ temp' - 1 = temp
    BY <1>1, <1>2, <1>9
  <2>2. \A d \in Device : d < temp' => d < temp \/ d = temp
    BY <1>2, <2>1, DeviceFacts
  <2>3. Seen'
    BY <1>1, <1>5, <2>1, <2>2 DEF Seen, Arrived
  <2>4. Counted'
    BY <1>1, <1>3, <1>6, <2>1, <2>2 DEF TimerInv, Counted
  <2> QED
    BY <1>7, <1>8, <2>3, <2>4 DEF TimerInv
<1>10. CASE ~(temp < NumDev)
  <2>1. temp' = 1 /\ tpc' = "tick" /\ temp = NumDev
    BY <1>1, <1>2, <1>10
  <2>2. \A d \in Device : d < temp \/ d = temp
    BY <1>2, <1>10, DeviceFacts
  <2>3. Seen'
    BY <1>1, <1>5, <2>1, <2>2 DEF Seen, Arrived
  <2>4. Counted'
    BY <1>1, <1>6, <2>1, <2>2 DEF TimerInv, Counted
  <2> QED
    BY <1>7, <1>8, <2>3, <2>4 DEF TimerInv
<1> QED
  BY <1>9, <1>10

\* The time stays a number.
LEMMA LaterNat == ASSUME NEW t \in Nat PROVE Later(t) \in Nat
BY DEF Later

\* Time advances when every device has been passed.
LEMMA TickTimeInv == ASSUME TimerInv, TickTime PROVE TimerInv'
<1>1. TimerTypeOK'
  BY LaterNat DEF TimerInv, TimerTypeOK, TickTime
<1>2. Flags' /\ Seen' /\ Counted'
  BY DEF TimerInv, Flags, Seen, Arrived, Counted, TickTime
<1> QED
  BY <1>1, <1>2 DEF TimerInv

\* The timer clears done before it wakes a device.
LEMMA ReleaseDeviceInv == ASSUME TimerInv, ReleaseDevice PROVE TimerInv'
<1>1. /\ tpc = "release" /\ done' = [done EXCEPT ![temp] = FALSE]
      /\ dpc' = IF dpc[temp] = "asleep" THEN [dpc EXCEPT ![temp] = "block"] ELSE dpc
      /\ IF temp < NumDev THEN temp' = temp + 1 /\ tpc' = tpc
                          ELSE temp' = 1 /\ tpc' = IF fsh_count = NumDev THEN "exit" ELSE "top"
      /\ UNCHANGED <<fsh, _time, timer_stop, fsh_count, tAsleep>>
  BY DEF ReleaseDevice, Advance
<1>2. temp \in Device /\ temp \in Nat
  BY DeviceFacts DEF TimerInv, TimerTypeOK
<1>3. TimerTypeOK'
  <2>1. temp' \in Device /\ tpc' \in {"release", "exit", "top"}
    BY <1>1, <1>2, DeviceFacts
  <2>2. dpc' \in [Device -> {"work", "block", "asleep", "gone"}]
    BY <1>1 DEF TimerInv, TimerTypeOK
  <2> QED
    BY <1>1, <2>1, <2>2 DEF TimerInv, TimerTypeOK
<1>4. \A d \in Device : done'[d] = IF d = temp THEN FALSE ELSE done[d]
  BY <1>1, <1>2 DEF TimerInv, TimerTypeOK
<1>5. \A d \in Device : dpc'[d] = dpc[d] \/ (dpc[d] = "asleep" /\ dpc'[d] = "block")
  BY <1>1, <1>2 DEF TimerInv, TimerTypeOK
<1>6. Flags'
  BY <1>1, <1>4, <1>5 DEF TimerInv, Flags
<1>7. Seen'
  <2>1. ASSUME tpc' = "release", NEW d \in Device, temp' <= d PROVE Arrived(d)'
    <3>1. temp' = temp + 1
      BY <1>1, <2>1
    <3>2. temp <= d /\ temp # d
      BY <1>2, <2>1, <3>1, DeviceFacts
    <3>3. Arrived(d)
      BY <1>1, <3>2 DEF TimerInv, Seen
    <3> QED
      BY <1>1, <1>4, <3>2, <3>3 DEF Arrived
  <2> QED
    BY <1>1, <2>1 DEF Seen
<1>8. Counted'
  BY <1>1 DEF TimerInv, Counted
<1> QED
  BY <1>3, <1>6, <1>7, <1>8 DEF TimerInv

-----------------------------------------------------------------------------
(* A device thread. *)

\* A step of device d that sets a flag of its own, if it sets one at all.
LEMMA DeviceStepInv ==
  ASSUME TimerInv, NEW d \in Device, NEW new \in {"work", "block", "asleep", "gone"},
         dpc' = [dpc EXCEPT ![d] = new], dpc[d] # "gone",
         UNCHANGED <<_time, timer_stop, tpc, temp, fsh_count>>,
         tAsleep' \in BOOLEAN,
         done' \in [Device -> BOOLEAN], fsh' \in [Device -> BOOLEAN],
         \A e \in Device : e # d => done'[e] = done[e] /\ fsh'[e] = fsh[e],
         new = "gone" <=> fsh'[d],
         new \in {"work", "gone"} => ~done'[d],
         done[d] => done'[d]
  PROVE  TimerInv'
<1>1. ~fsh[d]
  BY DEF TimerInv, Flags
<1>2. \A e \in Device : dpc'[e] = IF e = d THEN new ELSE dpc[e]
  BY DEF TimerInv, TimerTypeOK
<1>3. \A e \in Device : (fsh[e] => fsh'[e]) /\ (Arrived(e) => done'[e] \/ fsh'[e])
  BY <1>1 DEF Arrived
<1>4. TimerTypeOK'
  BY DEF TimerInv, TimerTypeOK
<1>5. Flags'
  BY <1>2 DEF TimerInv, Flags
<1>6. Seen'
  BY <1>3 DEF TimerInv, Seen, Arrived
<1>7. Counted'
  BY <1>3 DEF TimerInv, Counted
<1> QED
  BY <1>4, <1>5, <1>6, <1>7 DEF TimerInv

\* A device sets done when it ends its work in a slot.
LEMMA SlotDoneInv == ASSUME TimerInv, NEW d \in Device, SlotDone(d) PROVE TimerInv'
<1>1. /\ dpc[d] = "work" /\ ~fsh[d]
      /\ done \in [Device -> BOOLEAN] /\ fsh \in [Device -> BOOLEAN] /\ tAsleep \in BOOLEAN
  BY DEF TimerInv, TimerTypeOK, Flags, SlotDone
<1>2. /\ done' = [done EXCEPT ![d] = TRUE] /\ dpc' = [dpc EXCEPT ![d] = "block"]
      /\ fsh' = fsh /\ tAsleep' \in BOOLEAN
      /\ UNCHANGED <<_time, timer_stop, tpc, temp, fsh_count>>
  BY <1>1 DEF SlotDone, Signal, timerThread
<1> QED
  BY <1>1, <1>2, DeviceStepInv

\* A device waits only while its done is set.
LEMMA BlockInv == ASSUME TimerInv, NEW d \in Device, Block(d) PROVE TimerInv'
<1>1. /\ dpc[d] = "block" /\ ~fsh[d]
      /\ done \in [Device -> BOOLEAN] /\ fsh \in [Device -> BOOLEAN] /\ tAsleep \in BOOLEAN
  BY DEF TimerInv, TimerTypeOK, Flags, Block
<1>2. /\ dpc' = [dpc EXCEPT ![d] = IF done[d] THEN "asleep" ELSE "work"]
      /\ UNCHANGED <<done, fsh, tAsleep, _time, timer_stop, tpc, temp, fsh_count>>
  BY DEF Block, timerThread
<1> QED
  BY <1>1, <1>2, DeviceStepInv

\* A device that detaches sets fsh and does not come back.
LEMMA DetachInv == ASSUME TimerInv, NEW d \in Device, Detach(d) PROVE TimerInv'
<1>1. /\ dpc[d] = "work" /\ ~fsh[d] /\ ~done[d]
      /\ done \in [Device -> BOOLEAN] /\ fsh \in [Device -> BOOLEAN] /\ tAsleep \in BOOLEAN
  BY DEF TimerInv, TimerTypeOK, Flags, Detach
<1>2. /\ fsh' = [fsh EXCEPT ![d] = TRUE] /\ dpc' = [dpc EXCEPT ![d] = "gone"]
      /\ done' = done /\ tAsleep' \in BOOLEAN
      /\ UNCHANGED <<_time, timer_stop, tpc, temp, fsh_count>>
  BY <1>1 DEF Detach, Signal, timerThread
<1> QED
  BY <1>1, <1>2, DeviceStepInv

\* A spurious wakeup brings a waiter back to its test.
LEMMA SpuriousWakeupInv == ASSUME TimerInv, SpuriousWakeup PROVE TimerInv'
<1>1. CASE /\ tAsleep /\ tAsleep' = FALSE
           /\ UNCHANGED <<done, fsh, _time, timer_stop, timerThread, dpc>>
  BY <1>1 DEF TimerInv, TimerTypeOK, Flags, Seen, Arrived, Counted, timerThread
<1>2. CASE \E d \in Device :
             /\ dpc[d] = "asleep"
             /\ dpc' = [dpc EXCEPT ![d] = "block"]
             /\ UNCHANGED <<done, fsh, _time, timer_stop, timerThread, tAsleep>>
  <2>1. PICK d \in Device :
          /\ dpc[d] = "asleep" /\ dpc' = [dpc EXCEPT ![d] = "block"]
          /\ UNCHANGED <<done, fsh, tAsleep, _time, timer_stop, tpc, temp, fsh_count>>
    BY <1>2 DEF timerThread
  <2>2. /\ ~fsh[d] /\ tAsleep \in BOOLEAN
        /\ done \in [Device -> BOOLEAN] /\ fsh \in [Device -> BOOLEAN]
    BY <2>1 DEF TimerInv, TimerTypeOK, Flags
  <2> QED
    BY <2>1, <2>2, DeviceStepInv
<1> QED
  BY <1>1, <1>2 DEF SpuriousWakeup

\* main stops the timer when every device is gone.
LEMMA StopTimerInv == ASSUME TimerInv, StopTimer PROVE TimerInv'
<1>1. \A d \in Device : fsh[d]
  BY DEF TimerInv, Flags, StopTimer
<1> QED
  BY <1>1 DEF StopTimer, TimerInv, TimerTypeOK, Flags, Seen, Arrived, Counted, timerThread

\* The invariant of the handshake is kept by every step.
LEMMA TimerNextInv == TimerInv /\ [Next]_vars => TimerInv'
<1> SUFFICES ASSUME TimerInv, [Next]_vars PROVE TimerInv'
  OBVIOUS
<1>1. CASE TimerThread
  BY <1>1, LoopTopInv, WaitForDeviceInv, SeeDeviceInv, TickTimeInv, ReleaseDeviceInv
     DEF TimerThread
<1>2. CASE \E d \in Device : SlotDone(d) \/ Block(d) \/ Detach(d)
  BY <1>2, SlotDoneInv, BlockInv, DetachInv
<1>3. CASE UNCHANGED vars
  BY <1>3 DEF TimerInv, TimerTypeOK, Flags, Seen, Arrived, Counted, vars
<1> QED
  BY <1>1, <1>2, <1>3, SpuriousWakeupInv, StopTimerInv DEF Next

\* The strengthening: what the timer has seen of the flags stays true until it
\* clears them itself.
THEOREM AlwaysTimerInv == TimerSafe => []TimerInv
BY TimerInitInv, TimerNextInv, PTL DEF TimerSafe

-----------------------------------------------------------------------------
(* The properties. *)

\* The count of devices that have left stays within their number, and the
\* cursor on the list.
THEOREM AlwaysTimerTypeOK == TimerSafe => []TimerTypeOK
<1>1. TimerInv => TimerTypeOK
  BY DEF TimerInv
<1> QED
  BY <1>1, AlwaysTimerInv, PTL

\* The timer thread does not end while a thread is still attached.
THEOREM AlwaysExitsLast == TimerSafe => []ExitsLast
<1>1. TimerInv => ExitsLast
  BY DEF TimerInv, Counted, Flags, ExitsLast
<1> QED
  BY <1>1, AlwaysTimerInv, PTL

-----------------------------------------------------------------------------
(* The timer implements the barrier. *)

Phases == [d \in Device |-> PhaseOf(d)]

\* A step that leaves the clock and all phases alone.
LEMMA PhasesStutter ==
  ASSUME _time' = _time, \A d \in Device : PhaseOf(d)' = PhaseOf(d)
  PROVE  UNCHANGED Clock!clockVars
BY DEF Clock!clockVars

\* A step that changes the phase of one device.
LEMMA PhasesExcept ==
  ASSUME NEW d \in Device, NEW new, PhaseOf(d)' = new,
         \A e \in Device : e # d => PhaseOf(e)' = PhaseOf(e)
  PROVE  Phases' = [Phases EXCEPT ![d] = new]
<1>1. Phases' = [e \in Device |-> IF e = d THEN new ELSE PhaseOf(e)]
  BY DEF Phases
<1> QED
  BY <1>1 DEF Phases

\* A thread that is at work has no flag set that the timer has not cleared yet.
LEMMA WorkingPhase ==
  ASSUME TimerInv, NEW d \in Device, dpc[d] = "work"
  PROVE  PhaseOf(d) = "working" /\ ~Unreleased(d)
<1>1. ~fsh[d] /\ ~done[d]
  BY DEF TimerInv, Flags
<1>2. ~Unreleased(d)
  BY <1>1 DEF TimerInv, Seen, Arrived, Unreleased
<1> QED
  BY <1>1, <1>2 DEF PhaseOf

\* A device that is done arrives at the barrier.
LEMMA SlotDoneArrives == ASSUME TimerInv, NEW d \in Device, SlotDone(d) PROVE Clock!Arrive(d)
<1>1. /\ dpc[d] = "work" /\ done' = [done EXCEPT ![d] = TRUE]
      /\ UNCHANGED <<fsh, _time, tpc, temp>>
  BY DEF SlotDone, timerThread
<1>2. ~fsh[d] /\ ~Unreleased(d) /\ PhaseOf(d) = "working"
  BY <1>1, WorkingPhase DEF TimerInv, Flags
<1>3. \A e \in Device : done'[e] = IF e = d THEN TRUE ELSE done[e]
  BY <1>1 DEF TimerInv, TimerTypeOK
<1>4. PhaseOf(d)' = "waiting" /\ \A e \in Device : e # d => PhaseOf(e)' = PhaseOf(e)
  BY <1>1, <1>2, <1>3 DEF PhaseOf, Unreleased
<1>5. Phases' = [Phases EXCEPT ![d] = "waiting"]
  BY <1>4, PhasesExcept
<1> QED
  BY <1>1, <1>2, <1>5 DEF Clock!Arrive, Phases

\* A device that detaches leaves the barrier.
LEMMA DetachLeaves == ASSUME TimerInv, NEW d \in Device, Detach(d) PROVE Clock!Leave(d)
<1>1. /\ dpc[d] = "work" /\ fsh' = [fsh EXCEPT ![d] = TRUE]
      /\ UNCHANGED <<done, _time, tpc, temp>>
  BY DEF Detach, timerThread
<1>2. PhaseOf(d) = "working"
  BY <1>1, WorkingPhase
<1>3. \A e \in Device : fsh'[e] = IF e = d THEN TRUE ELSE fsh[e]
  BY <1>1 DEF TimerInv, TimerTypeOK
<1>4. PhaseOf(d)' = "gone" /\ \A e \in Device : e # d => PhaseOf(e)' = PhaseOf(e)
  BY <1>1, <1>3 DEF PhaseOf, Unreleased
<1>5. Phases' = [Phases EXCEPT ![d] = "gone"]
  BY <1>4, PhasesExcept
<1> QED
  BY <1>1, <1>2, <1>5 DEF Clock!Leave, Phases

\* When the timer ticks every thread waits or has left, and all that wait are
\* working from then on, although their flags are cleared one by one.
LEMMA TickTimeTicks == ASSUME TimerInv, TickTime PROVE Clock!Tick \/ Clock!FinalTick
<1>1. /\ tpc = "tick" /\ tpc' = "release" /\ temp = 1 /\ _time' = Later(_time)
      /\ UNCHANGED <<done, fsh, temp>>
      /\ \A d \in Device : done[d] \/ fsh[d]
  BY DEF TickTime, TimerInv, Seen, Arrived
<1>2. \A d \in Device : PhaseOf(d) = IF fsh[d] THEN "gone" ELSE "waiting"
  BY <1>1 DEF PhaseOf, Unreleased
<1>3. \A d \in Device : PhaseOf(d)' = IF fsh[d] THEN "gone" ELSE "working"
  BY <1>1, DeviceFacts DEF PhaseOf, Unreleased
<1>4. _time' = Clock!Later(_time)
  BY <1>1 DEF Later, Clock!Later
<1>5. Phases' = [d \in Device |-> IF Phases[d] = "waiting" THEN "working" ELSE Phases[d]]
  BY <1>2, <1>3 DEF Phases
<1>6. CASE \E d \in Device : ~fsh[d]
  <2>1. /\ \A d \in Device : Phases[d] # "working"
        /\ \E d \in Device : Phases[d] = "waiting"
    BY <1>2, <1>6 DEF Phases
  <2> QED
    BY <1>4, <1>5, <2>1 DEF Clock!Tick, Clock!NobodyWorking, Phases
<1>7. CASE \A d \in Device : fsh[d]
  <2>1. \A d \in Device : Phases[d] = "gone"
    BY <1>2, <1>7 DEF Phases
  <2>2. Phases' = Phases
    BY <1>2, <1>3, <1>7 DEF Phases
  <2> QED
    BY <1>4, <2>1, <2>2 DEF Clock!FinalTick, Phases
<1> QED
  BY <1>6, <1>7

\* Letting a device go on shows nothing new: it has been working since the tick.
LEMMA ReleaseStutters == ASSUME TimerInv, ReleaseDevice PROVE UNCHANGED Clock!clockVars
<1>1. /\ tpc = "release" /\ done' = [done EXCEPT ![temp] = FALSE]
      /\ IF temp < NumDev THEN temp' = temp + 1 /\ tpc' = "release"
                          ELSE temp' = 1 /\ tpc' \in {"exit", "top"}
      /\ UNCHANGED <<fsh, _time>>
  BY DEF ReleaseDevice, Advance
<1>2. temp \in Device /\ \A d \in Device : done'[d] = IF d = temp THEN FALSE ELSE done[d]
  BY <1>1 DEF TimerInv, TimerTypeOK
<1>3. ASSUME NEW d \in Device, d # temp PROVE Unreleased(d)' <=> Unreleased(d)
  <2>1. CASE temp < NumDev
    <3>1. temp + 1 <= d <=> temp <= d
      BY <1>2, <1>3, TimerAssumption DEF Device
    <3> QED
      BY <1>1, <2>1, <3>1 DEF Unreleased
  <2>2. CASE ~(temp < NumDev)
    <3>1. ~(temp <= d)
      BY <1>2, <1>3, <2>2, TimerAssumption DEF Device
    <3> QED
      BY <1>1, <2>2, <3>1 DEF Unreleased
  <2> QED
    BY <2>1, <2>2
<1>4. Unreleased(temp)
  BY <1>1, <1>2, DeviceFacts DEF Unreleased
<1>5. \A d \in Device : PhaseOf(d)' = PhaseOf(d)
  BY <1>1, <1>2, <1>3, <1>4 DEF PhaseOf
<1> QED
  BY <1>1, <1>5, PhasesStutter

\* timer.c is a barrier: whatever wakeups are spurious and in whatever order
\* the flags are set, seen and cleared, no slot ends for a thread that is in the
\* middle of it, and all that wait are released for the same slot.
THEOREM TimerImplementsClock == TimerSafe => Clock!ClockSafe
<1>1. Init => Clock!ClockInit
  BY DEF Init, Clock!ClockInit, PhaseOf
<1>2. TimerInv /\ [Next]_vars => [Clock!ClockNext]_(Clock!clockVars)
  <2> SUFFICES ASSUME TimerInv, [Next]_vars PROVE [Clock!ClockNext]_(Clock!clockVars)
    OBVIOUS
  <2>1. CASE UNCHANGED <<done, fsh, _time, tpc, temp>>
    BY <2>1, PhasesStutter DEF PhaseOf, Unreleased
  <2>2. CASE LoopTop \/ SeeDevice
    <3>1. UNCHANGED <<done, fsh, _time>> /\ tpc # "release" /\ tpc' # "release"
      BY <2>2 DEF LoopTop, SeeDevice, Advance
    <3> QED
      BY <3>1, PhasesStutter DEF PhaseOf, Unreleased
  <2>3. CASE TickTime
    BY <2>3, TickTimeTicks DEF Clock!ClockNext
  <2>4. CASE ReleaseDevice
    BY <2>4, ReleaseStutters
  <2>5. CASE \E d \in Device : SlotDone(d) \/ Detach(d)
    BY <2>5, SlotDoneArrives, DetachLeaves DEF Clock!ClockNext
  <2>6. CASE \/ WaitForDevice \/ SpuriousWakeup \/ StopTimer
             \/ \E d \in Device : Block(d)
             \/ UNCHANGED vars
    BY <2>1, <2>6 DEF WaitForDevice, SpuriousWakeup, StopTimer, Block, timerThread, vars
  <2> QED
    BY <2>2, <2>3, <2>4, <2>5, <2>6 DEF Next, TimerThread
<1> QED
  BY <1>1, <1>2, AlwaysTimerInv, PTL DEF TimerSafe, Clock!ClockSafe

-----------------------------------------------------------------------------
(* No lost wakeup. *)

\* A thread that sleeps still has something to wait for: the timer sleeps only
\* on a device that has neither ended its slot nor left, and a device only as
\* long as the timer has not released it.  A signal that came before the sleep
\* would break this.
NoLostWakeup ==
  /\ tAsleep => tpc = "wait" /\ ~done[temp] /\ ~fsh[temp]
  /\ \A d \in Device : dpc[d] = "asleep" => done[d]

\* The timer never sleeps on a thread that sleeps itself or has left: with all
\* threads asleep the simulation would stand still.
NoStandstill == tAsleep => dpc[temp] \in {"work", "block"}

\* The timer thread looks at the flags and goes to sleep under the same lock.
LEMMA TimerThreadWakeup ==
  ASSUME TimerInv, NoLostWakeup, TimerThread PROVE NoLostWakeup'
<1>1. temp \in Device
  BY DEF TimerInv, TimerTypeOK
<1>2. CASE LoopTop
  BY <1>2 DEF LoopTop, NoLostWakeup
<1>3. CASE WaitForDevice
  BY <1>3 DEF WaitForDevice, NoLostWakeup, timerThread
<1>4. CASE SeeDevice
  BY <1>4 DEF SeeDevice, NoLostWakeup
<1>5. CASE TickTime
  BY <1>5 DEF TickTime, NoLostWakeup
<1>6. CASE ReleaseDevice
  <2>1. ~tAsleep /\ tAsleep' = tAsleep
    BY <1>6 DEF ReleaseDevice, NoLostWakeup
  <2>2. /\ done' = [done EXCEPT ![temp] = FALSE]
        /\ dpc' = IF dpc[temp] = "asleep" THEN [dpc EXCEPT ![temp] = "block"] ELSE dpc
    BY <1>6 DEF ReleaseDevice
  <2>3. dpc'[temp] # "asleep"
    BY <1>1, <2>2 DEF TimerInv, TimerTypeOK
  <2>4. \A d \in Device : d # temp => done'[d] = done[d] /\ dpc'[d] = dpc[d]
    BY <2>2 DEF TimerInv, TimerTypeOK
  <2> QED
    BY <2>1, <2>3, <2>4 DEF NoLostWakeup
<1> QED
  BY <1>2, <1>3, <1>4, <1>5, <1>6 DEF TimerThread

\* A device sets its flag and signals under the same lock, and goes to sleep
\* only with its flag set.
LEMMA DeviceWakeup ==
  ASSUME TimerInv, NoLostWakeup, NEW d \in Device,
         SlotDone(d) \/ Block(d) \/ Detach(d)
  PROVE  NoLostWakeup'
<1> USE DEF TimerInv, TimerTypeOK
<1>1. CASE SlotDone(d)
  <2>1. /\ \A e \in Device : done'[e] = (IF e = d THEN TRUE ELSE done[e])
        /\ \A e \in Device : dpc'[e] = IF e = d THEN "block" ELSE dpc[e]
        /\ tAsleep' = (tAsleep /\ temp # d) /\ UNCHANGED <<fsh, tpc, temp>>
    BY <1>1 DEF SlotDone, Signal, timerThread
  <2> QED
    BY <2>1 DEF NoLostWakeup
<1>2. CASE Block(d)
  <2>1. /\ \A e \in Device : dpc'[e] = IF e = d THEN (IF done[d] THEN "asleep" ELSE "work")
                                            ELSE dpc[e]
        /\ UNCHANGED <<done, tAsleep, fsh, tpc, temp>>
    BY <1>2 DEF Block, timerThread
  <2> QED
    BY <2>1 DEF NoLostWakeup
<1>3. CASE Detach(d)
  <2>1. /\ \A e \in Device : fsh'[e] = (IF e = d THEN TRUE ELSE fsh[e])
        /\ \A e \in Device : dpc'[e] = IF e = d THEN "gone" ELSE dpc[e]
        /\ tAsleep' = (tAsleep /\ temp # d) /\ UNCHANGED <<done, tpc, temp>>
    BY <1>3 DEF Detach, Signal, timerThread
  <2> QED
    BY <2>1 DEF NoLostWakeup
<1> QED
  BY <1>1, <1>2, <1>3

\* A wakeup without a signal leaves the others as they are.
LEMMA SpuriousKeepsWakeup ==
  ASSUME TimerInv, NoLostWakeup, SpuriousWakeup PROVE NoLostWakeup'
<1>1. CASE /\ tAsleep /\ tAsleep' = FALSE
           /\ UNCHANGED <<done, fsh, _time, timer_stop, timerThread, dpc>>
  BY <1>1 DEF NoLostWakeup, timerThread
<1>2. CASE \E d \in Device :
             /\ dpc[d] = "asleep"
             /\ dpc' = [dpc EXCEPT ![d] = "block"]
             /\ UNCHANGED <<done, fsh, _time, timer_stop, timerThread, tAsleep>>
  <2>1. PICK d \in Device :
          /\ dpc' = [dpc EXCEPT ![d] = "block"]
          /\ UNCHANGED <<done, fsh, _time, timer_stop, timerThread, tAsleep>>
    BY <1>2
  <2>2. \A e \in Device : dpc'[e] = "asleep" => dpc[e] = "asleep"
    BY <2>1 DEF TimerInv, TimerTypeOK
  <2> QED
    BY <2>1, <2>2 DEF NoLostWakeup, timerThread
<1> QED
  BY <1>1, <1>2 DEF SpuriousWakeup

\* No wakeup is lost between the two locks, for any number of devices and with
\* spurious wakeups: the safety half of SleeperWakes and TimerEnds.
THEOREM AlwaysNoLostWakeup == TimerSafe => [](NoLostWakeup /\ NoStandstill)
<1>1. Init => NoLostWakeup
  BY DEF Init, NoLostWakeup
<1>2. TimerInv /\ NoLostWakeup /\ [Next]_vars => NoLostWakeup'
  <2> SUFFICES ASSUME TimerInv, NoLostWakeup, [Next]_vars PROVE NoLostWakeup'
    OBVIOUS
  <2>1. CASE StopTimer \/ UNCHANGED vars
    BY <2>1 DEF StopTimer, NoLostWakeup, timerThread, vars
  <2> QED
    BY <2>1, TimerThreadWakeup, DeviceWakeup, SpuriousKeepsWakeup DEF Next
<1>3. TimerInv /\ NoLostWakeup => NoStandstill
  BY DEF TimerInv, TimerTypeOK, Flags, NoLostWakeup, NoStandstill
<1> QED
  BY <1>1, <1>2, <1>3, AlwaysTimerInv, PTL DEF TimerSafe
=============================================================================
