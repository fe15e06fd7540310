-------------------------------- MODULE Timer --------------------------------
(***************************************************************************)
(* timer.c: the timer thread and the two-lock handshake of next_slot.       *)
(* One action per critical section of event_lock or timer_lock (the body of *)
(* a wait loop up to the sleep, or to the unlock), and one for each step    *)
(* outside them (_time++, the loop test).  A thread in pthread_cond_wait    *)
(* is "asleep": a signal wakes it, and so may nothing at all (POSIX).       *)
(***************************************************************************)
EXTENDS Naturals

CONSTANTS NumDev,   \* number of attach_event calls; 1 is the head of dev_list
          TimeCap   \* bound of the model: the clock is not counted beyond it

ASSUME TimerAssumption == NumDev \in Nat \ {0} /\ TimeCap \in Nat

Device == 1 .. NumDev

VARIABLES done,         \* timer_id_t.done
          fsh,          \* timer_id_t.fsh
          _time,
          timer_stop,
          tpc,          \* timer thread: "top", "wait", "tick", "release", "exit"
          temp,         \* its cursor in dev_list
          fsh_count,    \* its local fsh (its local event is then NumDev)
          tAsleep,      \* it sleeps on event_cond of device temp
          dpc           \* device thread: "work", "block", "asleep", "gone"

timerThread == <<tpc, temp, fsh_count>>
vars == <<done, fsh, _time, timer_stop, tpc, temp, fsh_count, tAsleep, dpc>>

Later(t) == IF t < TimeCap THEN t + 1 ELSE t

\* attach_event for each device, then start_timer.
Init ==
  /\ done = [d \in Device |-> FALSE]
  /\ fsh = [d \in Device |-> FALSE]
  /\ _time = 0
  /\ timer_stop = FALSE
  /\ tpc = "top"
  /\ temp = 1
  /\ fsh_count = 0
  /\ tAsleep = FALSE
  /\ dpc = [d \in Device |-> "work"]

-----------------------------------------------------------------------------
\* The timer thread.

LoopTop_CountKept ==
  /\ tpc = "top"
  /\ IF timer_stop THEN tpc' = "exit" ELSE tpc' = "wait"
  /\ temp' = 1
  /\ UNCHANGED <<done, fsh, _time, timer_stop, fsh_count, tAsleep, dpc>>

\* while (!timer_stop), and the reset of the loop's locals.
LoopTop ==
  /\ tpc = "top"
  /\ IF timer_stop THEN tpc' = "exit" ELSE tpc' = "wait"
  /\ temp' = 1
  /\ fsh_count' = 0
  /\ UNCHANGED <<done, fsh, _time, timer_stop, tAsleep, dpc>>

Advance_NoEnd(next) == temp' = temp + 1 /\ tpc' = IF temp < NumDev THEN tpc ELSE next

\* The timer goes on to the next device, or to next when it has seen them all.
Advance(next) ==
  IF temp < NumDev THEN temp' = temp + 1 /\ tpc' = tpc
                   ELSE temp' = 1 /\ tpc' = next

\* Under event_lock of device temp: neither done nor fsh, so sleep.
WaitForDevice ==
  /\ tpc = "wait" /\ ~tAsleep
  /\ ~done[temp] /\ ~fsh[temp]
  /\ tAsleep' = TRUE
  /\ UNCHANGED <<done, fsh, _time, timer_stop, timerThread, dpc>>

\* Under event_lock of device temp: it is done for this slot, or has left.
SeeDevice ==
  /\ tpc = "wait" /\ ~tAsleep
  /\ done[temp] \/ fsh[temp]
  /\ fsh_count' = IF fsh[temp] THEN fsh_count + 1 ELSE fsh_count
  /\ Advance("tick")
  /\ UNCHANGED <<done, fsh, _time, timer_stop, tAsleep, dpc>>

\* _time++
TickTime ==
  /\ tpc = "tick"
  /\ _time' = Later(_time)
  /\ tpc' = "release"
  /\ UNCHANGED <<done, fsh, timer_stop, temp, fsh_count, tAsleep, dpc>>

\* Under timer_lock of device temp: let it go on.  After the last one the loop
\* breaks if every device had left.
ReleaseDevice ==
  /\ tpc = "release"
  /\ done' = [done EXCEPT ![temp] = FALSE]
  /\ dpc' = IF dpc[temp] = "asleep" THEN [dpc EXCEPT ![temp] = "block"] ELSE dpc
  /\ Advance(IF fsh_count = NumDev THEN "exit" ELSE "top")
  /\ UNCHANGED <<fsh, _time, timer_stop, fsh_count, tAsleep>>

TimerThread ==
  LoopTop \/ WaitForDevice \/ SeeDevice \/ TickTime \/ ReleaseDevice

-----------------------------------------------------------------------------
\* A device thread.

Signal_None(d) == tAsleep' = tAsleep

\* pthread_cond_signal(&event_cond) of device d.
Signal(d) == tAsleep' = (tAsleep /\ temp # d)

\* next_slot(), its section under event_lock.
SlotDone(d) ==
  /\ dpc[d] = "work"
  /\ done' = [done EXCEPT ![d] = TRUE]
  /\ Signal(d)
  /\ dpc' = [dpc EXCEPT ![d] = "block"]
  /\ UNCHANGED <<fsh, _time, timer_stop, timerThread>>

Block_WaitOnce(d) ==
  /\ dpc[d] = "block"
  /\ dpc' = [dpc EXCEPT ![d] = "work"]
  /\ UNCHANGED <<done, fsh, _time, timer_stop, timerThread, tAsleep>>

\* next_slot(), the test of its wait loop under timer_lock.
Block(d) ==
  /\ dpc[d] = "block"
  /\ dpc' = [dpc EXCEPT ![d] = IF done[d] THEN "asleep" ELSE "work"]
  /\ UNCHANGED <<done, fsh, _time, timer_stop, timerThread, tAsleep>>

Detach_NoSignal(d) ==
  /\ dpc[d] = "work"
  /\ fsh' = [fsh EXCEPT ![d] = TRUE]
  /\ dpc' = [dpc EXCEPT ![d] = "gone"]
  /\ UNCHANGED <<done, _time, timer_stop, timerThread, tAsleep>>

\* detach_event()
Detach(d) ==
  /\ dpc[d] = "work"
  /\ fsh' = [fsh EXCEPT ![d] = TRUE]
  /\ Signal(d)
  /\ dpc' = [dpc EXCEPT ![d] = "gone"]
  /\ UNCHANGED <<done, _time, timer_stop, timerThread>>

\* A wait may return without a signal.
SpuriousWakeup ==
  \/ /\ tAsleep /\ tAsleep' = FALSE
     /\ UNCHANGED <<done, fsh, _time, timer_stop, timerThread, dpc>>
  \/ \E d \in Device :
       /\ dpc[d] = "asleep"
       /\ dpc' = [dpc EXCEPT ![d] = "block"]
       /\ UNCHANGED <<done, fsh, _time, timer_stop, timerThread, tAsleep>>

\* stop_timer(): main calls it when it has joined all the device threads.
StopTimer ==
  /\ \A d \in Device : dpc[d] = "gone"
  /\ ~timer_stop
  /\ timer_stop' = TRUE
  /\ UNCHANGED <<done, fsh, _time, timerThread, tAsleep, dpc>>

Next ==
  \/ TimerThread
  \/ \E d \in Device : SlotDone(d) \/ Block(d) \/ Detach(d)
  \/ SpuriousWakeup
  \/ StopTimer

TimerSafe == Init /\ [][Next]_vars

\* All threads are scheduled; a thread in its slot ends it or leaves (every
\* path through cpu_routine and ld_routine ends in next_slot or detach_event).
TimerSpec ==
  /\ TimerSafe
  /\ WF_vars(TimerThread)
  /\ WF_vars(StopTimer)
  /\ \A d \in Device : /\ WF_vars(SlotDone(d) \/ Detach(d))
                       /\ WF_vars(Block(d))

-----------------------------------------------------------------------------
\* Type invariant.
TimerTypeOK ==
  /\ done \in [Device -> BOOLEAN] /\ fsh \in [Device -> BOOLEAN]
  /\ _time \in Nat /\ timer_stop \in BOOLEAN
  /\ tpc \in {"top", "wait", "tick", "release", "exit"}
  /\ temp \in Device /\ fsh_count \in 0 .. NumDev /\ tAsleep \in BOOLEAN
  /\ dpc \in [Device -> {"work", "block", "asleep", "gone"}]

\* The timer thread ends only when every device thread has left: what it counted
\* in one turn, while devices come and go, is enough to break out of its loop.
ExitsLast == tpc = "exit" => \A d \in Device : dpc[d] = "gone"

\* A device whose turn to be released in this slot is still to come: its done
\* flag is the one of the slot that has just ended.
Unreleased(d) == tpc = "release" /\ temp <= d

\* The phase of a device as a client of the barrier sees it.
PhaseOf(d) ==
  IF fsh[d] THEN "gone"
  ELSE IF done[d] /\ ~Unreleased(d) THEN "waiting"
  ELSE "working"

Clock == INSTANCE SlotClock WITH time <- _time, phase <- [d \in Device |-> PhaseOf(d)]

\* timer.c implements the barrier: a slot never ends for a thread that is in the
\* middle of it or has not woken up to it yet, all waiting threads are released
\* for the same slot, and when all wait the next slot comes.
ImplementsSlotClock == Clock!ClockSpec

\* No lost wakeup between the two locks: a thread that sleeps in next_slot
\* gets to work in a later slot.
SleeperWakes == \A d \in Device : dpc[d] = "asleep" ~> dpc[d] = "work"

\* When all the threads have left, the timer thread ends, so that the join in
\* stop_timer returns: it neither sleeps on a device for good nor misses the
\* last detach_event.
TimerEnds == (\A d \in Device : dpc[d] = "gone") ~> tpc = "exit"
=============================================================================
