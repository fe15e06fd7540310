------------------------------ MODULE SlotClock ------------------------------
(***************************************************************************)
(* What the timer promises to the threads that attach to it: a barrier.     *)
(* A time slot ends only when every attached thread has either finished its *)
(* work for the slot (next_slot) or left for good (detach_event), and then   *)
(* all the waiting ones start the next slot together.  Timer.tla is the     *)
(* implementation; OsSim.tla runs the CPUs and the loader on this promise.  *)
(***************************************************************************)
EXTENDS Naturals

CONSTANTS Device,   \* the threads that called attach_event
          TimeCap   \* bound of the model: the clock is not counted beyond it

ASSUME ClockAssumption == TimeCap \in Nat

VARIABLES time,     \* _time
          phase     \* "working" in this slot, "waiting" for the next, or "gone"

clockVars == <<time, phase>>

Later(t) == IF t < TimeCap THEN t + 1 ELSE t

ClockInit == time = 0 /\ phase = [d \in Device |-> "working"]

\* next_slot() is entered.
Arrive(d) ==
  /\ phase[d] = "working"
  /\ phase' = [phase EXCEPT ![d] = "waiting"]
  /\ time' = time

\* detach_event() is called.
Leave(d) ==
  /\ phase[d] = "working"
  /\ phase' = [phase EXCEPT ![d] = "gone"]
  /\ time' = time

NobodyWorking == \A d \in Device : phase[d] # "working"

\* The next slot begins.
Tick ==
  /\ NobodyWorking
  /\ \E d \in Device : phase[d] = "waiting"
  /\ time' = Later(time)
  /\ phase' = [d \in Device |-> IF phase[d] = "waiting" THEN "working" ELSE phase[d]]

\* The last turn of the timer finds that every thread has left.
FinalTick ==
  /\ \A d \in Device : phase[d] = "gone"
  /\ time' = Later(time)
  /\ phase' = phase

ClockNext ==
  \/ \E d \in Device : Arrive(d) \/ Leave(d)
  \/ Tick
  \/ FinalTick

ClockSafe == ClockInit /\ [][ClockNext]_clockVars
ClockSpec == ClockSafe /\ WF_clockVars(Tick)
=============================================================================
