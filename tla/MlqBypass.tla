------------------------------ MODULE MlqBypass ------------------------------
(***************************************************************************)
(* How long the MLQ policy can keep a ready level waiting: MlqSched with a  *)
(* history variable that counts the dispatches made elsewhere, and the      *)
(* fairness under which a ready process is dispatched in the end.           *)
(***************************************************************************)
EXTENDS MlqSched

VARIABLE bypass   \* bypass[l]: dispatches since l became ready or was served

bypassVars == <<schedVars, bypass>>

\* This step hands a process of level l to a CPU.
Dispatches(l) ==
  \E c \in CPU : proc[c] = NoProc /\ proc'[c] # NoProc /\ Level(proc'[c]) = l

Count(l) ==
  IF mlq_ready_queue[l] = <<>> \/ Dispatches(l) THEN 0
  ELSE IF \E m \in Levels \ {l} : Dispatches(m) THEN bypass[l] + 1
  ELSE bypass[l]

BypassInit == SchedInit /\ bypass = [l \in Levels |-> 0]
BypassNext == SchedNext /\ bypass' = [l \in Levels |-> Count(l)]

BypassSpec == BypassInit /\ [][BypassNext]_bypassVars

\* The full turns of the n lowest levels together: 1 + 2 + ... + n dispatches.
Turns(n) == (n * (n + 1)) \div 2

\* MLQ is fair between levels: a level with a ready process is passed over for
\* at most one full turn of every other level, however the loader and the CPUs
\* keep those levels filled.
BypassBound(l) == Turns(MaxPrio) - FullTurn(l)
BoundedBypass == \A l \in Levels : bypass[l] <= BypassBound(l)

-----------------------------------------------------------------------------
\* cpu_routine never keeps its CPU for good without asking again: a CPU that
\* holds a process puts it back or finishes it (its slice and its program are
\* finite), and a CPU that holds none calls get_proc.
FairSchedSpec ==
  /\ BypassSpec
  /\ \A c \in CPU : /\ WF_schedVars(GetProc(c))
                    /\ WF_schedVars(PutProc(c) \/ FinishProc(c))

\* The processes that no other of their level outranks by default priority.
Favoured == {p \in Proc : \A q \in Proc : Level(q) = Level(p) => Priority[p] <= Priority[q]}

\* No starvation: a ready process that no other of its level outranks is
\* dispatched in the end, on whatever level it waits and however often the
\* others are put back.  (The outranked ones may wait for ever: see
\* RoundRobinWithinLevel.)
EventuallyDispatched == \A p \in Favoured : Queued(p) ~> Held(p)
=============================================================================
