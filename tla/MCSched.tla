------------------------------- MODULE MCSched -------------------------------
(* Small instances of the MLQ scheduler for TLC. *)
EXTENDS MlqBypass, FiniteSetsExt

\* The closed form of the bound on bypassing is the sum of the other levels' turns.
ASSUME TurnsAddUp == \A n \in 1 .. 20 : \A l \in 0 .. n - 1 :
  Turns(n) - (n - l) = MapThenSumSet(LAMBDA m : n - m, (0 .. n - 1) \ {l})

CONSTANTS p1, p2, p3, p4, p5, c1, c2

MCProc5 == {p1, p2, p3, p4, p5}
MCProc3 == {p1, p2, p3}
MCCPU == {c1, c2}

\* Three processes share level 0 (p4 only because its prio is clamped), so a
\* queue of two entries can overflow; levels 1 and 2 have one process each.
MCPrio5 == p1 :> 0 @@ p2 :> 0 @@ p3 :> 1 @@ p4 :> 7 @@ p5 :> 2
MCPriority5 == p1 :> 1 @@ p2 :> 1 @@ p3 :> 1 @@ p4 :> 2 @@ p5 :> 1

\* Two processes on one level, one on another.
MCPrio3 == p1 :> 0 @@ p2 :> 0 @@ p3 :> 1
MCPriorityMixed == p1 :> 2 @@ p2 :> 1 @@ p3 :> 1
=============================================================================
