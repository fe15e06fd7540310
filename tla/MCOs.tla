-------------------------------- MODULE MCOs --------------------------------
(* Small instances of the whole simulation for TLC. *)
EXTENDS Syscall

CONSTANTS p1, p2, p3, p4, c1, c2, ld

MCProc == {p1, p2, p3, p4}
MCCPU == {c1, c2}
MCDevice == {c1, c2, ld}

\* p1 outlives its slice, p2 is short, p3 and p4 come late and on the other
\* level, p4 with nothing to execute.
MCScript == <<p1, p2, p3, p4>>
MCStart == p1 :> 0 @@ p2 :> 1 @@ p3 :> 2 @@ p4 :> 4
MCSize == p1 :> 5 @@ p2 :> 1 @@ p3 :> 3 @@ p4 :> 0
MCPrio == p1 :> 0 @@ p2 :> 0 @@ p3 :> 1 @@ p4 :> 1
\* p1 and p3 end their slices, and p1 its program, with a memmap.
MCMemmap == p1 :> {0, 4} @@ p2 :> {} @@ p3 :> {1} @@ p4 :> {}
MCPriority == p1 :> 2 @@ p2 :> 1 @@ p3 :> 1 @@ p4 :> 2
=============================================================================
