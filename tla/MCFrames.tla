------------------------------ MODULE MCFrames ------------------------------
(* Three processes, each on a CPU of its own, over three frames and one slot. *)
EXTENDS FrameCalls
CONSTANTS p1, p2, p3
MCProc == {p1, p2, p3}
LockedCalls == {"write", "alloc"}
AllCalls == {"read", "write", "alloc", "memmap"}
MCFrameCount == [ram |-> 3, swap |-> 1]
ProcSymmetry == Permutations(MCProc)
=============================================================================
