------------------------------- MODULE MCPaging -------------------------------
(* A small paging instance for TLC. *)
EXTENDS Paging
CONSTANTS p1, p2, v0, v1
MCProc == {p1, p2}
MCValue == {v0, v1}
ProcSymmetry == Permutations(MCProc)
=============================================================================
