-------------------------------- MODULE MCVma --------------------------------
(* A small address space for TLC. *)
EXTENDS Vma
CONSTANTS a, b, c
MCReg == {a, b, c}
RegSymmetry == Permutations(MCReg)
=============================================================================
