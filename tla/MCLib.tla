-------------------------------- MODULE MCLib --------------------------------
(* The memory instructions of one process for TLC. *)
EXTENDS LibMem
CONSTANTS a, b, u, v
MCReg == {a, b}
MCValue == {u, v}
LibSymmetry == Permutations(MCReg) \cup Permutations(MCValue)
=============================================================================
