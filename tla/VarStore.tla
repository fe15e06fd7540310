------------------------------ MODULE VarStore ------------------------------
(***************************************************************************)
(* What the memory of a process promises to its program: a register names a *)
(* sequence of bytes of its own.  A byte holds what was last put into it;    *)
(* until then it may hold anything, and keeps what was once seen in it.      *)
(* LibMem is the implementation.                                            *)
(***************************************************************************)
EXTENDS Naturals, Sequences

CONSTANTS Reg, Value,
          Fresh    \* a byte that was never used, not in Value

VARIABLE val   \* val[r]: the bytes of register r, <<>> when it names none

Byte == Value \cup {Fresh}

VarInit == val = [r \in Reg |-> <<>>]

\* An allocation, with any content.
New(r) ==
  /\ val'[r] \in Seq(Byte) \ {<<>>}
  /\ val' = [val EXCEPT ![r] = val'[r]]

Delete(r) ==
  /\ val[r] # <<>>
  /\ val' = [val EXCEPT ![r] = <<>>]

Put(r, k, v) ==
  /\ k \in DOMAIN val[r]
  /\ val' = [val EXCEPT ![r][k] = v]

Look(r, k, v) ==
  /\ k \in DOMAIN val[r]
  /\ val[r][k] = Fresh
  /\ val' = [val EXCEPT ![r][k] = v]

VarNext == \E r \in Reg :
  \/ New(r) \/ Delete(r)
  \/ \E k \in DOMAIN val[r], v \in Value : Put(r, k, v) \/ Look(r, k, v)

VarSpec == VarInit /\ [][VarNext]_val
=============================================================================
