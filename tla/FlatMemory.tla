------------------------------ MODULE FlatMemory ------------------------------
(***************************************************************************)
(* What paging promises to the processes: every process has a memory of its *)
(* own.  A page holds the value last written to it; before it is first used  *)
(* it may hold anything.  An access may fail, and then changes nothing.     *)
(* Paging.tla is the implementation.                                        *)
(***************************************************************************)
CONSTANTS Proc, Page, Value,
          Fresh    \* the content of a page that was never used, not in Value

VARIABLES mem,    \* mem[p][g]: the content of page g of process p
          last    \* the latest access and its outcome

flatVars == <<mem, last>>

FlatInit ==
  /\ mem = [p \in Proc |-> [g \in Page |-> Fresh]]
  /\ last = <<>>

\* A page may take any content at its first use, and keeps it from then on.
Becomes(p, g, v) ==
  /\ mem[p][g] \in {Fresh, v}
  /\ mem' = [mem EXCEPT ![p][g] = v]

Stores(p, g, v) == mem' = [mem EXCEPT ![p][g] = v]

FlatRead(p, g) == \E v \in Value :
  /\ last' = <<"read", p, g, v>>
  /\ Becomes(p, g, v)

FlatWrite(p, g, v) ==
  /\ last' = <<"write", p, g, v>>
  /\ Stores(p, g, v)

\* The access fails, whatever it was.
FlatFail(p, g) ==
  /\ last' = <<"fail", p, g>>
  /\ UNCHANGED mem

\* Pages are mapped ahead of their first use.
FlatPopulate(p) ==
  /\ last' = <<"alloc", p>>
  /\ mem' \in [Proc -> [Page -> Value \cup {Fresh}]]
  /\ \A q \in Proc, g \in Page :
       mem'[q][g] # mem[q][g] => q = p /\ mem[q][g] = Fresh

FlatNext ==
  \E p \in Proc :
    \/ FlatPopulate(p)
    \/ \E g \in Page : \/ FlatRead(p, g) \/ FlatFail(p, g)
                       \/ \E v \in Value : FlatWrite(p, g, v)

FlatSpec == FlatInit /\ [][FlatNext]_flatVars
=============================================================================
