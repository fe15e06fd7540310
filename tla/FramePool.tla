------------------------------ MODULE FramePool ------------------------------
(***************************************************************************)
(* What the two devices promise to the callers of their free lists, when    *)
(* each call is taken as a whole: a call gets as many frames as it asks for, *)
(* at once, or none; it gets slots of the swap device only while RAM has no  *)
(* frame; and it is refused only while RAM has fewer than it asks for.      *)
(* FrameCalls.tla, where frames are taken one by one and put back when they  *)
(* do not suffice, is the implementation.                                  *)
(***************************************************************************)
EXTENDS Naturals, FiniteSets

CONSTANTS Proc,     \* the processes that ask
          Pool,     \* Pool["ram"] and Pool["swap"]: the frames there are
          MaxPages  \* bound of the model: the frames of one call

VARIABLES free,   \* per device
          owned,  \* owned[p][d]: the frames of device d that p has
          asked   \* how many frames p's call wants, 0 between calls

poolVars == <<free, owned, asked>>

PoolInit ==
  /\ free = Pool
  /\ owned = [p \in Proc |-> [d \in DOMAIN Pool |-> {}]]
  /\ asked = [p \in Proc |-> 0]

Ask(p, n) ==
  /\ asked[p] = 0
  /\ asked' = [asked EXCEPT ![p] = n]
  /\ UNCHANGED <<free, owned>>

\* All the frames that p asked for, of one device.
Grant(p, d) ==
  /\ asked[p] # 0
  /\ d # "ram" => free["ram"] = {}
  /\ \E S \in SUBSET free[d] :
       /\ Cardinality(S) = asked[p]
       /\ free' = [free EXCEPT ![d] = @ \ S]
       /\ owned' = [owned EXCEPT ![p][d] = @ \cup S]
  /\ asked' = [asked EXCEPT ![p] = 0]

Refuse(p) ==
  /\ Cardinality(free["ram"]) < asked[p]
  /\ asked' = [asked EXCEPT ![p] = 0]
  /\ UNCHANGED <<free, owned>>

PoolNext == \E p \in Proc :
  \/ \E n \in 1 .. MaxPages : Ask(p, n)
  \/ \E d \in DOMAIN Pool : Grant(p, d)
  \/ Refuse(p)

PoolSpec == PoolInit /\ [][PoolNext]_poolVars
=============================================================================
