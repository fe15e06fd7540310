-------------------------- MODULE FrameCalls_proofs --------------------------
(***************************************************************************)
(* Proofs about the free frame lists, for any number of processes and frames *)
(* and extensions of any length, when every call holds mmvm_lock.           *)
(***************************************************************************)
EXTENDS FrameCalls, ListLemmas, FiniteSetTheorems

-----------------------------------------------------------------------------
(* The invariant. *)

Typed ==
  /\ FrameTypeOK
  /\ free_fp_list = [d \in Device |-> free_fp_list[d]]
  /\ got = [p \in Proc |-> got[p]]
  /\ seen = [p \in Proc |-> seen[p]]
  /\ held = [p \in Proc |-> [d \in Device |-> held[p][d]]]

\* Where each call stands.  All hold mmvm_lock, so that a list head is still
\* what the call read, and RAM is still full when the swap device is asked.
Standing(p) ==
  /\ pc[p] = "idle" => got[p] = <<>>
  /\ pc[p] # "idle" => /\ mmvm_lock = {p}
                       /\ IF Faults(call[p]) THEN need[p] = 1 /\ got[p] = <<>>
                                             ELSE dev[p] = "ram"
                       /\ dev[p] = "ram" \/ free_fp_list["ram"] = <<>>
  /\ pc[p] \in {"get", "pop"} => need[p] # 0
  /\ pc[p] \in {"pop", "push"} => seen[p] = free_fp_list[dev[p]]
  /\ pc[p] = "pop" => seen[p] # <<>>
  /\ pc[p] \in {"put", "push"} => got[p] # <<>>

CallInv == \A p \in Proc : Standing(p)

\* The frames of device d that are on its list, and those that p has.
Listed(d) == ToSet(free_fp_list[d])
Has(p, d) == held[p][d] \cup (IF d = "ram" THEN ToSet(got[p]) ELSE {})

Separate ==
  /\ \A d \in Device : IsInjective(free_fp_list[d])
  /\ \A p \in Proc : IsInjective(got[p]) /\ held[p]["ram"] \cap ToSet(got[p]) = {}
  /\ \A p \in Proc, d \in Device : Has(p, d) \cap Listed(d) = {}
  /\ \A p, q \in Proc, d \in Device : p # q => Has(p, d) \cap Has(q, d) = {}

Complete == \A d \in Device : \A x \in Pool[d] :
  x \in Listed(d) \/ \E p \in Proc : x \in Has(p, d)

FrameInv == Typed /\ CallInv /\ Separate /\ Complete

AllLocked == \A c \in Calls : Locks(c)

\* At first every frame and slot is in its free list, once.
LEMMA FrameInitInv == FrameInit => FrameInv
<1> SUFFICES ASSUME FrameInit PROVE FrameInv
  OBVIOUS
<1>1. \A d \in Device : Frames[d] \in Nat \ {0} /\ Pool[d] = 0 .. Frames[d] - 1
  BY FrameCallsAssumption DEF Device, Pool
<1>2. ASSUME NEW d \in Device
      PROVE  /\ free_fp_list[d] = [k \in 1 .. Frames[d] |-> k - 1]
             /\ free_fp_list[d] \in Seq(Pool[d])
             /\ IsInjective(free_fp_list[d])
             /\ Pool[d] \subseteq ToSet(free_fp_list[d])
  <2>1. free_fp_list[d] = [k \in 1 .. Frames[d] |-> k - 1]
    BY DEF FrameInit, FormatList
  <2>2. \A k \in 1 .. Frames[d] : k - 1 \in Pool[d]
    BY <1>1
  <2>3. free_fp_list[d] \in Seq(Pool[d])
    BY <1>1, <2>1, <2>2
  <2>4. IsInjective(free_fp_list[d])
    BY <1>1, <2>1 DEF IsInjective
  <2>5. \A x \in Pool[d] : x + 1 \in 1 .. Frames[d] /\ (x + 1) - 1 = x
    BY <1>1
  <2>6. Pool[d] \subseteq ToSet(free_fp_list[d])
    BY <2>1, <2>5 DEF ToSet
  <2> QED
    BY <2>1, <2>3, <2>4, <2>6
<1>3. Typed
  <2>1. 0 \in 0 .. MaxPages
    BY FrameCallsAssumption
  <2> QED
    BY <1>2, <2>1, EmptyFacts DEF Typed, FrameTypeOK, FrameInit, Device
<1>4. CallInv
  BY DEF CallInv, Standing, FrameInit
<1>5. Separate
  <2>1. \A p \in Proc, d \in Device : Has(p, d) = {}
    BY EmptyFacts DEF Has, FrameInit
  <2> QED
    BY <1>2, <2>1, EmptyFacts DEF Separate, FrameInit, Device
<1>6. Complete
  BY <1>2 DEF Complete, Listed
<1> QED
  BY <1>3, <1>4, <1>5, <1>6 DEF FrameInv

\* While one call is under way, all others wait.
LEMMA OthersIdle ==
  ASSUME FrameInv, NEW p \in Proc, pc[p] # "idle"
  PROVE  /\ mmvm_lock = {p}
         /\ \A q \in Proc : q # p => pc[q] = "idle" /\ got[q] = <<>>
BY DEF FrameInv, CallInv, Standing

\* A step of p alone leaves the others where they stand.
LEMMA OthersStand ==
  ASSUME FrameInv, NEW p \in Proc,
         \A q \in Proc : q # p => pc[q] = "idle" /\ pc'[q] = "idle" /\ got'[q] = got[q],
         Standing(p)'
  PROVE  CallInv'
<1> SUFFICES ASSUME NEW q \in Proc, q # p PROVE Standing(q)'
  BY DEF CallInv
<1>1. pc'[q] = "idle" /\ got'[q] = <<>>
  BY DEF FrameInv, CallInv, Standing
<1> QED
  BY <1>1 DEF Standing

\* A step that moves no frame keeps every frame in one place.
LEMMA SamePlaces ==
  ASSUME FrameInv, UNCHANGED <<free_fp_list, got, held>>
  PROVE  Separate' /\ Complete'
<1>1. ASSUME NEW d \in Device PROVE Listed(d)' = Listed(d) /\ \A p \in Proc : Has(p, d)' = Has(p, d)
  BY DEF Listed, Has
<1>2. Separate /\ Complete
  BY DEF FrameInv
<1>3. Separate'
  BY <1>1, <1>2 DEF Separate, Device
<1>4. Complete'
  BY <1>1, <1>2 DEF Complete, Device, Pool
<1> QED
  BY <1>3, <1>4

-----------------------------------------------------------------------------
(* One lemma for each step of a call. *)

\* A call takes mmvm_lock before it looks at a free list.
LEMMA BeginInv ==
  ASSUME FrameInv, AllLocked, NEW p \in Proc, NEW c \in Calls, NEW n \in 1 .. MaxPages,
         Begin(p, c, n)
  PROVE  FrameInv'
<1>1. /\ pc[p] = "idle" /\ got[p] = <<>> /\ mmvm_lock = {} /\ mmvm_lock' = {p}
      /\ Faults(c) => n = 1
      /\ call' = [call EXCEPT ![p] = c]
      /\ pc' = [pc EXCEPT ![p] = "get"]
      /\ dev' = [dev EXCEPT ![p] = "ram"]
      /\ need' = [need EXCEPT ![p] = n]
      /\ UNCHANGED <<free_fp_list, got, seen, held>>
  BY DEF Begin, AllLocked, FrameInv, CallInv, Standing
<1>2. Typed
  BY DEF FrameInv
<1>3. MaxPages \in Nat
  BY FrameCallsAssumption
<1>4. Typed'
  BY <1>1, <1>2, <1>3 DEF Typed, FrameTypeOK, Device, Pool
<1>5. \A q \in Proc : pc[q] = "idle"
  BY <1>1 DEF FrameInv, CallInv, Standing
<1>6. Standing(p)'
  BY <1>1, <1>2, <1>3 DEF Standing, Typed, FrameTypeOK, Faults
<1>7. CallInv'
  BY <1>1, <1>2, <1>5, <1>6, OthersStand DEF Typed, FrameTypeOK
<1> QED
  BY <1>1, <1>4, <1>7, SamePlaces DEF FrameInv

\* Steps that only note what a list holds, or turn to the other device.
LEMMA LookInv ==
  ASSUME FrameInv, NEW p \in Proc, ReadHead(p) \/ AskSwap(p) \/ Cleanup(p) \/ ReadForPut(p)
  PROVE  FrameInv'
<1>1. /\ pc[p] # "idle" /\ Typed /\ Standing(p)
      /\ UNCHANGED <<free_fp_list, mmvm_lock, call, need, got, held>>
  BY DEF FrameInv, CallInv, ReadHead, AskSwap, Cleanup, ReadForPut
<1>2. \A q \in Proc : q # p => pc[q] = "idle" /\ pc'[q] = "idle" /\ got'[q] = got[q]
  BY <1>1, OthersIdle DEF ReadHead, AskSwap, Cleanup, ReadForPut, Typed, FrameTypeOK
<1>3. Typed'
  <2>1. /\ seen' = [q \in Proc |-> seen'[q]]
        /\ pc' \in [Proc -> {"idle", "get", "pop", "put", "push"}]
        /\ dev' \in [Proc -> Device]
    <3>1. CASE ReadHead(p)
      BY <1>1, <3>1 DEF ReadHead, Typed, FrameTypeOK
    <3>2. CASE AskSwap(p)
      BY <1>1, <3>2 DEF AskSwap, Typed, FrameTypeOK, Device
    <3>3. CASE Cleanup(p)
      BY <1>1, <3>3 DEF Cleanup, Typed, FrameTypeOK
    <3>4. CASE ReadForPut(p)
      BY <1>1, <3>4 DEF ReadForPut, Typed, FrameTypeOK
    <3> QED
      BY <3>1, <3>2, <3>3, <3>4
  <2> QED
    BY <1>1, <2>1 DEF Typed, FrameTypeOK, Pool
<1>4. Standing(p)'
  <2>1. CASE ReadHead(p)
    BY <1>1, <2>1 DEF ReadHead, Standing, Typed, FrameTypeOK, Faults
  <2>2. CASE AskSwap(p)
    BY <1>1, <2>2 DEF AskSwap, Standing, Typed, FrameTypeOK, Faults
  <2>3. CASE Cleanup(p)
    BY <1>1, <2>3 DEF Cleanup, Standing, Typed, FrameTypeOK, Faults
  <2>4. CASE ReadForPut(p)
    BY <1>1, <2>4 DEF ReadForPut, Standing, Typed, FrameTypeOK, Faults
  <2> QED
    BY <2>1, <2>2, <2>3, <2>4
<1>5. CallInv'
  BY <1>2, <1>4, OthersStand
<1> QED
  BY <1>1, <1>3, <1>5, SamePlaces DEF FrameInv

\* A call that finds the free list empty, and has got nothing, returns.
LEMMA GiveUpInv ==
  ASSUME FrameInv, NEW p \in Proc, GiveUp(p)
  PROVE  FrameInv'
<1>1. /\ pc[p] = "get" /\ got[p] = <<>> /\ Typed
      /\ pc' = [pc EXCEPT ![p] = "idle"]
      /\ call' = [call EXCEPT ![p] = "none"]
      /\ got' = [got EXCEPT ![p] = <<>>]
      /\ need' = [need EXCEPT ![p] = 0]
      /\ mmvm_lock' = mmvm_lock \ {p}
      /\ UNCHANGED <<free_fp_list, dev, seen, held>>
  BY DEF FrameInv, GiveUp, Return
<1>2. got' = got
  BY <1>1 DEF Typed
<1>3. 0 \in 0 .. MaxPages
  BY FrameCallsAssumption
<1>4. Typed'
  <2>1. /\ call' \in [Proc -> Calls \cup {"none"}]
        /\ pc' \in [Proc -> {"idle", "get", "pop", "put", "push"}]
        /\ need' \in [Proc -> 0 .. MaxPages]
    BY <1>1, <1>3 DEF Typed, FrameTypeOK
  <2>2. mmvm_lock' \subseteq Proc
    BY <1>1 DEF Typed, FrameTypeOK
  <2>3. FrameTypeOK'
    BY <1>1, <1>2, <2>1, <2>2 DEF Typed, FrameTypeOK, Pool
  <2> QED
    BY <1>1, <1>2, <2>3 DEF Typed, Device
<1>5. \A q \in Proc : q # p => pc[q] = "idle" /\ pc'[q] = "idle" /\ got'[q] = got[q]
  BY <1>1, <1>2, OthersIdle DEF Typed, FrameTypeOK
<1>6. Standing(p)'
  BY <1>1, <1>2 DEF Standing, Typed, FrameTypeOK
<1>7. CallInv'
  BY <1>5, <1>6, OthersStand
<1> QED
  BY <1>1, <1>2, <1>4, <1>7, SamePlaces DEF FrameInv

\* A frame passes between the list of device d and process p.
LEMMA MoveFrame ==
  ASSUME FrameInv, NEW p \in Proc, NEW d \in Device, NEW x \in Pool[d],
         \A e \in Device \ {d} : Listed(e)' = Listed(e) /\ \A q \in Proc : Has(q, e)' = Has(q, e),
         \A q \in Proc \ {p} : Has(q, d)' = Has(q, d),
         \/ x \in Listed(d) /\ Listed(d)' = Listed(d) \ {x} /\ Has(p, d)' = Has(p, d) \cup {x}
         \/ x \in Has(p, d) /\ Listed(d)' = Listed(d) \cup {x} /\ Has(p, d)' = Has(p, d) \ {x},
         \A e \in Device : IsInjective(free_fp_list[e])',
         \A q \in Proc : (IsInjective(got[q]) /\ held[q]["ram"] \cap ToSet(got[q]) = {})'
  PROVE  Separate' /\ Complete'
<1>1. Separate /\ Complete
  BY DEF FrameInv
<1>2. ASSUME NEW q \in Proc, NEW e \in Device PROVE Has(q, e)' \cap Listed(e)' = {}
  BY <1>1 DEF Separate
<1>3. ASSUME NEW q \in Proc, NEW r \in Proc, NEW e \in Device, q # r
      PROVE  Has(q, e)' \cap Has(r, e)' = {}
  BY <1>1, <1>3 DEF Separate
<1>4. ASSUME NEW e \in Device, NEW y \in Pool[e]
      PROVE  y \in Listed(e)' \/ \E q \in Proc : y \in Has(q, e)'
  BY <1>1 DEF Complete
<1>5. Separate'
  BY <1>2, <1>3 DEF Separate, Device
<1>6. Complete'
  BY <1>4 DEF Complete, Device, Pool
<1> QED
  BY <1>5, <1>6

\* The head of the list goes to the process: into its page table with the last
\* frame of the call, and into its hands before.
LEMMA PopInv ==
  ASSUME FrameInv, NEW p \in Proc, Pop(p)
  PROVE  FrameInv'
<1>1. /\ pc[p] = "pop" /\ Typed /\ CallInv /\ Separate /\ Standing(p)
      /\ seen[p] = free_fp_list[dev[p]] /\ free_fp_list[dev[p]] # <<>> /\ need[p] # 0
      /\ UNCHANGED <<dev, seen>>
  BY DEF FrameInv, CallInv, Standing, Pop
<1>2. PICK d \in Device, L \in Seq(Pool[dev[p]]) : d = dev[p] /\ L = free_fp_list[d]
  BY <1>1 DEF Typed, FrameTypeOK
<1>3. PICK x : x = Head(L)
  OBVIOUS
<1>4. free_fp_list' = [free_fp_list EXCEPT ![d] = Tail(L)] /\ L \in Seq(Pool[d]) /\ L # <<>>
  BY <1>1, <1>2 DEF Pop, Popped
<1>5. /\ x \in Pool[d] /\ Tail(L) \in Seq(Pool[d])
      /\ ToSet(L) = ToSet(Tail(L)) \cup {x}
      /\ IsInjective(Tail(L)) /\ x \notin ToSet(Tail(L))
  <2>1. IsInjective(L)
    BY <1>1, <1>2 DEF Separate
  <2> QED
    BY <1>3, <1>4, <2>1, HeadTailFacts
<1>6. \A e \in Device : free_fp_list'[e] = IF e = d THEN Tail(L) ELSE free_fp_list[e]
  BY <1>1, <1>4 DEF Typed
<1>7. /\ \A e \in Device : free_fp_list'[e] \in Seq(Pool[e]) /\ IsInjective(free_fp_list'[e])
      /\ free_fp_list' = [e \in Device |-> free_fp_list'[e]]
  BY <1>1, <1>4, <1>5, <1>6 DEF Typed, FrameTypeOK, Separate
<1>8. /\ x \in Listed(d) /\ Listed(d)' = Listed(d) \ {x}
      /\ \A e \in Device \ {d} : Listed(e)' = Listed(e)
  BY <1>2, <1>5, <1>6 DEF Listed
<1>9. d = "ram" \/ got[p] = <<>>
  BY <1>1, <1>2 DEF Standing
<1>10. \A q \in Proc : q # p => pc[q] = "idle" /\ got[q] = <<>>
  BY <1>1, OthersIdle
<1>11. CASE need[p] = 1
  <2>1. /\ held' = [held EXCEPT ![p][d] = @ \cup ToSet(got[p]) \cup {x}]
        /\ pc' = [pc EXCEPT ![p] = "idle"]
        /\ call' = [call EXCEPT ![p] = "none"]
        /\ got' = [got EXCEPT ![p] = <<>>]
        /\ need' = [need EXCEPT ![p] = 0]
        /\ mmvm_lock' = mmvm_lock \ {p}
    BY <1>1, <1>2, <1>3, <1>11 DEF Pop, Return
  <2>2. /\ \A q \in Proc \ {p} : got'[q] = got[q] /\ held'[q] = held[q]
        /\ got'[p] = <<>>
        /\ \A e \in Device : held'[p][e] = IF e = d THEN held[p][d] \cup ToSet(got[p]) \cup {x}
                                                   ELSE held[p][e]
    BY <1>1, <1>2, <2>1 DEF Typed
  <2>3. ToSet(got[p]) \subseteq Pool["ram"]
    <3>1. got[p] \in Seq(Pool["ram"])
      BY <1>1 DEF Typed, FrameTypeOK
    <3> QED
      BY <3>1, ElementOfSeq, LenProperties DEF ToSet
  <2>4. Typed'
    <3>1. \A q \in Proc, e \in Device : held'[q][e] \subseteq Pool[e]
      <4> SUFFICES ASSUME NEW q \in Proc, NEW e \in Device PROVE held'[q][e] \subseteq Pool[e]
        OBVIOUS
      <4>1. held[q][e] \subseteq Pool[e]
        BY <1>1 DEF Typed, FrameTypeOK
      <4>2. d # "ram" => ToSet(got[p]) = {}
        BY <1>9, EmptyFacts
      <4> QED
        BY <1>5, <2>2, <2>3, <4>1, <4>2
    <3>2. held' = [q \in Proc |-> [e \in Device |-> held'[q][e]]]
      BY <1>1, <1>2, <2>1 DEF Typed
    <3>3. 0 \in 0 .. MaxPages
      BY FrameCallsAssumption
    <3> QED
      BY <1>1, <1>7, <2>1, <2>2, <3>1, <3>2, <3>3, EmptyFacts DEF Typed, FrameTypeOK, Pool
  <2>5. Standing(p)'
    BY <1>1, <2>1, <2>2 DEF Standing, Typed, FrameTypeOK
  <2>6. CallInv'
    BY <1>1, <1>10, <2>1, <2>2, <2>5, OthersStand DEF Typed, FrameTypeOK
  <2>7. /\ \A q \in Proc \ {p}, e \in Device : Has(q, e)' = Has(q, e)
        /\ \A e \in Device \ {d} : Has(p, e)' = Has(p, e)
        /\ Has(p, d)' = Has(p, d) \cup {x}
    BY <1>2, <1>9, <2>2, EmptyFacts DEF Has
  <2>8. \A q \in Proc : (IsInjective(got[q]) /\ held[q]["ram"] \cap ToSet(got[q]) = {})'
    BY <1>1, <2>2, EmptyFacts DEF Separate, Device
  <2>9. Separate' /\ Complete'
    BY <1>2, <1>5, <1>7, <1>8, <2>7, <2>8, MoveFrame, SMTT(40)
  <2> QED
    BY <2>4, <2>6, <2>9 DEF FrameInv
<1>12. CASE need[p] # 1
  <2>1. /\ got' = [got EXCEPT ![p] = Append(got[p], x)]
        /\ need' = [need EXCEPT ![p] = need[p] - 1]
        /\ pc' = [pc EXCEPT ![p] = "get"]
        /\ UNCHANGED <<mmvm_lock, call, held>>
    BY <1>1, <1>2, <1>3, <1>12 DEF Pop
  <2>2. d = "ram" /\ ~Faults(call[p])
    BY <1>1, <1>2, <1>12 DEF Standing
  <2>3. got[p] \in Seq(Pool["ram"]) /\ x \in Pool["ram"]
    BY <1>1, <1>5, <2>2 DEF Typed, FrameTypeOK
  <2>4. /\ Append(got[p], x) \in Seq(Pool["ram"])
        /\ ToSet(Append(got[p], x)) = ToSet(got[p]) \cup {x}
        /\ x \notin ToSet(got[p]) => IsInjective(Append(got[p], x))
    <3>1. IsInjective(got[p])
      BY <1>1 DEF Separate
    <3> DEFINE R == Pool["ram"]
    <3>2. got[p] \in Seq(R) /\ x \in R
      BY <2>3
    <3> HIDE DEF R
    <3>3. PICK s \in Seq(R) : s = got[p]
      BY <3>2
    <3>4. Append(s, x) \in Seq(R) /\ ToSet(Append(s, x)) = ToSet(s) \cup {x}
      BY <3>2, AppendFacts
    <3>5. x \notin ToSet(s) => IsInjective(Append(s, x))
      BY <3>1, <3>2, <3>3, AppendFacts
    <3> QED
      BY <3>3, <3>4, <3>5 DEF R
  <2>5. /\ \A q \in Proc \ {p} : got'[q] = got[q]
        /\ got'[p] = Append(got[p], x)
    BY <1>1, <2>1 DEF Typed
  <2>6. need[p] - 1 \in 0 .. MaxPages /\ need[p] - 1 # 0
    BY <1>1, <1>12, FrameCallsAssumption DEF Typed, FrameTypeOK
  <2>7. Typed'
    <3>1. \A q \in Proc : got'[q] \in Seq(Pool["ram"])
      BY <1>1, <2>4, <2>5 DEF Typed, FrameTypeOK
    <3>2. got' = [q \in Proc |-> got'[q]]
      BY <1>1, <2>1 DEF Typed
    <3>3. /\ need' \in [Proc -> 0 .. MaxPages]
          /\ pc' \in [Proc -> {"idle", "get", "pop", "put", "push"}]
      BY <1>1, <2>1, <2>6 DEF Typed, FrameTypeOK
    <3> QED
      BY <1>1, <1>7, <2>1, <3>1, <3>2, <3>3, SMTT(30) DEF Typed, FrameTypeOK, Pool
  <2>8. Standing(p)'
    BY <1>1, <1>2, <2>1, <2>2, <2>6 DEF Standing, Typed, FrameTypeOK
  <2>9. CallInv'
    BY <1>1, <1>10, <2>1, <2>5, <2>8, OthersStand DEF Typed, FrameTypeOK
  <2>10. /\ \A q \in Proc \ {p}, e \in Device : Has(q, e)' = Has(q, e)
         /\ \A e \in Device \ {d} : Has(p, e)' = Has(p, e)
         /\ Has(p, d)' = Has(p, d) \cup {x}
    BY <1>2, <2>1, <2>2, <2>4, <2>5 DEF Has
  <2>11. x \notin Has(p, "ram")
    BY <1>1, <1>2, <1>8, <2>2 DEF Separate
  <2>12. \A q \in Proc : (IsInjective(got[q]) /\ held[q]["ram"] \cap ToSet(got[q]) = {})'
    BY <1>1, <2>1, <2>4, <2>5, <2>11 DEF Separate, Has
  <2>13. Separate' /\ Complete'
    BY <1>2, <1>5, <1>7, <1>8, <2>10, <2>12, MoveFrame, SMTT(40)
  <2> QED
    BY <2>7, <2>9, <2>13 DEF FrameInv
<1> QED
  BY <1>11, <1>12

\* A frame that the call has got goes back, in front of the list.
LEMMA PushInv ==
  ASSUME FrameInv, NEW p \in Proc, Push(p)
  PROVE  FrameInv'
<1>1. /\ pc[p] = "push" /\ Typed /\ CallInv /\ Separate /\ Standing(p)
      /\ got[p] # <<>> /\ dev[p] = "ram" /\ seen[p] = free_fp_list["ram"] /\ ~Faults(call[p])
      /\ UNCHANGED <<dev, seen, held>>
  BY DEF FrameInv, CallInv, Standing, Push
<1>2. got[p] \in Seq(Pool["ram"]) /\ free_fp_list["ram"] \in Seq(Pool["ram"])
  BY <1>1 DEF Typed, FrameTypeOK, Device
<1>3. PICK L, x : /\ L \in Seq(Pool["ram"]) /\ L = free_fp_list["ram"]
                 /\ x = Head(got[p])
  BY <1>2
<1>4. free_fp_list' = [free_fp_list EXCEPT !["ram"] = <<x>> \o L]
  BY <1>1, <1>3 DEF Push
<1>5. /\ x \in Pool["ram"] /\ Tail(got[p]) \in Seq(Pool["ram"])
      /\ ToSet(got[p]) = ToSet(Tail(got[p])) \cup {x}
      /\ IsInjective(Tail(got[p])) /\ x \notin ToSet(Tail(got[p]))
  <2>1. IsInjective(got[p])
    BY <1>1 DEF Separate
  <2> QED
    BY <1>1, <1>2, <1>3, <2>1, HeadTailFacts
<1>6. x \in Has(p, "ram") /\ x \notin Listed("ram") /\ x \notin held[p]["ram"]
  BY <1>1, <1>5 DEF Separate, Has, Device
<1>7. /\ <<x>> \o L \in Seq(Pool["ram"])
      /\ ToSet(<<x>> \o L) = ToSet(L) \cup {x}
      /\ IsInjective(<<x>> \o L)
  <2>1. IsInjective(L) /\ x \notin ToSet(L)
    BY <1>1, <1>6, <1>3 DEF Separate, Listed, Device
  <2> DEFINE R == Pool["ram"]
  <2>2. L \in Seq(R) /\ x \in R
    BY <1>3, <1>5
  <2> HIDE DEF R
  <2>3. <<x>> \o L \in Seq(R) /\ ToSet(<<x>> \o L) = ToSet(L) \cup {x}
    BY <2>2, PrependFacts
  <2>4. IsInjective(<<x>> \o L)
    BY <2>1, <2>2, PrependFacts
  <2> QED
    BY <2>3, <2>4 DEF R
<1>8. \A e \in Device : free_fp_list'[e] = IF e = "ram" THEN <<x>> \o L ELSE free_fp_list[e]
  BY <1>1, <1>4 DEF Typed
<1>9. /\ \A e \in Device : free_fp_list'[e] \in Seq(Pool[e]) /\ IsInjective(free_fp_list'[e])
      /\ free_fp_list' = [e \in Device |-> free_fp_list'[e]]
  BY <1>1, <1>4, <1>7, <1>8 DEF Typed, FrameTypeOK, Separate
<1>10. /\ Listed("ram")' = Listed("ram") \cup {x}
      /\ \A e \in Device \ {"ram"} : Listed(e)' = Listed(e)
  BY <1>7, <1>8, <1>3 DEF Listed, Device
<1>11. \A q \in Proc : q # p => pc[q] = "idle" /\ got[q] = <<>>
  BY <1>1, OthersIdle
<1>12. got' = [got EXCEPT ![p] = Tail(got[p])]
  BY DEF Push, Return, AfterPush
<1>13. \A q \in Proc \ {p} : got'[q] = got[q]
  BY <1>1, <1>12 DEF Typed
<1>14. got'[p] = Tail(got[p])
  BY <1>1, <1>12 DEF Typed
<1>15. /\ \A q \in Proc : got'[q] \in Seq(Pool["ram"])
      /\ got' = [q \in Proc |-> got'[q]]
  BY <1>1, <1>5, <1>12, <1>13, <1>14 DEF Typed, FrameTypeOK
<1>16. Typed' /\ Standing(p)' /\ \A q \in Proc : q # p => pc'[q] = "idle"
  <2>1. CASE Tail(got[p]) = <<>>
    <3>1. /\ pc' = [pc EXCEPT ![p] = "idle"]
          /\ call' = [call EXCEPT ![p] = "none"]
          /\ need' = [need EXCEPT ![p] = 0]
          /\ mmvm_lock' = mmvm_lock \ {p}
      BY <2>1 DEF Push, Return, AfterPush
    <3>2. 0 \in 0 .. MaxPages
      BY FrameCallsAssumption
    <3>3. Typed'
      BY <1>1, <1>9, <1>15, <3>1, <3>2 DEF Typed, FrameTypeOK, Pool
    <3>4. Standing(p)'
      BY <1>1, <1>14, <2>1, <3>1 DEF Standing, Typed, FrameTypeOK
    <3> QED
      BY <1>1, <1>11, <3>1, <3>3, <3>4 DEF Typed, FrameTypeOK
  <2>2. CASE Tail(got[p]) # <<>>
    <3>1. pc' = [pc EXCEPT ![p] = "put"] /\ UNCHANGED <<mmvm_lock, call, need>>
      BY <2>2 DEF Push, AfterPush
    <3>2. Typed'
      BY <1>1, <1>9, <1>15, <3>1 DEF Typed, FrameTypeOK, Pool
    <3>3. Standing(p)'
      BY <1>1, <1>14, <2>2, <3>1 DEF Standing, Typed, FrameTypeOK
    <3> QED
      BY <1>1, <1>11, <3>1, <3>2, <3>3 DEF Typed, FrameTypeOK
  <2> QED
    BY <2>1, <2>2
<1>17. CallInv'
  BY <1>11, <1>13, <1>16, OthersStand
<1>18. /\ \A q \in Proc \ {p}, e \in Device : Has(q, e)' = Has(q, e)
       /\ \A e \in Device \ {"ram"} : Has(p, e)' = Has(p, e)
       /\ Has(p, "ram")' = Has(p, "ram") \ {x}
  BY <1>1, <1>5, <1>6, <1>13, <1>14 DEF Has
<1>19. \A q \in Proc : (IsInjective(got[q]) /\ held[q]["ram"] \cap ToSet(got[q]) = {})'
  BY <1>1, <1>5, <1>13, <1>14 DEF Separate
<1>20. Separate' /\ Complete'
  BY <1>5, <1>6, <1>9, <1>10, <1>18, <1>19, MoveFrame DEF Device
<1> QED
  BY <1>16, <1>17, <1>20 DEF FrameInv

-----------------------------------------------------------------------------
(* The theorems. *)

\* The invariant is kept by every step of every call.
LEMMA FrameNextInv == AllLocked /\ FrameInv /\ [FrameNext]_frameVars => FrameInv'
<1> SUFFICES ASSUME AllLocked, FrameInv, [FrameNext]_frameVars PROVE FrameInv'
  OBVIOUS
<1>1. CASE UNCHANGED frameVars
  <2>1. Typed'
    BY <1>1 DEF frameVars, FrameInv, Typed, FrameTypeOK, Pool
  <2>2. CallInv'
    BY <1>1 DEF frameVars, FrameInv, CallInv, Standing
  <2> QED
    BY <1>1, <2>1, <2>2, SamePlaces DEF frameVars, FrameInv
<1>2. CASE FrameNext
  BY <1>2, BeginInv, LookInv, PopInv, GiveUpInv, PushInv DEF FrameNext
<1> QED
  BY <1>1, <1>2

\* The strengthening: when every call locks, no list head is stale, and every
\* frame is in exactly one place.
THEOREM AlwaysFrameInv == AllLocked => (FrameSpec => []FrameInv)
<1> SUFFICES ASSUME AllLocked PROVE FrameSpec => []FrameInv
  OBVIOUS
<1>1. FrameInv /\ [FrameNext]_frameVars => FrameInv'
  BY FrameNextInv
<1> QED
  BY <1>1, FrameInitInv, PTL DEF FrameSpec

\* Calls that hold mmvm_lock never give one frame to two owners.
THEOREM AlwaysInOnePlace == AllLocked => (FrameSpec => []InOnePlace)
<1> SUFFICES ASSUME AllLocked PROVE FrameSpec => []InOnePlace
  OBVIOUS
<1>1. FrameInv => InOnePlace
  BY DEF FrameInv, Separate, InOnePlace, Has, Listed, Device
<1> QED
  BY <1>1, AlwaysFrameInv, PTL

\* Whatever calls fail half way, when nobody is in a call every frame is on its
\* list or in a page table.
THEOREM AlwaysNothingLost == AllLocked => (FrameSpec => []NothingLost)
<1> SUFFICES ASSUME AllLocked PROVE FrameSpec => []NothingLost
  OBVIOUS
<1>1. FrameInv => NothingLost
  <2> SUFFICES ASSUME FrameInv, \A p \in Proc : pc[p] = "idle", NEW d \in Device
               PROVE  Pool[d] = Listed(d) \cup UNION {held[p][d] : p \in Proc}
    BY DEF NothingLost, Listed
  <2>1. \A p \in Proc : Has(p, d) = held[p][d]
    BY EmptyFacts DEF FrameInv, CallInv, Standing, Has
  <2>2. Pool[d] \subseteq Listed(d) \cup UNION {held[p][d] : p \in Proc}
    BY <2>1 DEF FrameInv, Complete
  <2>3. Listed(d) \subseteq Pool[d]
    <3>1. free_fp_list[d] \in Seq(Pool[d])
      BY DEF FrameInv, Typed, FrameTypeOK
    <3> QED
      BY <3>1, ElementOfSeq, LenProperties DEF Listed, ToSet
  <2>4. \A p \in Proc : held[p][d] \subseteq Pool[d]
    BY DEF FrameInv, Typed, FrameTypeOK
  <2> QED
    BY <2>2, <2>3, <2>4
<1> QED
  BY <1>1, AlwaysFrameInv, PTL

\* The lists and page tables name frames of their device, and no call asks for
\* more frames than its extension has pages.
THEOREM AlwaysFrameTypeOK == AllLocked => (FrameSpec => []FrameTypeOK)
<1> SUFFICES ASSUME AllLocked PROVE FrameSpec => []FrameTypeOK
  OBVIOUS
<1>1. FrameInv => FrameTypeOK
  BY DEF FrameInv, Typed
<1> QED
  BY <1>1, AlwaysFrameInv, PTL

\* A list has at least as many entries as members, and no more if it names each
\* member once.
LEMMA ToSetCardinality ==
  ASSUME NEW S, NEW s \in Seq(S)
  PROVE  /\ IsFiniteSet(ToSet(s)) /\ Cardinality(ToSet(s)) <= Len(s)
         /\ IsInjective(s) => Cardinality(ToSet(s)) = Len(s)
<1>1. Len(s) \in Nat /\ s \in [1 .. Len(s) -> S] /\ DOMAIN s = 1 .. Len(s)
  BY LenProperties
<1>2. s \in Surjection(1 .. Len(s), ToSet(s))
  BY <1>1 DEF Surjection, ToSet
<1>3. IsFiniteSet(1 .. Len(s)) /\ Cardinality(1 .. Len(s)) = Len(s)
  <2>1. 1 \in Int /\ Len(s) \in Int
    BY <1>1
  <2>2. /\ IsFiniteSet(1 .. Len(s))
        /\ Cardinality(1 .. Len(s)) = IF 1 > Len(s) THEN 0 ELSE Len(s) - 1 + 1
    BY <2>1, FS_Interval
  <2> QED
    BY <1>1, <2>2
<1>4. /\ IsFiniteSet(ToSet(s)) /\ Cardinality(ToSet(s)) <= Cardinality(1 .. Len(s))
      /\ Cardinality(ToSet(s)) = Cardinality(1 .. Len(s)) <=> s \in Injection(1 .. Len(s), ToSet(s))
  BY <1>2, <1>3, FS_Surjection
<1>5. IsInjective(s) => s \in Injection(1 .. Len(s), ToSet(s))
  BY <1>1, <1>2 DEF IsInjective, Injection, Surjection
<1> QED
  BY <1>3, <1>4, <1>5

\* A call that finds its list empty finds RAM's list empty: what no page table
\* names is then in its own hands, and less than it asks for.
LEMMA ShortOfFrames ==
  ASSUME FrameInv, NEW p \in Proc, pc[p] = "get", free_fp_list[dev[p]] = <<>>
  PROVE  Cardinality(Unmapped) < Len(got[p]) + need[p]
<1>1. /\ free_fp_list["ram"] = <<>> /\ need[p] # 0
      /\ \A q \in Proc : q # p => got[q] = <<>>
  BY OthersIdle DEF FrameInv, CallInv, Standing
<1>2. Unmapped \subseteq ToSet(got[p])
  <2> SUFFICES ASSUME NEW x \in Pool["ram"], \A q \in Proc : x \notin held[q]["ram"]
               PROVE  x \in ToSet(got[p])
    BY DEF Unmapped
  <2>1. x \notin Listed("ram")
    BY <1>1, EmptyFacts DEF Listed
  <2>2. PICK q \in Proc : x \in Has(q, "ram")
    BY <2>1 DEF FrameInv, Complete, Device
  <2> QED
    BY <1>1, <2>2, EmptyFacts DEF Has
<1>3. got[p] \in Seq(Pool["ram"]) /\ need[p] \in Nat
  BY FrameCallsAssumption DEF FrameInv, Typed, FrameTypeOK
<1>4. IsFiniteSet(ToSet(got[p])) /\ Cardinality(ToSet(got[p])) <= Len(got[p])
  BY <1>3, ToSetCardinality
<1>5. IsFiniteSet(Unmapped) /\ Cardinality(Unmapped) <= Cardinality(ToSet(got[p]))
  BY <1>2, <1>4, FS_Subset
<1>6. /\ Cardinality(Unmapped) \in Nat /\ Cardinality(ToSet(got[p])) \in Nat
      /\ Len(got[p]) \in Nat
  BY <1>3, <1>4, <1>5, FS_CardinalityType, LenProperties
<1> QED
  BY <1>1, <1>3, <1>4, <1>5, <1>6

\* An extension that holds mmvm_lock fails only when RAM is short of frames.
THEOREM AlwaysRefusedOnlyWhenShort == AllLocked => (FrameSpec => RefusedOnlyWhenShort)
<1> DEFINE R(p) == ~Faults(call[p]) /\ pc[p] = "get" /\ pc'[p] \in {"put", "idle"} =>
                     Cardinality(Unmapped) < Len(got[p]) + need[p]
           A == \A p \in Proc : R(p)
<1> SUFFICES ASSUME AllLocked PROVE FrameSpec => RefusedOnlyWhenShort
  OBVIOUS
<1>1. ASSUME FrameInv, [FrameNext]_frameVars PROVE [A]_frameVars
  <2> SUFFICES ASSUME FrameNext, NEW p \in Proc, pc[p] = "get", ~Faults(call[p]),
                      pc'[p] \in {"put", "idle"}
               PROVE  free_fp_list[dev[p]] = <<>>
    BY <1>1, ShortOfFrames
  <2>1. pc \in [Proc -> {"idle", "get", "pop", "put", "push"}]
    BY <1>1 DEF FrameInv, Typed, FrameTypeOK
  <2>2. PICK q \in Proc :
          \/ \E c \in Calls : \E n \in 1 .. MaxPages : Begin(q, c, n)
          \/ ReadHead(q) \/ Pop(q) \/ AskSwap(q) \/ GiveUp(q)
          \/ Cleanup(q) \/ ReadForPut(q) \/ Push(q)
    BY DEF FrameNext
  <2>3. ~ \E c \in Calls : \E n \in 1 .. MaxPages : Begin(q, c, n)
    BY <2>1 DEF Begin
  <2>4. ~ReadHead(q) /\ ~AskSwap(q) /\ ~ReadForPut(q)
    BY <2>1 DEF ReadHead, AskSwap, ReadForPut
  <2>5. ~Pop(q)
    BY <2>1 DEF Pop, Return
  <2>6. ~Push(q)
    BY <2>1 DEF Push, Return
  <2>7. CASE GiveUp(q)
    BY <2>1, <2>7 DEF GiveUp, Return
  <2>8. CASE Cleanup(q)
    BY <2>1, <2>8 DEF Cleanup
  <2> QED
    BY <2>2, <2>3, <2>4, <2>5, <2>6, <2>7, <2>8
<1> QED
  BY <1>1, AlwaysFrameInv, PTL DEF FrameSpec, RefusedOnlyWhenShort

-----------------------------------------------------------------------------
(* FramePool: the steps of a call amount to one that gets all or nothing. *)

\* RAM's frames without a page table entry, in the two forms of the module.
LEMMA UnownedFacts ==
  /\ Unowned["ram"] = Unmapped
  /\ \A d \in Device : Unowned[d] = Pool[d] \ UNION {held[p][d] : p \in Proc}
BY DEF Unowned, Unmapped, Device

\* FramePool counts as this module does.
LEMMA SameCount == \A S : Whole!Cardinality(S) = Cardinality(S)
BY DEF Cardinality, Whole!Cardinality

\* A call's frames in hand are not in a page table yet, so that a step changes
\* what the pool shows only when a request appears, is met or is turned down.
LEMMA PoolStutters ==
  ASSUME FrameInv, UNCHANGED held, \A p \in Proc : Asked'[p] = Asked[p]
  PROVE  UNCHANGED Whole!poolVars
<1>1. Unowned' = Unowned
  BY DEF Unowned, Pool, Device
<1>2. Asked' = Asked
  BY DEF Asked
<1> QED
  BY <1>1, <1>2 DEF Whole!poolVars

\* What one step of p does to the requests: those of the others stay.
LEMMA OthersAsk ==
  ASSUME FrameInv, NEW p \in Proc,
         \A q \in Proc \ {p} : pc'[q] = pc[q] /\ got'[q] = got[q] /\ need'[q] = need[q]
  PROVE  /\ \A q \in Proc \ {p} : Asked'[q] = Asked[q]
         /\ Asked' = [Asked EXCEPT ![p] = Asked'[p]]
BY DEF Asked

\* A call that begins asks the pool.
LEMMA BeginAsks ==
  ASSUME FrameInv, AllLocked, NEW p \in Proc, NEW c \in Calls, NEW n \in 1 .. MaxPages,
         Begin(p, c, n)
  PROVE  Whole!Ask(p, n)
<1>1. /\ pc[p] = "idle" /\ got[p] = <<>>
      /\ pc' = [pc EXCEPT ![p] = "get"]
      /\ need' = [need EXCEPT ![p] = n]
      /\ UNCHANGED <<free_fp_list, got, seen, held>>
  BY DEF Begin, FrameInv, CallInv, Standing
<1>2. pc'[p] = "get" /\ need'[p] = n /\ n \in Nat
  BY <1>1, FrameCallsAssumption DEF FrameInv, Typed, FrameTypeOK
<1>3. Asked[p] = 0 /\ Asked'[p] = n
  BY <1>1, <1>2 DEF Asked
<1>4. Asked' = [Asked EXCEPT ![p] = n]
  <2>1. \A q \in Proc \ {p} : pc'[q] = pc[q] /\ got'[q] = got[q] /\ need'[q] = need[q]
    BY <1>1 DEF FrameInv, Typed, FrameTypeOK
  <2> QED
    BY <1>3, <2>1, OthersAsk
<1>5. Unowned' = Unowned
  BY <1>1 DEF Unowned, Pool, Device
<1> QED
  BY <1>1, <1>3, <1>4, <1>5 DEF Whole!Ask

\* Looking at a list, or turning to the swap device, is not seen.
LEMMA LookStutters ==
  ASSUME FrameInv, NEW p \in Proc, ReadHead(p) \/ AskSwap(p) \/ ReadForPut(p)
  PROVE  UNCHANGED Whole!poolVars
<1>1. pc \in [Proc -> {"idle", "get", "pop", "put", "push"}]
  BY DEF FrameInv, Typed, FrameTypeOK
<1>2. UNCHANGED <<held, got, need>>
  BY DEF ReadHead, AskSwap, ReadForPut
<1>3. \A q \in Proc : pc'[q] \in {"get", "pop"} <=> pc[q] \in {"get", "pop"}
  BY <1>1 DEF ReadHead, AskSwap, ReadForPut
<1>4. \A q \in Proc : Asked'[q] = Asked[q]
  BY <1>2, <1>3 DEF Asked
<1> QED
  BY <1>2, <1>4, PoolStutters

\* The call that gives up, or begins to put back what it has, is refused: RAM
\* has fewer frames than it asked for, those in its hands included.
LEMMA GiveUpRefuses ==
  ASSUME FrameInv, NEW p \in Proc, GiveUp(p) \/ Cleanup(p)
  PROVE  Whole!Refuse(p)
<1>1. /\ pc[p] = "get" /\ free_fp_list[dev[p]] = <<>>
      /\ pc' = [pc EXCEPT ![p] = "idle"] \/ pc' = [pc EXCEPT ![p] = "put"]
      /\ UNCHANGED held
      /\ \A q \in Proc \ {p} : got'[q] = got[q] /\ need'[q] = need[q]
  BY DEF GiveUp, Return, Cleanup, FrameInv, Typed, FrameTypeOK
<1>2. pc \in [Proc -> {"idle", "get", "pop", "put", "push"}]
  BY DEF FrameInv, Typed, FrameTypeOK
<1>3. Cardinality(Unowned["ram"]) < Asked[p]
  BY <1>1, ShortOfFrames, UnownedFacts DEF Asked
<1>4. pc'[p] \in {"idle", "put"} /\ \A q \in Proc \ {p} : pc'[q] = pc[q]
  BY <1>1, <1>2
<1>5. Asked'[p] = 0
  BY <1>4 DEF Asked
<1>6. Asked' = [Asked EXCEPT ![p] = 0]
  BY <1>1, <1>4, <1>5, OthersAsk
<1>7. Unowned' = Unowned
  BY <1>1 DEF Unowned, Pool, Device
<1> QED
  BY <1>1, <1>3, <1>6, <1>7, SameCount DEF Whole!Refuse

\* Putting back: the frames were in no page table before, and are in none now.
LEMMA PushStutters ==
  ASSUME FrameInv, NEW p \in Proc, Push(p)
  PROVE  UNCHANGED Whole!poolVars
<1>1. pc[p] = "push" /\ UNCHANGED held
  BY DEF Push
<1>2. pc' = [pc EXCEPT ![p] = "idle"] \/ pc' = [pc EXCEPT ![p] = "put"]
  BY DEF Push, Return
<1>3. pc \in [Proc -> {"idle", "get", "pop", "put", "push"}]
  BY DEF FrameInv, Typed, FrameTypeOK
<1>4. \A q \in Proc \ {p} : pc'[q] = pc[q] /\ got'[q] = got[q] /\ need'[q] = need[q]
  BY <1>2, <1>3 DEF Push, Return, FrameInv, Typed, FrameTypeOK
<1>5. Asked'[p] = 0 /\ Asked[p] = 0
  BY <1>1, <1>2, <1>3 DEF Asked
<1>6. \A q \in Proc : Asked'[q] = Asked[q]
  BY <1>4, <1>5, OthersAsk
<1> QED
  BY <1>1, <1>6, PoolStutters

\* What an ended call has got: frames of one device that no page table named, as
\* many as it asked for, and slots only when RAM had nothing.
LEMMA FramesInHand ==
  ASSUME FrameInv, NEW p \in Proc, pc[p] = "pop", need[p] = 1,
         NEW S, S = ToSet(got[p]) \cup {Head(seen[p])}
  PROVE  /\ dev[p] # "ram" => Unowned["ram"] = {}
         /\ S \subseteq Unowned[dev[p]]
         /\ Cardinality(S) = Asked[p] /\ Asked[p] # 0
<1>1. /\ Typed /\ Separate /\ Complete /\ dev[p] \in Device
      /\ seen[p] = free_fp_list[dev[p]] /\ free_fp_list[dev[p]] # <<>>
      /\ dev[p] = "ram" \/ (free_fp_list["ram"] = <<>> /\ got[p] = <<>>)
  BY DEF FrameInv, CallInv, Standing, Typed, FrameTypeOK
<1>2. PICK d, x : d \in Device /\ d = dev[p] /\ x = Head(free_fp_list[d])
  BY <1>1
<1>3. x \in Listed(d) /\ x \in Pool[d]
  <2>1. free_fp_list[d] \in Seq(Pool[d]) /\ free_fp_list[d] # <<>>
    BY <1>1, <1>2 DEF Typed, FrameTypeOK
  <2> QED
    BY <1>2, <2>1, HeadTailFacts DEF Listed
<1>4. \A q \in Proc : q # p => got[q] = <<>>
  BY OthersIdle
<1>5. got[p] \in Seq(Pool["ram"]) /\ IsInjective(got[p])
  BY <1>1 DEF Typed, FrameTypeOK, Separate
<1>6. dev[p] # "ram" => Unowned["ram"] = {}
  <2> SUFFICES ASSUME dev[p] # "ram", NEW y \in Pool["ram"] PROVE \E q \in Proc : y \in held[q]["ram"]
    BY UnownedFacts DEF Device
  <2>1. y \notin Listed("ram")
    BY <1>1, EmptyFacts DEF Listed
  <2>2. PICK q \in Proc : y \in Has(q, "ram")
    BY <1>1, <2>1 DEF Complete, Device
  <2>3. got[q] = <<>>
    BY <1>1, <1>4
  <2> QED
    BY <2>2, <2>3, EmptyFacts DEF Has
<1>7. ToSet(got[p]) \subseteq Pool["ram"]
  BY <1>5, ElementOfSeq, LenProperties DEF ToSet
<1>8. x \notin ToSet(got[p])
  <2>1. CASE d = "ram"
    BY <1>1, <1>3, <2>1 DEF Separate, Has, Device
  <2>2. CASE d # "ram"
    BY <1>1, <1>2, <2>2, EmptyFacts
  <2> QED
    BY <2>1, <2>2
<1>9. S \subseteq Unowned[d]
  <2>1. x \in Unowned[d]
    BY <1>1, <1>2, <1>3, UnownedFacts DEF Separate, Has
  <2>2. CASE d = "ram"
    <3> SUFFICES ASSUME NEW y \in ToSet(got[p]), NEW q \in Proc, y \in held[q]["ram"] PROVE FALSE
      BY <1>1, <1>2, <1>7, <2>1, <2>2, UnownedFacts
    <3>1. y \in Has(p, "ram") /\ y \in Has(q, "ram")
      BY DEF Has
    <3>2. p = q
      BY <1>1, <3>1 DEF Separate, Device
    <3> QED
      BY <1>1, <3>2 DEF Separate
  <2>3. CASE d # "ram"
    BY <1>1, <1>2, <2>1, <2>3, EmptyFacts
  <2> QED
    BY <2>2, <2>3
<1>10. Cardinality(S) = Asked[p] /\ Asked[p] # 0
  <2>1. IsFiniteSet(ToSet(got[p])) /\ Cardinality(ToSet(got[p])) = Len(got[p]) /\ Len(got[p]) \in Nat
    BY <1>5, ToSetCardinality, LenProperties
  <2>2. S = ToSet(got[p]) \cup {x}
    BY <1>1, <1>2
  <2>3. Cardinality(S) = Len(got[p]) + 1
    BY <1>8, <2>1, <2>2, FS_AddElement
  <2>4. Asked[p] = Len(got[p]) + 1
    BY DEF Asked
  <2> QED
    BY <2>1, <2>3, <2>4
<1> QED
  BY <1>2, <1>6, <1>9, <1>10

\* The frame that completes a call meets its request; any other leaves the pool
\* as it was.
LEMMA PopGrants ==
  ASSUME FrameInv, NEW p \in Proc, Pop(p)
  PROVE  \/ \E d \in DOMAIN Pool : Whole!Grant(p, d)
         \/ UNCHANGED Whole!poolVars
<1>1. pc[p] = "pop" /\ Typed /\ dev[p] \in Device
  BY DEF Pop, FrameInv, Typed, FrameTypeOK
<1>2. CASE need[p] = 1
  <2>1. PICK d, S : d \in Device /\ d = dev[p] /\ S = ToSet(got[p]) \cup {Head(seen[p])}
    BY <1>1
  <2>2. /\ d # "ram" => Unowned["ram"] = {}
        /\ S \subseteq Unowned[d]
        /\ Cardinality(S) = Asked[p] /\ Asked[p] # 0
    BY <1>1, <1>2, <2>1, FramesInHand
  <2>3. /\ held' = [held EXCEPT ![p][d] = @ \cup S]
        /\ pc' = [pc EXCEPT ![p] = "idle"]
        /\ \A q \in Proc \ {p} : got'[q] = got[q] /\ need'[q] = need[q]
    BY <1>1, <1>2, <2>1 DEF Pop, Return, Typed, FrameTypeOK
  <2>4. /\ \A q \in Proc \ {p} : held'[q] = held[q]
        /\ \A e \in Device : held'[p][e] = IF e = d THEN held[p][d] \cup S ELSE held[p][e]
    BY <1>1, <2>3 DEF Typed
  <2>5. Unowned' = [Unowned EXCEPT ![d] = @ \ S]
    <3>1. \A e \in Device : Unowned'[e] = IF e = d THEN Unowned[d] \ S ELSE Unowned[e]
      <4> SUFFICES ASSUME NEW e \in Device
                   PROVE  Unowned'[e] = IF e = d THEN Unowned[d] \ S ELSE Unowned[e]
        OBVIOUS
      <4>1. /\ Unowned'[e] = Pool[e] \ UNION {held'[q][e] : q \in Proc}
            /\ Unowned[e] = Pool[e] \ UNION {held[q][e] : q \in Proc}
        BY DEF Unowned, Pool
      <4>2. UNION {held'[q][e] : q \in Proc} =
              IF e = d THEN (UNION {held[q][e] : q \in Proc}) \cup S
                       ELSE UNION {held[q][e] : q \in Proc}
        BY <2>4
      <4> QED
        BY <4>1, <4>2
    <3> QED
      BY <3>1 DEF Unowned
  <2>6. Asked' = [Asked EXCEPT ![p] = 0]
    <3>1. pc'[p] = "idle" /\ \A q \in Proc \ {p} : pc'[q] = pc[q]
      BY <1>1, <2>3 DEF Typed, FrameTypeOK
    <3>2. Asked'[p] = 0
      BY <3>1 DEF Asked
    <3> QED
      BY <2>3, <3>1, <3>2, OthersAsk
  <2>7. Whole!Grant(p, d)
    BY <2>2, <2>3, <2>5, <2>6, SameCount DEF Whole!Grant
  <2> QED
    BY <2>1, <2>7 DEF Pool
<1>3. CASE need[p] # 1
  <2>1. /\ got' = [got EXCEPT ![p] = Append(got[p], Head(seen[p]))]
        /\ need' = [need EXCEPT ![p] = need[p] - 1]
        /\ pc' = [pc EXCEPT ![p] = "get"]
        /\ UNCHANGED held
    BY <1>3 DEF Pop
  <2>2. \A q \in Proc \ {p} : pc'[q] = pc[q] /\ got'[q] = got[q] /\ need'[q] = need[q]
    BY <1>1, <2>1 DEF Typed, FrameTypeOK
  <2>3. /\ got'[p] = Append(got[p], Head(seen[p])) /\ need'[p] = need[p] - 1 /\ pc'[p] = "get"
        /\ got[p] \in Seq(Pool["ram"]) /\ need[p] \in Nat
    BY <1>1, <2>1, FrameCallsAssumption DEF Typed, FrameTypeOK
  <2>4. Len(got'[p]) = Len(got[p]) + 1 /\ Len(got[p]) \in Nat
    BY <2>3, LenProperties
  <2>5. Asked'[p] = Asked[p]
    <3>1. Asked'[p] = Len(got'[p]) + need'[p] /\ Asked[p] = Len(got[p]) + need[p]
      BY <1>1, <2>3 DEF Asked
    <3> QED
      BY <2>3, <2>4, <3>1
  <2>6. \A q \in Proc : Asked'[q] = Asked[q]
    BY <2>2, <2>5, OthersAsk
  <2> QED
    BY <2>1, <2>6, PoolStutters
<1> QED
  BY <1>2, <1>3

\* The calls that hold mmvm_lock implement all-or-nothing calls, for any number
\* of processes and frames and extensions of any length.
THEOREM FrameCallsImplementPool == AllLocked => (FrameSpec => ImplementsFramePool)
<1> SUFFICES ASSUME AllLocked PROVE FrameSpec => ImplementsFramePool
  OBVIOUS
<1>1. FrameInit => Whole!PoolInit
  <2> SUFFICES ASSUME FrameInit PROVE Whole!PoolInit
    OBVIOUS
  <2>1. \A p \in Proc, d \in Device : held[p][d] = {}
    BY DEF FrameInit
  <2>2. Unowned = Pool
    BY <2>1 DEF Unowned, Pool
  <2>3. Asked = [p \in Proc |-> 0]
    BY DEF Asked, FrameInit
  <2>4. held = [p \in Proc |-> [d \in DOMAIN Pool |-> {}]]
    BY DEF FrameInit, Pool
  <2> QED
    BY <2>2, <2>3, <2>4 DEF Whole!PoolInit
<1>2. FrameInv /\ [FrameNext]_frameVars => [Whole!PoolNext]_(Whole!poolVars)
  <2> SUFFICES ASSUME FrameInv, [FrameNext]_frameVars PROVE [Whole!PoolNext]_(Whole!poolVars)
    OBVIOUS
  <2>1. CASE UNCHANGED frameVars
    BY <2>1, PoolStutters DEF frameVars, Asked
  <2>2. CASE FrameNext
    <3>1. PICK p \in Proc :
            \/ \E c \in Calls : \E n \in 1 .. MaxPages : Begin(p, c, n)
            \/ ReadHead(p) \/ Pop(p) \/ AskSwap(p) \/ GiveUp(p)
            \/ Cleanup(p) \/ ReadForPut(p) \/ Push(p)
      BY <2>2 DEF FrameNext
    <3>2. CASE \E c \in Calls : \E n \in 1 .. MaxPages : Begin(p, c, n)
      BY <3>2, BeginAsks DEF Whole!PoolNext
    <3>3. CASE Pop(p)
      BY <3>3, PopGrants DEF Whole!PoolNext
    <3>4. CASE GiveUp(p) \/ Cleanup(p)
      BY <3>4, GiveUpRefuses DEF Whole!PoolNext
    <3>5. CASE ReadHead(p) \/ AskSwap(p) \/ ReadForPut(p) \/ Push(p)
      BY <3>5, LookStutters, PushStutters
    <3> QED
      BY <3>1, <3>2, <3>3, <3>4, <3>5
  <2> QED
    BY <2>1, <2>2
<1> QED
  BY <1>1, <1>2, AlwaysFrameInv, PTL DEF FrameSpec, ImplementsFramePool, Whole!PoolSpec
=============================================================================
