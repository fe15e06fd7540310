--------------------------- MODULE MlqBypass_proofs ---------------------------
(***************************************************************************)
(* Proof that the MLQ policy bounds how often a ready level is passed over,  *)
(* for every number of levels, processes and CPUs.  The measure is what the  *)
(* cursor can still hand out before it stands on the level.                 *)
(***************************************************************************)
EXTENDS MlqBypass, MlqSched_proofs

-----------------------------------------------------------------------------
(* The arithmetic of full turns. *)

\* The n lowest levels' turns and that of the next level.
LEMMA TurnsStep ==
  ASSUME NEW n \in Nat
  PROVE  Turns(n) \in Nat /\ Turns(n + 1) = Turns(n) + n + 1
<1> DEFINE a == n * (n + 1)
           b == (n + 1) * (n + 1 + 1)
<1>1. a \in Nat /\ b = a + 2 * (n + 1)
  OBVIOUS
<1> HIDE DEF a, b
<1>2. a \div 2 \in Nat /\ (a + 2 * (n + 1)) \div 2 = (a \div 2) + (n + 1)
  BY <1>1
<1> QED
  BY <1>1, <1>2 DEF Turns, a, b

\* The turns of fewer levels are fewer.
LEMMA TurnsMonotone ==
  ASSUME NEW m \in Nat, NEW n \in Nat, m < n
  PROVE  Turns(m) + n <= Turns(n)
<1>1. n - 1 \in Nat /\ (n - 1) + 1 = n
  OBVIOUS
<1>2. Turns(n) = Turns(n - 1) + n
  BY <1>1, TurnsStep
<1>3. Turns(m) <= Turns(n - 1)
  <2> DEFINE k == n - 1
             a == m * (m + 1)
             b == k * (k + 1)
  <2>1. m <= k /\ k \in Nat
    BY <1>1
  <2> HIDE DEF k
  <2>2. a \in Nat /\ b \in Nat /\ a <= b
    BY <2>1
  <2> HIDE DEF a, b
  <2>3. a \div 2 <= b \div 2
    BY <2>2
  <2> QED
    BY <2>3 DEF Turns, a, b, k
<1> QED
  BY <1>1, <1>2, <1>3, TurnsStep

\* The turns of no more levels are no more.
LEMMA TurnsOrdered ==
  ASSUME NEW m \in Nat, NEW n \in Nat, m <= n
  PROVE  Turns(m) <= Turns(n)
<1>1. CASE m = n
  BY <1>1, TurnsStep
<1>2. CASE m < n
  <2>1. Turns(m) + n <= Turns(n)
    BY <1>2, TurnsMonotone
  <2> QED
    BY <2>1, TurnsStep
<1> QED
  BY <1>1, <1>2

-----------------------------------------------------------------------------
(* The measure. *)

\* What the cursor hands out before it stands on level l, if it stands on level
\* m with s slots left and finds a process for every slot.
Left(m, s, l) ==
  IF m = l THEN 0
  ELSE s + Turns(MaxPrio - m - 1) - Turns(MaxPrio - l)
         + (IF m < l THEN 0 ELSE Turns(MaxPrio))

\* Where the cursor stands, less is left than all other levels' full turns, and
\* something unless it stands on the level.
LEMMA LeftBounded ==
  ASSUME NEW m \in Levels, NEW l \in Levels, NEW s \in 1 .. MaxPrio - m
  PROVE  /\ Left(m, s, l) \in Nat
         /\ Left(m, s, l) <= BypassBound(l)
         /\ BypassBound(l) \in Nat
         /\ m # l => Left(m, s, l) >= 1
<1> DEFINE N == MaxPrio
<1>0. N \in Nat /\ m \in 0 .. N - 1 /\ l \in 0 .. N - 1
  BY MlqAssumption DEF Levels
<1> HIDE DEF N
<1>1. /\ N - m - 1 \in Nat /\ N - m \in Nat /\ N - l \in Nat /\ N - l - 1 \in Nat
      /\ (N - m - 1) + 1 = N - m /\ (N - l - 1) + 1 = N - l
  BY <1>0
<1>2. /\ Turns(N - m - 1) \in Nat /\ Turns(N - m) = Turns(N - m - 1) + (N - m)
      /\ Turns(N - l - 1) \in Nat /\ Turns(N - l) = Turns(N - l - 1) + (N - l)
      /\ Turns(N) \in Nat
  <2>1. /\ Turns(N - m - 1) \in Nat
        /\ Turns((N - m - 1) + 1) = Turns(N - m - 1) + (N - m - 1) + 1
    BY <1>1, TurnsStep
  <2>2. /\ Turns(N - l - 1) \in Nat
        /\ Turns((N - l - 1) + 1) = Turns(N - l - 1) + (N - l - 1) + 1
    BY <1>1, TurnsStep
  <2>3. Turns(N) \in Nat
    BY <1>0, TurnsStep
  <2> QED
    BY <1>0, <1>1, <2>1, <2>2, <2>3
<1>3. N - l <= Turns(N) - Turns(N - l) + Turns(N - l) /\ Turns(N - l) <= Turns(N)
  <2>1. CASE l = 0
    BY <1>0, <1>2, <2>1
  <2>2. CASE l # 0
    <3>1. N - l < N
      BY <1>0, <2>2
    <3>2. Turns(N - l) + N <= Turns(N)
      BY <1>0, <1>1, <3>1, TurnsMonotone
    <3> QED
      BY <1>0, <1>2, <3>2
  <2> QED
    BY <2>1, <2>2
<1>4. /\ m < l => Turns(N - l) + (N - m) <= Turns(N - m)
      /\ m > l => Turns(N - m) + (N - l) <= Turns(N - l)
  <2>1. CASE m < l
    BY <1>0, <1>1, <2>1, TurnsMonotone
  <2>2. CASE m > l
    BY <1>0, <1>1, <2>2, TurnsMonotone
  <2> QED
    BY <1>0, <2>1, <2>2
<1>5. BypassBound(l) = Turns(N) - (N - l)
  BY DEF BypassBound, FullTurn, N
<1>6. s \in 1 .. N - m
  BY DEF N
<1>7. Left(m, s, l) = IF m = l THEN 0
                      ELSE s + Turns(N - m - 1) - Turns(N - l) + (IF m < l THEN 0 ELSE Turns(N))
  BY DEF Left, N
<1> DEFINE a == Turns(N - m - 1)
           b == Turns(N - l - 1)
           t == Turns(N)
<1>8. /\ a \in Nat /\ b \in Nat /\ t \in Nat
      /\ Turns(N - m) = a + (N - m) /\ Turns(N - l) = b + (N - l)
  BY <1>2
<1> HIDE DEF a, b, t
<1>9. CASE m = l
  BY <1>0, <1>3, <1>5, <1>7, <1>8, <1>9 DEF t
<1>10. CASE m < l
  <2>1. Left(m, s, l) = s + a - (b + (N - l))
    BY <1>0, <1>7, <1>8, <1>10 DEF a
  <2>2. a + (N - m) <= t
    <3>1. CASE m = 0
      BY <1>0, <1>8, <3>1 DEF t
    <3>2. CASE m # 0
      <4>1. N - m < N
        BY <1>0, <3>2
      <4>2. Turns(N - m) + N <= Turns(N)
        BY <1>0, <1>1, <4>1, TurnsMonotone
      <4> QED
        BY <1>0, <1>8, <4>2 DEF t
    <3> QED
      BY <3>1, <3>2
  <2>3. b + (N - l) + (N - m) <= a + (N - m)
    BY <1>0, <1>4, <1>8, <1>10
  <2> QED
    BY <1>0, <1>5, <1>6, <1>8, <1>10, <2>1, <2>2, <2>3 DEF t
<1>11. CASE m > l
  <2>1. Left(m, s, l) = s + a - (b + (N - l)) + t
    BY <1>0, <1>7, <1>8, <1>11 DEF a, t
  <2>2. a + (N - m) <= b
    BY <1>0, <1>4, <1>8, <1>11
  <2>3. b + (N - l) <= t
    BY <1>0, <1>3, <1>8 DEF t
  <2> QED
    BY <1>0, <1>5, <1>6, <1>8, <1>11, <2>1, <2>2, <2>3 DEF t
<1> QED
  BY <1>0, <1>9, <1>10, <1>11

\* A dispatch elsewhere takes one of what is left, also when it ends a turn.
LEMMA DispatchPays ==
  ASSUME NEW m \in Levels, NEW l \in Levels, NEW s \in 1 .. MaxPrio - m, m # l
  PROVE  /\ s # 1 => Left(m, s - 1, l) = Left(m, s, l) - 1
         /\ s = 1 => Left(NextLevel(m), FullTurn(NextLevel(m)), l) = Left(m, s, l) - 1
<1> DEFINE N == MaxPrio
           a == Turns(N - m - 1)
           b == Turns(N - l)
           t == Turns(N)
<1>0. N \in Nat /\ m \in 0 .. N - 1 /\ l \in 0 .. N - 1 /\ N # 0
  BY MlqAssumption DEF Levels
<1>1. a \in Nat /\ b \in Nat /\ t \in Nat
  BY <1>0, TurnsStep
<1>2. Left(m, s, l) = s + a - b + (IF m < l THEN 0 ELSE t)
  BY DEF Left
<1>3. CASE s # 1
  <2>1. Left(m, s - 1, l) = (s - 1) + a - b + (IF m < l THEN 0 ELSE t)
    BY DEF Left
  <2> HIDE DEF a, b, t
  <2> QED
    BY <1>0, <1>1, <1>2, <1>3, <2>1
<1>4. CASE s = 1
  <2> DEFINE n == NextLevel(m)
             d == Turns(N - n - 1)
             rest == Left(NextLevel(m), FullTurn(NextLevel(m)), l)
  <2>1. n = (IF m + 1 < N THEN m + 1 ELSE 0) /\ FullTurn(n) = N - n
    BY DEF NextLevel, FullTurn
  <2>2. rest = IF n = l THEN 0 ELSE (N - n) + d - b + (IF n < l THEN 0 ELSE t)
    BY <2>1 DEF Left
  <2>3. N - n - 1 \in Nat
    BY <1>0, <2>1
  <2>4. d \in Nat /\ Turns((N - n - 1) + 1) = d + (N - n - 1) + 1
    BY <2>3, TurnsStep
  <2>5. CASE m + 1 < N
    <3>1. n = m + 1 /\ N - m - 1 = (N - n - 1) + 1
      BY <1>0, <2>1, <2>5
    <3>2. a = d + (N - n)
      BY <1>0, <2>3, <2>4, <3>1
    <3>3. n = l => N - m - 1 = N - l
      BY <1>0, <3>1
    <3>4. n = l => a = b
      BY <3>3
    <3> HIDE DEF a, b, t, n, d, rest
    <3>6. rest = Left(m, s, l) - 1
      BY <1>0, <1>1, <1>2, <1>4, <2>1, <2>2, <2>4, <3>1, <3>2, <3>4
    <3> QED
      BY <1>4, <3>6 DEF rest
  <2>6. CASE ~(m + 1 < N)
    <3>1. n = 0 /\ N - m - 1 = 0 /\ N = (N - n - 1) + 1 /\ ~(m < l)
      BY <1>0, <2>1, <2>6
    <3>2. t = d + N
      BY <1>0, <2>3, <2>4, <3>1
    <3>3. a = 0
      <4>1. Turns(0) = 0
        BY DEF Turns
      <4> QED
        BY <3>1, <4>1
    <3>4. l = 0 => N - l = N
      BY <1>0
    <3>5. l = 0 => b = t
      BY <3>4
    <3> HIDE DEF a, b, t, n, d, rest
    <3>6. rest = Left(m, s, l) - 1
      BY <1>0, <1>1, <1>2, <1>4, <2>1, <2>2, <2>4, <3>1, <3>2, <3>3, <3>5
    <3> QED
      BY <1>4, <3>6 DEF rest
  <2> QED
    BY <2>5, <2>6
<1> QED
  BY <1>3, <1>4

\* The slots that the loop of get_mlq_proc passes over on its way, on levels
\* where nobody is ready, are no longer left.
LEMMA SkippingPays ==
  ASSUME TypeInv, NEW l \in Levels, NEW k \in Levels,
         \A j \in 0 .. k : LevelAfter(j) # l
  PROVE  /\ SlotAfter(k) \in 1 .. MaxPrio - LevelAfter(k)
         /\ Left(LevelAfter(k), SlotAfter(k), l) <= Left(curr_prio, curr_slot, l)
<1> DEFINE N == MaxPrio
           m == curr_prio
           n == LevelAfter(k)
           a == Turns(N - m - 1)
           b == Turns(N - l)
           t == Turns(N)
<1>0. /\ N \in Nat /\ m \in 0 .. N - 1 /\ l \in 0 .. N - 1 /\ k \in 0 .. N - 1
      /\ curr_slot \in 1 .. N - m
  BY MlqAssumption DEF Levels, TypeInv, SchedTypeOK, CursorOK
<1>1. n \in Levels /\ n \in 0 .. N - 1
  BY LevelAfterType DEF TypeInv, SchedTypeOK, Levels
<1>2. LevelAfter(0) = m /\ m # l /\ n # l
  BY <1>0 DEF LevelAfter
<1>3. CASE k = 0
  <2>1. LevelAfter(k) = curr_prio /\ SlotAfter(k) = curr_slot
    BY <1>2, <1>3 DEF SlotAfter
  <2>2. Left(curr_prio, curr_slot, l) \in Nat
    BY <1>0, LeftBounded DEF TypeInv, SchedTypeOK
  <2> QED
    BY <1>0, <2>1, <2>2
<1>4. CASE k # 0
  <2>1. SlotAfter(k) = N - n
    BY <1>4 DEF SlotAfter, FullTurn
  <2>2. Left(n, N - n, l) = (N - n) + Turns(N - n - 1) - b + (IF n < l THEN 0 ELSE t)
    BY <1>2 DEF Left
  <2>3. Turns(N - n - 1) \in Nat /\ Turns(N - n) = Turns(N - n - 1) + (N - n)
    <3>1. N - n - 1 \in Nat /\ (N - n - 1) + 1 = N - n
      BY <1>0, <1>1
    <3>2. Turns((N - n - 1) + 1) = Turns(N - n - 1) + (N - n - 1) + 1
      BY <3>1, TurnsStep
    <3> QED
      BY <1>0, <1>1, <3>1, <3>2, TurnsStep
  <2>4. Left(m, curr_slot, l) = curr_slot + a - b + (IF m < l THEN 0 ELSE t)
    BY <1>2 DEF Left
  <2>5. a \in Nat /\ b \in Nat /\ t \in Nat
    BY <1>0, TurnsStep
  <2>6. n = IF m + k < N THEN m + k ELSE m + k - N
    BY DEF LevelAfter
  <2>7. /\ m < l => k < l - m
        /\ l < m => k < l - m + N
    <3>1. ASSUME m < l, ~(k < l - m) PROVE FALSE
      <4>1. l - m \in 0 .. k /\ m + (l - m) = l /\ l < N
        BY <1>0, <3>1
      <4>2. LevelAfter(l - m) = l
        BY <4>1 DEF LevelAfter
      <4> QED
        BY <4>1, <4>2
    <3>2. ASSUME l < m, ~(k < l - m + N) PROVE FALSE
      <4>1. /\ l - m + N \in 0 .. k /\ ~(m + (l - m + N) < N)
            /\ m + (l - m + N) - N = l
        BY <1>0, <3>2
      <4>2. LevelAfter(l - m + N) = l
        BY <4>1 DEF LevelAfter
      <4> QED
        BY <4>1, <4>2
    <3> QED
      BY <3>1, <3>2
  <2>8. CASE m + k < N
    <3>1. n < l <=> m < l
      BY <1>0, <1>2, <2>6, <2>7, <2>8
    <3>2. Turns(N - n) <= a
      <4>1. N - n \in Nat /\ N - m - 1 \in Nat /\ N - n <= N - m - 1
        BY <1>0, <1>4, <2>6, <2>8
      <4> QED
        BY <4>1, TurnsOrdered
    <3> HIDE DEF a, b, t, n
    <3> QED
      BY <1>0, <1>1, <2>1, <2>2, <2>3, <2>4, <2>5, <3>1, <3>2 DEF n
  <2>9. CASE ~(m + k < N)
    <3>1. n < l /\ l < m
      BY <1>0, <1>2, <2>6, <2>7, <2>9
    <3>2. Turns(N - n) <= t
      <4>1. N - n \in Nat /\ N - n <= N
        BY <1>0, <1>1
      <4> QED
        BY <1>0, <4>1, TurnsOrdered
    <3> HIDE DEF a, b, t, n
    <3> QED
      BY <1>0, <1>1, <2>1, <2>2, <2>3, <2>4, <2>5, <3>1, <3>2 DEF n
  <2> QED
    BY <2>8, <2>9
<1> QED
  BY <1>3, <1>4

-----------------------------------------------------------------------------
(* The inductive invariant. *)

\* Nothing is counted for a level where nobody is ready, and what was counted
\* together with what the cursor can still hand out stays within the bound.
Pays(l) ==
  /\ mlq_ready_queue[l] = <<>> => bypass[l] = 0
  /\ bypass[l] + Left(curr_prio, curr_slot, l) <= BypassBound(l)

BypassInv ==
  /\ TypeInv
  /\ OwnLevel
  /\ bypass \in [Levels -> Nat]
  /\ \A l \in Levels : Pays(l)

\* At first nothing is counted and every level is within its bound.
LEMMA InitBypassInv == BypassInit => BypassInv
<1> SUFFICES ASSUME BypassInit PROVE BypassInv
  OBVIOUS
<1>1. TypeInv
  BY InitTypeInv DEF BypassInit
<1>2. OwnLevel
  BY InitLoadInv DEF BypassInit, LoadInv
<1>3. bypass \in [Levels -> Nat] /\ \A l \in Levels : bypass[l] = 0
  BY DEF BypassInit
<1>4. ASSUME NEW l \in Levels PROVE Pays(l)
  <2>1. /\ Left(curr_prio, curr_slot, l) \in Nat
        /\ Left(curr_prio, curr_slot, l) <= BypassBound(l)
        /\ BypassBound(l) \in Nat
    BY <1>1, LeftBounded DEF TypeInv, SchedTypeOK, CursorOK
  <2> QED
    BY <1>3, <2>1 DEF Pays
<1> QED
  BY <1>1, <1>2, <1>3, <1>4 DEF BypassInv

\* A successful get_proc dispatches from the level its loop stops at, and has
\* found nobody on the levels before that.
LEMMA ServedFrom ==
  ASSUME TypeInv, OwnLevel, NEW c \in CPU, proc[c] = NoProc, GetServed(c)
  PROVE  \E k \in Levels :
           /\ Dispatches(LevelAfter(k))
           /\ \A m \in Levels : Dispatches(m) => m = LevelAfter(k)
           /\ LevelAfter(k) \in Levels
           /\ \A m \in Levels \ {LevelAfter(k)} : mlq_ready_queue'[m] = mlq_ready_queue[m]
           /\ \A j \in 0 .. k - 1 : ~Serves(j)
           /\ curr_prio' = IF SlotAfter(k) = 1 THEN NextLevel(LevelAfter(k))
                                               ELSE LevelAfter(k)
           /\ curr_slot' = IF SlotAfter(k) = 1 THEN FullTurn(NextLevel(LevelAfter(k)))
                                               ELSE SlotAfter(k) - 1
<1>1. PICK k \in Levels : GetServed(c)!(k)
  BY DEF GetServed
<1> DEFINE n == LevelAfter(k)
<1>2. n \in Levels /\ mlq_ready_queue[n] \in Seq(Proc)
  BY LevelAfterType DEF TypeInv, SchedTypeOK
<1>3. PICK i \in DOMAIN mlq_ready_queue[n] :
        /\ proc' = [proc EXCEPT ![c] = mlq_ready_queue[n][i]]
        /\ mlq_ready_queue' = [mlq_ready_queue EXCEPT ![n] = DequeueAt(@, i)]
        /\ curr_prio' = IF SlotAfter(k) = 1 THEN NextLevel(n) ELSE n
        /\ curr_slot' = IF SlotAfter(k) = 1 THEN FullTurn(NextLevel(n))
                                            ELSE SlotAfter(k) - 1
  BY <1>1
<1> DEFINE x == mlq_ready_queue[n][i]
<1>4. x \in Proc /\ x # NoProc /\ Level(x) = n
  <2>1. x \in Proc
    BY <1>2, ElementOfSeq, LenProperties
  <2> QED
    BY <1>2, <2>1, MlqAssumption DEF OwnLevel
<1>5. \A m \in Levels \ {n} : mlq_ready_queue'[m] = mlq_ready_queue[m]
  BY <1>2, <1>3 DEF TypeInv, SchedTypeOK
<1>6. \A j \in 0 .. k - 1 : ~Serves(j)
  BY <1>1
<1>7. \A d \in CPU : proc'[d] = IF d = c THEN x ELSE proc[d]
  BY <1>3 DEF TypeInv, SchedTypeOK
<1> HIDE DEF x, n
<1>8. Dispatches(n) /\ \A m \in Levels : Dispatches(m) => m = n
  BY <1>4, <1>7 DEF Dispatches
<1> QED
  BY <1>2, <1>3, <1>5, <1>6, <1>8 DEF n

\* A get_proc that serves another level uses up some of what is left for l.
LEMMA ServingPays ==
  ASSUME TypeInv, OwnLevel, NEW c \in CPU, proc[c] = NoProc, GetServed(c),
         NEW l \in Levels, mlq_ready_queue[l] # <<>>, ~Dispatches(l)
  PROVE  /\ \E m \in Levels \ {l} : Dispatches(m)
         /\ mlq_ready_queue'[l] # <<>>
         /\ Left(curr_prio', curr_slot', l) <= Left(curr_prio, curr_slot, l) - 1
<1>1. PICK k \in Levels :
           /\ Dispatches(LevelAfter(k))
           /\ \A m \in Levels : Dispatches(m) => m = LevelAfter(k)
           /\ LevelAfter(k) \in Levels
           /\ \A m \in Levels \ {LevelAfter(k)} : mlq_ready_queue'[m] = mlq_ready_queue[m]
           /\ \A j \in 0 .. k - 1 : ~Serves(j)
           /\ curr_prio' = IF SlotAfter(k) = 1 THEN NextLevel(LevelAfter(k))
                                               ELSE LevelAfter(k)
           /\ curr_slot' = IF SlotAfter(k) = 1 THEN FullTurn(NextLevel(LevelAfter(k)))
                                               ELSE SlotAfter(k) - 1
  BY ServedFrom
<1> DEFINE n == LevelAfter(k)
           s == SlotAfter(k)
<1>2. n # l
  BY <1>1
<1>3. \A j \in 0 .. k : LevelAfter(j) # l
  <2> SUFFICES ASSUME NEW j \in 0 .. k, LevelAfter(j) = l PROVE FALSE
    OBVIOUS
  <2>1. k \in Nat /\ j \in 0 .. k - 1 /\ j \in Levels
    <3>1. j # k
      BY <1>2
    <3>2. k \in Nat /\ k <= MaxPrio - 1 /\ MaxPrio \in Nat
      BY MlqAssumption DEF Levels
    <3> QED
      BY <3>1, <3>2 DEF Levels
  <2>2. ~Serves(j)
    BY <1>1, <2>1
  <2>3. SlotAfter(j) > 0
    <3>1. CASE j = 0
      BY <3>1, MlqAssumption DEF SlotAfter, TypeInv, SchedTypeOK, CursorOK, Levels
    <3>2. CASE j # 0
      BY <3>2, FullTurnType, MlqAssumption DEF SlotAfter, Levels
    <3> QED
      BY <3>1, <3>2
  <2> QED
    BY <2>2, <2>3 DEF Serves
<1>4. s \in 1 .. MaxPrio - n /\ Left(n, s, l) <= Left(curr_prio, curr_slot, l)
  BY <1>3, SkippingPays
<1>5. Left(curr_prio', curr_slot', l) = Left(n, s, l) - 1
  <2>1. CASE s = 1
    BY <1>1, <1>2, <1>4, <2>1, DispatchPays
  <2>2. CASE s # 1
    BY <1>1, <1>2, <1>4, <2>2, DispatchPays
  <2> QED
    BY <2>1, <2>2
<1>6. Left(n, s, l) \in Nat /\ Left(curr_prio, curr_slot, l) \in Nat
  BY <1>1, <1>4, LeftBounded DEF TypeInv, SchedTypeOK, CursorOK
<1>7. Left(curr_prio', curr_slot', l) <= Left(curr_prio, curr_slot, l) - 1
  <2> HIDE DEF n, s
  <2> QED
    BY <1>4, <1>5, <1>6
<1> QED
  BY <1>1, <1>2, <1>7

\* enqueue() never empties a queue.
LEMMA EnqueueNotEmpty ==
  ASSUME NEW q \in [Levels -> Seq(Proc)], NEW x \in Proc, NEW n \in Levels,
         NEW l \in Levels, q[l] # <<>>
  PROVE  [q EXCEPT ![n] = Enqueue(@, x)][l] # <<>>
<1>1. CASE n = l
  <2>1. Append(q[l], x) # <<>>
    OBVIOUS
  <2>2. [q EXCEPT ![n] = Enqueue(@, x)][l] = Enqueue(q[l], x)
    BY <1>1
  <2> QED
    BY <2>1, <2>2 DEF Enqueue
<1>2. CASE n # l
  BY <1>2
<1> QED
  BY <1>1, <1>2

\* A step that hands out nothing leaves the count and the cursor alone.
LEMMA IdlePays ==
  ASSUME BypassInv, TypeInv', NEW l \in Levels, mlq_ready_queue[l] # <<>>,
         \A m \in Levels : ~Dispatches(m), bypass'[l] = Count(l),
         mlq_ready_queue'[l] # <<>>, UNCHANGED <<curr_prio, curr_slot>>
  PROVE  Pays(l)'
<1>1. bypass'[l] = bypass[l]
  BY DEF Count
<1> QED
  BY <1>1 DEF BypassInv, Pays

\* No call of the scheduler takes a level over its bound.
LEMMA NextPays ==
  ASSUME BypassInv, TypeInv', SchedNext, NEW l \in Levels, bypass'[l] = Count(l)
  PROVE  Pays(l)'
<1> USE DEF BypassInv
<1>1. /\ Left(curr_prio', curr_slot', l) \in Nat
      /\ Left(curr_prio', curr_slot', l) <= BypassBound(l)
      /\ BypassBound(l) \in Nat
  BY LeftBounded DEF TypeInv, SchedTypeOK, CursorOK
<1>2. CASE mlq_ready_queue[l] = <<>> \/ Dispatches(l)
  <2>1. bypass'[l] = 0
    BY <1>2 DEF Count
  <2> QED
    BY <1>1, <2>1 DEF Pays
<1>3. CASE mlq_ready_queue[l] # <<>> /\ ~Dispatches(l)
  <2>1. ASSUME NEW c \in CPU, GetProc(c), GetServed(c) PROVE Pays(l)'
    <3>1. /\ \E m \in Levels \ {l} : Dispatches(m)
          /\ mlq_ready_queue'[l] # <<>>
          /\ Left(curr_prio', curr_slot', l) <= Left(curr_prio, curr_slot, l) - 1
      BY <1>3, <2>1, ServingPays DEF GetProc
    <3>2. bypass'[l] = bypass[l] + 1
      BY <1>3, <3>1 DEF Count
    <3>3. bypass[l] + Left(curr_prio, curr_slot, l) <= BypassBound(l) /\ bypass[l] \in Nat
      BY DEF Pays
    <3>4. Left(curr_prio, curr_slot, l) \in Nat
      BY LeftBounded DEF TypeInv, SchedTypeOK, CursorOK
    <3> QED
      BY <1>1, <3>1, <3>2, <3>3, <3>4 DEF Pays
  <2>2. ASSUME NEW c \in CPU, GetProc(c), GetNothing(c) PROVE Pays(l)'
    <3>1. AllLevelsEmpty
      BY <2>2, TypeInvConserves DEF GetNothing, WorkConserving
    <3> QED
      BY <1>3, <3>1 DEF AllLevelsEmpty
  <2>3. ASSUME NEW p \in Proc, AddProc(p) PROVE Pays(l)'
    <3>1. \A m \in Levels : ~Dispatches(m)
      BY <2>3 DEF AddProc, Dispatches
    <3>2. mlq_ready_queue'[l] # <<>>
      BY <1>3, <2>3, LevelType, EnqueueNotEmpty DEF AddProc, TypeInv, SchedTypeOK
    <3> QED
      BY <1>3, <2>3, <3>1, <3>2, IdlePays DEF AddProc
  <2>4. ASSUME NEW c \in CPU, PutProc(c) PROVE Pays(l)'
    <3>1. \A m \in Levels : ~Dispatches(m)
      BY <2>4 DEF PutProc, Dispatches, TypeInv, SchedTypeOK
    <3>2. proc[c] \in Proc
      BY <2>4 DEF PutProc, TypeInv, SchedTypeOK
    <3>3. mlq_ready_queue'[l] # <<>>
      BY <1>3, <2>4, <3>2, LevelType, EnqueueNotEmpty DEF PutProc, TypeInv, SchedTypeOK
    <3> QED
      BY <1>3, <2>4, <3>1, <3>3, IdlePays DEF PutProc
  <2>5. ASSUME NEW c \in CPU, FinishProc(c) PROVE Pays(l)'
    <3>1. \A m \in Levels : ~Dispatches(m)
      BY <2>5 DEF FinishProc, Dispatches, TypeInv, SchedTypeOK
    <3> QED
      BY <1>3, <2>5, <3>1, IdlePays DEF FinishProc
  <2> QED
    BY <2>1, <2>2, <2>3, <2>4, <2>5 DEF SchedNext, GetProc
<1> QED
  BY <1>2, <1>3

\* The invariant survives every step.
LEMMA NextBypassInv == BypassInv /\ [BypassNext]_bypassVars => BypassInv'
<1> SUFFICES ASSUME BypassInv, [BypassNext]_bypassVars PROVE BypassInv'
  OBVIOUS
<1>1. [SchedNext]_schedVars
  BY DEF BypassNext, bypassVars
<1>2. TypeInv' /\ OwnLevel'
  BY <1>1, NextTypeInv, NextOwnLevel DEF BypassInv
<1>3. CASE BypassNext
  <2>1. \A l \in Levels : bypass'[l] = Count(l) /\ Count(l) \in Nat
    BY <1>3 DEF BypassNext, BypassInv, Count
  <2>2. bypass' \in [Levels -> Nat]
    BY <1>3, <2>1 DEF BypassNext
  <2>3. \A l \in Levels : Pays(l)'
    BY <1>2, <1>3, <2>1, NextPays DEF BypassNext
  <2> QED
    BY <1>2, <2>2, <2>3 DEF BypassInv
<1>4. CASE UNCHANGED bypassVars
  BY <1>2, <1>4 DEF BypassInv, Pays, bypassVars, schedVars
<1> QED
  BY <1>3, <1>4

\* A level where somebody is ready is passed over for at most one full turn of
\* every other level, however many processes, CPUs and levels there are and in
\* whatever order get_proc, put_proc, finish_proc and add_proc are called.
THEOREM AlwaysBoundedBypass == BypassSpec => []BoundedBypass
<1>1. BypassInv => BoundedBypass
  <2> SUFFICES ASSUME BypassInv, NEW l \in Levels PROVE bypass[l] <= BypassBound(l)
    BY DEF BoundedBypass
  <2>1. Left(curr_prio, curr_slot, l) \in Nat /\ BypassBound(l) \in Nat
    BY LeftBounded DEF BypassInv, TypeInv, SchedTypeOK, CursorOK
  <2> QED
    BY <2>1 DEF BypassInv, Pays
<1> QED
  BY <1>1, InitBypassInv, NextBypassInv, PTL DEF BypassSpec
=============================================================================
