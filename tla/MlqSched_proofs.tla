--------------------------- MODULE MlqSched_proofs ---------------------------
(***************************************************************************)
(* Proofs about the MLQ scheduler, for every number of processes, CPUs and   *)
(* levels and every queue size.                                             *)
(***************************************************************************)
EXTENDS MlqSched, ListLemmas, WellFoundedInduction, FiniteSetTheorems

-----------------------------------------------------------------------------
\* A set of naturals that is not empty has a smallest element.
LEMMA SmallestOfNatSet ==
  ASSUME NEW T \in SUBSET Nat, T # {}
  PROVE  \E m \in T : \A k \in T : m <= k
<1> DEFINE R == {ss \in Nat \X Nat : ss[1] < ss[2]}
<1>1. IsWellFoundedOn(R, Nat)
  BY NatLessThanWellFounded DEF OpToRel
<1>2. PICK m \in T : \A k \in T : <<k, m>> \notin R
  <2> HIDE DEF R
  <2> QED
    BY <1>1, WFMin
<1>3. \A k \in T : ~(k < m)
  BY <1>2
<1> QED
  BY <1>2, <1>3

(* What the queue operations return. *)

\* dequeue() takes an entry of the queue, and leaves a queue of the others.
LEMMA DequeueProperties ==
  ASSUME NEW S, NEW s \in Seq(S), NEW n \in DOMAIN s
  PROVE  /\ DequeueAt(s, n) \in Seq(S)
         /\ \A j \in DOMAIN DequeueAt(s, n) :
              \E m \in DOMAIN s \ {n} : DequeueAt(s, n)[j] = s[m]
         /\ \A j, k \in DOMAIN DequeueAt(s, n) :
              j # k => \E m, r \in DOMAIN s \ {n} :
                         m # r /\ DequeueAt(s, n)[j] = s[m] /\ DequeueAt(s, n)[k] = s[r]
<1> DEFINE d == DequeueAt(s, n)
           at(j) == IF j < n THEN j ELSE j + 1
<1>1. DOMAIN s = 1 .. Len(s) /\ Len(s) \in Nat
  BY LenProperties
<1>2. /\ d \in Seq(S)
      /\ Len(d) = Len(s) - 1
      /\ \A j \in 1 .. Len(s) - 1 : d[j] = IF j < n THEN s[j] ELSE s[j + 1]
  BY <1>1, RemoveAtProperties DEF DequeueAt
<1> HIDE DEF d
<1>3. DOMAIN d = 1 .. Len(s) - 1
  BY <1>2, LenProperties
<1>4. \A j \in DOMAIN d : at(j) \in DOMAIN s \ {n} /\ d[j] = s[at(j)]
  BY <1>1, <1>2, <1>3
<1>5. \A j, k \in DOMAIN d : j # k => at(j) # at(k)
  BY <1>1, <1>3
<1> HIDE DEF at
<1>6. \A j \in DOMAIN d : \E m \in DOMAIN s \ {n} : d[j] = s[m]
  BY <1>4
<1>7. \A j, k \in DOMAIN d :
        j # k => \E m, r \in DOMAIN s \ {n} : m # r /\ d[j] = s[m] /\ d[k] = s[r]
  BY <1>4, <1>5
<1> QED
  BY <1>2, <1>6, <1>7 DEF d

\* enqueue() adds the process at the end or leaves the queue alone.
LEMMA EnqueueProperties ==
  ASSUME NEW S, NEW s \in Seq(S), NEW x \in S
  PROVE  /\ Enqueue(s, x) \in Seq(S)
         /\ \A j \in DOMAIN Enqueue(s, x) :
              \/ j \in DOMAIN s /\ Enqueue(s, x)[j] = s[j]
              \/ j = Len(s) + 1 /\ Enqueue(s, x)[j] = x
<1>1. DOMAIN s = 1 .. Len(s) /\ Len(s) \in Nat
  BY LenProperties
<1>2. CASE Len(s) < MaxQueueSize
  <2>1. /\ Append(s, x) \in Seq(S)
        /\ Len(Append(s, x)) = Len(s) + 1
        /\ \A j \in 1 .. Len(s) : Append(s, x)[j] = s[j]
        /\ Append(s, x)[Len(s) + 1] = x
    BY AppendProperties
  <2>2. DOMAIN Append(s, x) = 1 .. Len(s) + 1
    BY <2>1, LenProperties
  <2>3. Enqueue(s, x) = Append(s, x)
    BY <1>2 DEF Enqueue
  <2>4. \A j \in 1 .. Len(s) + 1 : j \in 1 .. Len(s) \/ j = Len(s) + 1
    BY <1>1
  <2> QED
    BY <1>1, <2>1, <2>2, <2>3, <2>4
<1>3. CASE ~(Len(s) < MaxQueueSize)
  BY <1>3 DEF Enqueue
<1> QED
  BY <1>2, <1>3

\* purgequeue() leaves a queue of other processes, without the one it was
\* asked to remove if that was in the queue once.
LEMMA PurgeProperties ==
  ASSUME NEW S, NEW s \in Seq(S), NEW x
  PROVE  /\ Purge(s, x) \in Seq(S)
         /\ \A j \in DOMAIN Purge(s, x) : \E m \in DOMAIN s : Purge(s, x)[j] = s[m]
         /\ (\A j, k \in DOMAIN s : s[j] = s[k] => j = k)
              => /\ \A j, k \in DOMAIN Purge(s, x) :
                      Purge(s, x)[j] = Purge(s, x)[k] => j = k
                 /\ \A j \in DOMAIN Purge(s, x) : Purge(s, x)[j] # x
<1>1. DOMAIN s = 1 .. Len(s) /\ Len(s) \in Nat
  BY LenProperties
<1>2. CASE \E i \in DOMAIN s : s[i] = x
  <2> DEFINE First(i) == s[i] = x /\ \A j \in DOMAIN s : s[j] = x => i <= j
             n == CHOOSE i \in DOMAIN s : First(i)
  <2>1. \E i \in DOMAIN s : First(i)
    <3> DEFINE Hits == {i \in DOMAIN s : s[i] = x}
    <3>1. Hits \in SUBSET Nat /\ Hits # {}
      BY <1>1, <1>2
    <3>2. PICK i \in Hits : \A j \in Hits : i <= j
      BY <3>1, SmallestOfNatSet
    <3> QED
      BY <3>2
  <2>2. n \in DOMAIN s /\ s[n] = x
    BY <2>1
  <2>3. Purge(s, x) = DequeueAt(s, n)
    BY <1>2 DEF Purge, DequeueAt
  <2> HIDE DEF n, First
  <2>4. /\ DequeueAt(s, n) \in Seq(S)
        /\ \A j \in DOMAIN DequeueAt(s, n) :
              \E m \in DOMAIN s \ {n} : DequeueAt(s, n)[j] = s[m]
        /\ \A j, k \in DOMAIN DequeueAt(s, n) :
              j # k => \E m, r \in DOMAIN s \ {n} :
                         m # r /\ DequeueAt(s, n)[j] = s[m] /\ DequeueAt(s, n)[k] = s[r]
    BY <2>2, DequeueProperties
  <2> QED
    BY <2>2, <2>3, <2>4
<1>3. CASE ~ \E i \in DOMAIN s : s[i] = x
  BY <1>3 DEF Purge
<1> QED
  BY <1>2, <1>3

-----------------------------------------------------------------------------
(* Types, and where the cursor can stand. *)

\* curr_slot is what a turn of level curr_prio can have left: never 0 between
\* two calls, never more than the level's share.
CursorOK == curr_slot \in 1 .. MaxPrio - curr_prio

\* A process belongs to one of the levels of the MLQ.
LEMMA LevelType == ASSUME NEW p \in Proc PROVE Level(p) \in Levels
BY MlqAssumption DEF Level, Levels

\* After the last level comes the first.
LEMMA NextLevelType == ASSUME NEW l \in Levels PROVE NextLevel(l) \in Levels
BY MlqAssumption DEF NextLevel, Levels

\* The cursor stays among the levels however many it passes.
LEMMA LevelAfterType ==
  ASSUME curr_prio \in Levels, NEW k \in Levels PROVE LevelAfter(k) \in Levels
BY MlqAssumption DEF LevelAfter, Levels

\* A level's turn is at least one dispatch.
LEMMA FullTurnType ==
  ASSUME NEW l \in Levels PROVE FullTurn(l) \in 1 .. MaxPrio - l
BY MlqAssumption DEF FullTurn, Levels

TypeInv == SchedTypeOK /\ CursorOK

\* Types and cursor are right at first.
LEMMA InitTypeInv == SchedInit => TypeInv
<1> SUFFICES ASSUME SchedInit PROVE TypeInv
  OBVIOUS
<1>1. mlq_ready_queue \in [Levels -> Seq(Proc)] /\ running_list \in Seq(Proc)
  BY EmptySeq DEF SchedInit
<1> QED
  BY <1>1, MlqAssumption DEF SchedInit, TypeInv, SchedTypeOK, CursorOK, Levels

\* The cursor and the queues after a successful get_proc.
LEMMA GetServedTypeInv ==
  ASSUME TypeInv, NEW c \in CPU, GetServed(c), UNCHANGED <<loaded, finished>>
  PROVE  TypeInv'
<1> USE DEF TypeInv
<1>1. PICK k \in Levels : GetServed(c)!(k)
  BY DEF GetServed
<1> DEFINE l == LevelAfter(k)
<1>2. l \in Levels
  BY LevelAfterType DEF SchedTypeOK
<1>3. PICK i \in DOMAIN mlq_ready_queue[l] :
        /\ proc' = [proc EXCEPT ![c] = mlq_ready_queue[l][i]]
        /\ running_list' = Enqueue(running_list, mlq_ready_queue[l][i])
        /\ mlq_ready_queue' = [mlq_ready_queue EXCEPT ![l] = DequeueAt(@, i)]
        /\ curr_prio' = IF SlotAfter(k) = 1 THEN NextLevel(l) ELSE l
        /\ curr_slot' = IF SlotAfter(k) = 1 THEN FullTurn(NextLevel(l))
                                            ELSE SlotAfter(k) - 1
  BY <1>1
<1>4. SlotAfter(k) \in 1 .. MaxPrio - l
  <2>1. CASE k = 0
    <3>1. l = curr_prio
      BY <2>1, MlqAssumption DEF SchedTypeOK, Levels, LevelAfter
    <3> QED
      BY <2>1, <3>1 DEF CursorOK, SlotAfter
  <2>2. CASE k # 0
    BY <1>2, <2>2, FullTurnType DEF SlotAfter
  <2> QED
    BY <2>1, <2>2
<1> HIDE DEF l
<1>5. mlq_ready_queue[l] \in Seq(Proc)
  BY <1>2 DEF SchedTypeOK
<1>6. mlq_ready_queue[l][i] \in Proc
  BY <1>5, ElementOfSeq, LenProperties
<1>7. mlq_ready_queue' \in [Levels -> Seq(Proc)]
  BY <1>2, <1>3, <1>5, DequeueProperties DEF SchedTypeOK
<1>8. running_list' \in Seq(Proc)
  BY <1>3, <1>6, EnqueueProperties DEF SchedTypeOK
<1>9. proc' \in [CPU -> Proc \cup {NoProc}]
  BY <1>3, <1>6 DEF SchedTypeOK
<1>10. CASE SlotAfter(k) = 1
  <2>1. NextLevel(l) \in Levels
    BY <1>2, NextLevelType
  <2>2. FullTurn(NextLevel(l)) \in 1 .. MaxPrio - NextLevel(l)
    BY <2>1, FullTurnType
  <2> QED
    BY <1>3, <1>7, <1>8, <1>9, <1>10, <2>1, <2>2, MlqAssumption, SMTT(30)
    DEF SchedTypeOK, CursorOK, Levels
<1>11. CASE SlotAfter(k) # 1
  <2>1. SlotAfter(k) - 1 \in 1 .. MaxPrio - l
    BY <1>2, <1>4, <1>11, MlqAssumption DEF Levels
  <2> QED
    BY <1>2, <1>3, <1>7, <1>8, <1>9, <1>11, <2>1, MlqAssumption
    DEF SchedTypeOK, CursorOK, Levels
<1> QED
  BY <1>10, <1>11

\* No call of the scheduler disturbs the types or the cursor.
LEMMA NextTypeInv == TypeInv /\ [SchedNext]_schedVars => TypeInv'
<1> SUFFICES ASSUME TypeInv, [SchedNext]_schedVars PROVE TypeInv'
  OBVIOUS
<1> USE DEF TypeInv
<1>1. ASSUME NEW p \in Proc, AddProc(p) PROVE TypeInv'
  <2>1. Level(p) \in Levels
    BY LevelType
  <2>2. Enqueue(mlq_ready_queue[Level(p)], p) \in Seq(Proc)
    BY <2>1, EnqueueProperties DEF SchedTypeOK
  <2> QED
    BY <1>1, <2>1, <2>2 DEF AddProc, SchedTypeOK, CursorOK
<1>2. ASSUME NEW c \in CPU, GetProc(c) PROVE TypeInv'
  <2>1. CASE GetServed(c)
    BY <1>2, <2>1, GetServedTypeInv DEF GetProc
  <2>2. CASE GetNothing(c)
    <3>1. FullTurn(curr_prio) \in 1 .. MaxPrio - curr_prio
      BY FullTurnType DEF SchedTypeOK
    <3> QED
      BY <1>2, <2>2, <3>1, MlqAssumption
      DEF GetProc, GetNothing, SchedTypeOK, CursorOK, Levels
  <2> QED
    BY <1>2, <2>1, <2>2 DEF GetProc
<1>3. ASSUME NEW c \in CPU, PutProc(c) PROVE TypeInv'
  <2>1. proc[c] \in Proc /\ Level(proc[c]) \in Levels
    BY <1>3, LevelType DEF PutProc, SchedTypeOK
  <2>2. Enqueue(mlq_ready_queue[Level(proc[c])], proc[c]) \in Seq(Proc)
    BY <2>1, EnqueueProperties DEF SchedTypeOK
  <2>3. Purge(running_list, proc[c]) \in Seq(Proc)
    BY PurgeProperties DEF SchedTypeOK
  <2> QED
    BY <1>3, <2>1, <2>2, <2>3 DEF PutProc, SchedTypeOK, CursorOK
<1>4. ASSUME NEW c \in CPU, FinishProc(c) PROVE TypeInv'
  <2>1. Purge(running_list, proc[c]) \in Seq(Proc)
    BY PurgeProperties DEF SchedTypeOK
  <2> QED
    BY <1>4, <2>1 DEF FinishProc, SchedTypeOK, CursorOK
<1>5. CASE UNCHANGED schedVars
  BY <1>5 DEF schedVars, SchedTypeOK, CursorOK
<1> QED
  BY <1>1, <1>2, <1>3, <1>4, <1>5 DEF SchedNext

\* The scheduler's state keeps its types and the cursor its range.
THEOREM TypeCorrect == SchedSpec => []TypeInv
<1>1. SchedInit => TypeInv
  BY InitTypeInv
<1>2. TypeInv /\ [SchedNext]_schedVars => TypeInv'
  BY NextTypeInv
<1> QED
  BY <1>1, <1>2, PTL DEF SchedSpec

\* The type invariant by itself.
THEOREM AlwaysTypeOK == SchedSpec => []SchedTypeOK
<1>1. TypeInv => SchedTypeOK
  BY DEF TypeInv
<1> QED
  BY <1>1, TypeCorrect, PTL

-----------------------------------------------------------------------------
(* Work conservation. *)

\* Every level is looked at in one of the MAX_PRIO rounds.
LEMMA RoundReachesLevel ==
  ASSUME curr_prio \in Levels, NEW l \in Levels
  PROVE  \E k \in Levels : LevelAfter(k) = l
<1> DEFINE k == IF curr_prio <= l THEN l - curr_prio ELSE l - curr_prio + MaxPrio
<1>1. k \in Levels
  BY MlqAssumption DEF Levels
<1>2. LevelAfter(k) = l
  BY MlqAssumption DEF Levels, LevelAfter
<1> QED
  BY <1>1, <1>2

\* The loop of get_mlq_proc reaches every level with slots left.
LEMMA TypeInvConserves == TypeInv => WorkConserving
<1> SUFFICES ASSUME TypeInv, \A k \in Levels : ~Serves(k), NEW l \in Levels
             PROVE  mlq_ready_queue[l] = <<>>
  BY DEF WorkConserving, AllLevelsEmpty
<1>1. PICK k \in Levels : LevelAfter(k) = l
  BY RoundReachesLevel DEF TypeInv, SchedTypeOK
<1>2. SlotAfter(k) > 0
  <2>1. CASE k = 0
    BY <2>1, MlqAssumption DEF SlotAfter, TypeInv, SchedTypeOK, CursorOK, Levels
  <2>2. CASE k # 0
    BY <1>1, <2>2, FullTurnType, MlqAssumption DEF SlotAfter, Levels
  <2> QED
    BY <2>1, <2>2
<1> QED
  BY <1>1, <1>2 DEF Serves

\* get_mlq_proc returns NULL only when every ready queue is empty.
THEOREM AlwaysWorkConserving == SchedSpec => []WorkConserving
BY TypeInvConserves, TypeCorrect, PTL

-----------------------------------------------------------------------------
(* Who has a process. *)

DispatchInv == TypeInv /\ NoDoubleDispatch

\* add_proc: the new process was nowhere.
LEMMA AddProcKeepsPlaces ==
  ASSUME DispatchInv, TypeInv', NEW p \in Proc, AddProc(p)
  PROVE  NoDoubleDispatch'
<1> USE DEF DispatchInv, NoDoubleDispatch
<1> DEFINE l == Level(p)
           q == mlq_ready_queue[l]
<1>1. l \in Levels /\ q \in Seq(Proc)
  BY LevelType DEF TypeInv, SchedTypeOK
<1>2. mlq_ready_queue' = [mlq_ready_queue EXCEPT ![l] = Enqueue(q, p)]
  BY <1>1 DEF AddProc, TypeInv, SchedTypeOK
<1>3. \A j \in DOMAIN Enqueue(q, p) : \/ j \in DOMAIN q /\ Enqueue(q, p)[j] = q[j]
                                      \/ j = Len(q) + 1 /\ Enqueue(q, p)[j] = p
  BY <1>1, EnqueueProperties
<1>4. ~Queued(p) /\ ~Held(p)
  BY DEF AddProc, LiveOnly
<1> HIDE DEF l, q
<1>5. \A m \in Levels : \A j \in DOMAIN mlq_ready_queue'[m] :
        \/ j \in DOMAIN mlq_ready_queue[m] /\ mlq_ready_queue'[m][j] = mlq_ready_queue[m][j]
        \/ m = l /\ j = Len(q) + 1 /\ mlq_ready_queue'[m][j] = p
  BY <1>1, <1>2, <1>3 DEF TypeInv, SchedTypeOK, q
<1>6. HeldOnce'
  BY DEF AddProc, HeldOnce
<1>7. QueuedOnce'
  BY <1>4, <1>5 DEF QueuedOnce, Queued
<1>8. QueuedOrHeld'
  BY <1>4, <1>5 DEF QueuedOrHeld, Queued, Held, AddProc
<1>9. LiveOnly'
  BY <1>5 DEF LiveOnly, Queued, Held, AddProc
<1> QED
  BY <1>6, <1>7, <1>8, <1>9

\* get_proc: the process leaves its queue as it gets to the CPU.
LEMMA GetServedKeepsPlaces ==
  ASSUME DispatchInv, TypeInv', NEW c \in CPU, proc[c] = NoProc, GetServed(c),
         UNCHANGED <<loaded, finished>>
  PROVE  NoDoubleDispatch'
<1> USE DEF DispatchInv, NoDoubleDispatch
<1>1. PICK k \in Levels : GetServed(c)!(k)
  BY DEF GetServed
<1> DEFINE l == LevelAfter(k)
           q == mlq_ready_queue[l]
<1>2. l \in Levels /\ q \in Seq(Proc)
  BY LevelAfterType DEF TypeInv, SchedTypeOK
<1>3. PICK n \in DOMAIN q :
        /\ proc' = [proc EXCEPT ![c] = q[n]]
        /\ mlq_ready_queue' = [mlq_ready_queue EXCEPT ![l] = DequeueAt(q, n)]
  BY <1>1, <1>2 DEF TypeInv, SchedTypeOK
<1> HIDE DEF l, q
<1>4. /\ DequeueAt(q, n) \in Seq(Proc)
      /\ \A j \in DOMAIN DequeueAt(q, n) :
            \E m \in DOMAIN q \ {n} : DequeueAt(q, n)[j] = q[m]
      /\ \A i, j \in DOMAIN DequeueAt(q, n) :
            i # j => \E m, r \in DOMAIN q \ {n} :
                       m # r /\ DequeueAt(q, n)[i] = q[m] /\ DequeueAt(q, n)[j] = q[r]
  <2>1. q \in Seq(Proc) /\ n \in DOMAIN q
    BY <1>2, <1>3
  <2> QED
    BY ONLY <2>1, DequeueProperties
<1>5. q[n] \in Proc
  BY <1>2, <1>3, ElementOfSeq, LenProperties
<1>6. Queued(q[n])
  BY <1>2, <1>3 DEF Queued, q
<1>7. /\ mlq_ready_queue'[l] = DequeueAt(q, n)
      /\ \A m \in Levels \ {l} : mlq_ready_queue'[m] = mlq_ready_queue[m]
  BY <1>2, <1>3 DEF TypeInv, SchedTypeOK
<1> USE DEF q
<1>8. \A m \in Levels : \A j \in DOMAIN mlq_ready_queue'[m] :
        \E i \in DOMAIN mlq_ready_queue[m] :
          /\ mlq_ready_queue'[m][j] = mlq_ready_queue[m][i]
          /\ m = l => i # n
  BY <1>4, <1>7
<1>9. HeldOnce'
  <2>1. \A d \in CPU : proc[d] # q[n]
    BY <1>6 DEF QueuedOrHeld
  <2> QED
    BY <1>3, <2>1 DEF HeldOnce, TypeInv, SchedTypeOK
<1>10. QueuedOnce'
  <2>1. \A i, j \in DOMAIN mlq_ready_queue'[l] :
          mlq_ready_queue'[l][i] = mlq_ready_queue'[l][j] => i = j
    BY <1>2, <1>4, <1>7 DEF QueuedOnce
  <2>2. ASSUME NEW a \in Levels, NEW b \in Levels,
               NEW i \in DOMAIN mlq_ready_queue'[a], NEW j \in DOMAIN mlq_ready_queue'[b],
               mlq_ready_queue'[a][i] = mlq_ready_queue'[b][j]
        PROVE  a = b /\ i = j
    <3>1. a = b
      BY <1>8, <2>2 DEF QueuedOnce
    <3>2. CASE a = l
      BY <2>1, <2>2, <3>1, <3>2
    <3>3. CASE a # l
      BY <1>7, <2>2, <3>1, <3>3 DEF QueuedOnce
    <3> QED
      BY <3>1, <3>2, <3>3
  <2> QED
    BY <2>2 DEF QueuedOnce
<1>11. QueuedOrHeld'
  <2>1. \A d \in CPU : proc'[d] = IF d = c THEN q[n] ELSE proc[d]
    BY <1>3 DEF TypeInv, SchedTypeOK
  <2>2. ASSUME NEW m \in Levels, NEW j \in DOMAIN mlq_ready_queue'[m]
        PROVE  mlq_ready_queue'[m][j] # q[n]
    BY <1>2, <1>8 DEF QueuedOnce
  <2>3. ASSUME NEW d \in CPU, NEW m \in Levels, NEW j \in DOMAIN mlq_ready_queue'[m]
        PROVE  mlq_ready_queue'[m][j] # proc[d]
    BY <1>8 DEF QueuedOrHeld, Queued
  <2> QED
    BY <2>1, <2>2, <2>3 DEF QueuedOrHeld, Queued
<1>12. LiveOnly'
  <2>1. \A p : Queued(p)' => Queued(p)
    BY <1>8 DEF Queued
  <2>2. \A p : Held(p)' => Held(p) \/ p = q[n]
    BY <1>3 DEF Held, TypeInv, SchedTypeOK
  <2> QED
    BY <1>5, <1>6, <2>1, <2>2 DEF LiveOnly
<1> QED
  BY <1>9, <1>10, <1>11, <1>12

\* put_proc: the process leaves the CPU as it gets back to its queue.
LEMMA PutProcKeepsPlaces ==
  ASSUME DispatchInv, TypeInv', NEW c \in CPU, PutProc(c)
  PROVE  NoDoubleDispatch'
<1> USE DEF DispatchInv, NoDoubleDispatch
<1> DEFINE p == proc[c]
           l == Level(p)
           q == mlq_ready_queue[l]
<1>1. p \in Proc /\ l \in Levels /\ q \in Seq(Proc)
  BY LevelType DEF PutProc, TypeInv, SchedTypeOK
<1>2. mlq_ready_queue' = [mlq_ready_queue EXCEPT ![l] = Enqueue(q, p)]
  BY <1>1 DEF PutProc, TypeInv, SchedTypeOK
<1>3. \A j \in DOMAIN Enqueue(q, p) : \/ j \in DOMAIN q /\ Enqueue(q, p)[j] = q[j]
                                      \/ j = Len(q) + 1 /\ Enqueue(q, p)[j] = p
  BY <1>1, EnqueueProperties
<1>4. ~Queued(p) /\ Held(p)
  BY DEF QueuedOrHeld, Held
<1>5. \A d \in CPU : proc'[d] = IF d = c THEN NoProc ELSE proc[d]
  BY DEF PutProc, TypeInv, SchedTypeOK
<1>6. p # NoProc
  BY DEF PutProc
<1> HIDE DEF l, q
<1>7. \A m \in Levels : \A j \in DOMAIN mlq_ready_queue'[m] :
        \/ j \in DOMAIN mlq_ready_queue[m] /\ mlq_ready_queue'[m][j] = mlq_ready_queue[m][j]
        \/ m = l /\ j = Len(q) + 1 /\ mlq_ready_queue'[m][j] = p
  BY <1>1, <1>2, <1>3 DEF TypeInv, SchedTypeOK, q
<1>8. HeldOnce'
  BY <1>5 DEF HeldOnce
<1>9. QueuedOnce'
  BY <1>4, <1>7 DEF QueuedOnce, Queued
<1>10. QueuedOrHeld'
  <2>1. ASSUME NEW d \in CPU, NEW m \in Levels, NEW j \in DOMAIN mlq_ready_queue'[m]
        PROVE  mlq_ready_queue'[m][j] # proc'[d]
    <3>1. mlq_ready_queue'[m][j] \in Proc
      BY <2>1, ElementOfSeq, LenProperties DEF TypeInv, SchedTypeOK
    <3>2. CASE d = c
      BY <1>5, <3>1, <3>2, MlqAssumption
    <3>3. CASE d # c
      BY <1>5, <1>6, <1>7, <3>3 DEF HeldOnce, QueuedOrHeld, Queued
    <3> QED
      BY <3>2, <3>3
  <2> QED
    BY <2>1 DEF QueuedOrHeld, Queued
<1>11. LiveOnly'
  <2>1. \A x : Queued(x)' => Queued(x) \/ x = p
    BY <1>7 DEF Queued
  <2>2. \A x \in Proc : Held(x)' => Held(x)
    BY <1>5, MlqAssumption DEF Held
  <2> QED
    BY <1>1, <1>4, <2>1, <2>2 DEF LiveOnly, PutProc
<1> QED
  BY <1>8, <1>9, <1>10, <1>11

\* finish_proc: the process leaves the CPU for good.
LEMMA FinishProcKeepsPlaces ==
  ASSUME DispatchInv, TypeInv', NEW c \in CPU, FinishProc(c)
  PROVE  NoDoubleDispatch'
<1> USE DEF DispatchInv, NoDoubleDispatch
<1>1. \A d \in CPU : proc'[d] = IF d = c THEN NoProc ELSE proc[d]
  BY DEF FinishProc, TypeInv, SchedTypeOK
<1>2. proc[c] \in Proc /\ proc[c] # NoProc
  BY DEF FinishProc, TypeInv, SchedTypeOK
<1>3. mlq_ready_queue' = mlq_ready_queue /\ loaded' = loaded
      /\ finished' = finished \cup {proc[c]}
  BY DEF FinishProc
<1>4. HeldOnce' /\ QueuedOnce'
  BY <1>1, <1>3 DEF HeldOnce, QueuedOnce
<1>5. QueuedOrHeld'
  <2>1. ~Queued(NoProc)
    BY ElementOfSeq, LenProperties, MlqAssumption DEF Queued, TypeInv, SchedTypeOK
  <2> QED
    BY <1>1, <1>3, <2>1 DEF QueuedOrHeld, Queued
<1>6. LiveOnly'
  <2>1. Held(proc[c]) /\ ~Queued(proc[c])
    BY DEF Held, QueuedOrHeld
  <2>2. \A x \in Proc : Held(x)' => Held(x) /\ x # proc[c]
    BY <1>1, <1>2, MlqAssumption DEF Held, HeldOnce
  <2>3. \A x : Queued(x)' <=> Queued(x)
    BY <1>3 DEF Queued
  <2> QED
    BY <1>2, <1>3, <2>1, <2>2, <2>3 DEF LiveOnly
<1> QED
  BY <1>4, <1>5, <1>6

\* At first no process is queued or held.
LEMMA InitDispatchInv == SchedInit => DispatchInv
<1> SUFFICES ASSUME SchedInit PROVE NoDoubleDispatch
  BY InitTypeInv DEF DispatchInv
<1>1. \A l \in Levels : mlq_ready_queue[l] = <<>>
  BY DEF SchedInit
<1>2. DOMAIN <<>> = {}
  OBVIOUS
<1> QED
  BY <1>1, <1>2, MlqAssumption
  DEF SchedInit, NoDoubleDispatch, HeldOnce, QueuedOnce, QueuedOrHeld, LiveOnly,
      Queued, Held

\* No call of the scheduler puts a process in two places.
LEMMA NextDispatchInv == DispatchInv /\ [SchedNext]_schedVars => DispatchInv'
<1> SUFFICES ASSUME DispatchInv, [SchedNext]_schedVars PROVE NoDoubleDispatch'
  BY NextTypeInv DEF DispatchInv
<1>1. TypeInv'
  BY NextTypeInv DEF DispatchInv
<1>2. ASSUME NEW p \in Proc, AddProc(p) PROVE NoDoubleDispatch'
  BY <1>1, <1>2, AddProcKeepsPlaces
<1>3. ASSUME NEW c \in CPU, GetProc(c) PROVE NoDoubleDispatch'
  <2>1. CASE GetServed(c)
    BY <1>1, <1>3, <2>1, GetServedKeepsPlaces DEF GetProc
  <2>2. CASE GetNothing(c)
    BY <1>3, <2>2
    DEF GetProc, GetNothing, DispatchInv, NoDoubleDispatch, HeldOnce, QueuedOnce,
        QueuedOrHeld, LiveOnly, Queued, Held
  <2> QED
    BY <1>3, <2>1, <2>2 DEF GetProc
<1>4. ASSUME NEW c \in CPU, PutProc(c) PROVE NoDoubleDispatch'
  BY <1>1, <1>4, PutProcKeepsPlaces
<1>5. ASSUME NEW c \in CPU, FinishProc(c) PROVE NoDoubleDispatch'
  BY <1>1, <1>5, FinishProcKeepsPlaces
<1>6. CASE UNCHANGED schedVars
  BY <1>6 DEF schedVars, DispatchInv, NoDoubleDispatch, HeldOnce, QueuedOnce,
              QueuedOrHeld, LiveOnly, Queued, Held
<1> QED
  BY <1>2, <1>3, <1>4, <1>5, <1>6 DEF SchedNext

\* Whatever the order in which the loader and the CPUs take queue_lock, a
\* process is in one place: not yet loaded, once in one ready queue, held by one
\* CPU, dropped by a full queue, or finished.
THEOREM AlwaysNoDoubleDispatch == SchedSpec => []NoDoubleDispatch
<1>1. DispatchInv => NoDoubleDispatch
  BY DEF DispatchInv
<1> QED
  BY <1>1, InitDispatchInv, NextDispatchInv, PTL DEF SchedSpec

-----------------------------------------------------------------------------
(* The running list. *)

\* What keeps running_list free of dangling pointers: it names each process at
\* most once, so that the one entry purgequeue removes is the only one, and it
\* names only processes that a CPU holds.
ListInv ==
  /\ \A i, j \in DOMAIN running_list : running_list[i] = running_list[j] => i = j
  /\ \A i \in DOMAIN running_list : Held(running_list[i])

PlaceInv == DispatchInv /\ ListInv

\* get_proc: the process was queued, so no CPU held it and no entry names it.
LEMMA GetServedKeepsList ==
  ASSUME PlaceInv, DispatchInv', NEW c \in CPU, proc[c] = NoProc, GetServed(c)
  PROVE  ListInv'
<1> USE DEF PlaceInv, DispatchInv, TypeInv
<1>1. PICK k \in Levels : GetServed(c)!(k)
  BY DEF GetServed
<1> DEFINE l == LevelAfter(k)
<1>2. l \in Levels /\ mlq_ready_queue[l] \in Seq(Proc)
  BY LevelAfterType DEF SchedTypeOK
<1>3. PICK n \in DOMAIN mlq_ready_queue[l] :
        /\ proc' = [proc EXCEPT ![c] = mlq_ready_queue[l][n]]
        /\ running_list' = Enqueue(running_list, mlq_ready_queue[l][n])
  BY <1>1, <1>2 DEF SchedTypeOK
<1> DEFINE p == mlq_ready_queue[l][n]
<1>4. p \in Proc
  BY <1>2, ElementOfSeq, LenProperties
<1>5. Queued(p) /\ ~Held(p)
  BY <1>2 DEF Queued, Held, NoDoubleDispatch, QueuedOrHeld
<1> HIDE DEF l, p
<1>6. \A d \in CPU : proc'[d] = IF d = c THEN p ELSE proc[d]
  BY <1>3 DEF SchedTypeOK, p
<1>7. \A j \in DOMAIN running_list' :
        \/ j \in DOMAIN running_list /\ running_list'[j] = running_list[j]
        \/ j = Len(running_list) + 1 /\ running_list'[j] = p
  <2>1. running_list \in Seq(Proc) /\ running_list' = Enqueue(running_list, p)
    BY <1>3 DEF SchedTypeOK, p
  <2> QED
    BY ONLY <1>4, <2>1, EnqueueProperties
<1>8. \A x : x = p => Held(x)'
  BY <1>6 DEF Held
<1>9. \A x : Held(x) /\ x # NoProc => Held(x)'
  BY <1>6 DEF Held
<1>10. \A j \in DOMAIN running_list : running_list[j] # NoProc /\ running_list[j] # p
  BY <1>5, ElementOfSeq, LenProperties, MlqAssumption, SMTT(30) DEF SchedTypeOK, ListInv
<1>11. \A i, j \in DOMAIN running_list' : running_list'[i] = running_list'[j] => i = j
  BY <1>7, <1>10 DEF ListInv
<1>12. \A i \in DOMAIN running_list' : \A x : x = running_list'[i] => Held(x)'
  BY <1>7, <1>8, <1>9, <1>10 DEF ListInv
<1>13. \A i \in DOMAIN running_list' : Held(running_list[i])'
  BY <1>12 DEF Held
<1> QED
  BY <1>11, <1>13 DEF ListInv

\* put_proc and finish_proc: the CPU drops its process, and its entry goes.
LEMMA PurgeKeepsList ==
  ASSUME PlaceInv, NEW c \in CPU, proc[c] # NoProc,
         running_list' = Purge(running_list, proc[c]),
         proc' = [proc EXCEPT ![c] = NoProc]
  PROVE  ListInv'
<1> USE DEF PlaceInv, DispatchInv, TypeInv
<1>1. running_list \in Seq(Proc)
  BY DEF SchedTypeOK
<1>2. /\ \A j \in DOMAIN running_list' : \E m \in DOMAIN running_list :
           running_list'[j] = running_list[m]
      /\ \A i, j \in DOMAIN running_list' : running_list'[i] = running_list'[j] => i = j
      /\ \A j \in DOMAIN running_list' : running_list'[j] # proc[c]
  BY <1>1, PurgeProperties DEF ListInv
<1>3. \A x : Held(x) /\ x # proc[c] => Held(x)'
  BY DEF Held, SchedTypeOK
<1> QED
  BY <1>2, <1>3 DEF ListInv

\* At first running_list is empty.
LEMMA InitPlaceInv == SchedInit => PlaceInv
<1>1. DOMAIN <<>> = {}
  OBVIOUS
<1> QED
  BY <1>1, InitDispatchInv DEF SchedInit, PlaceInv, ListInv

\* No call of the scheduler leaves a stale or a double entry in running_list.
LEMMA NextPlaceInv == PlaceInv /\ [SchedNext]_schedVars => PlaceInv'
<1> SUFFICES ASSUME PlaceInv, [SchedNext]_schedVars PROVE ListInv'
  BY NextDispatchInv DEF PlaceInv
<1>1. DispatchInv'
  BY NextDispatchInv DEF PlaceInv
<1>2. ASSUME NEW p \in Proc, AddProc(p) PROVE ListInv'
  BY <1>2 DEF AddProc, PlaceInv, ListInv, Held
<1>3. ASSUME NEW c \in CPU, GetProc(c) PROVE ListInv'
  <2>1. CASE GetServed(c)
    BY <1>1, <1>3, <2>1, GetServedKeepsList DEF GetProc
  <2>2. CASE GetNothing(c)
    BY <2>2 DEF GetNothing, PlaceInv, ListInv, Held
  <2> QED
    BY <1>3, <2>1, <2>2 DEF GetProc
<1>4. ASSUME NEW c \in CPU, PutProc(c) PROVE ListInv'
  BY <1>4, PurgeKeepsList DEF PutProc
<1>5. ASSUME NEW c \in CPU, FinishProc(c) PROVE ListInv'
  BY <1>5, PurgeKeepsList DEF FinishProc
<1>6. CASE UNCHANGED schedVars
  BY <1>6 DEF schedVars, PlaceInv, ListInv, Held
<1> QED
  BY <1>2, <1>3, <1>4, <1>5, <1>6 DEF SchedNext

\* A PCB that finish_proc took out and cpu_routine freed is in no ready queue
\* and not in the running list that system calls walk, also when there are
\* more CPUs than running_list has entries.
THEOREM AlwaysNoStalePointer == SchedSpec => []NoStalePointer
<1>1. PlaceInv => NoStalePointer
  BY DEF PlaceInv, DispatchInv, TypeInv, SchedTypeOK, NoDoubleDispatch, LiveOnly,
         ListInv, NoStalePointer
<1> QED
  BY <1>1, InitPlaceInv, NextPlaceInv, PTL DEF SchedSpec

-----------------------------------------------------------------------------
(* Nobody is lost. *)

\* enqueue() keeps what is there, and takes x unless the queue is full.
LEMMA EnqueueKeeps ==
  ASSUME NEW S, NEW s \in Seq(S), NEW x \in S
  PROVE  /\ \A j \in DOMAIN s : \E i \in DOMAIN Enqueue(s, x) : Enqueue(s, x)[i] = s[j]
         /\ Len(s) < MaxQueueSize
              => \E i \in DOMAIN Enqueue(s, x) : Enqueue(s, x)[i] = x
<1>1. DOMAIN s = 1 .. Len(s) /\ Len(s) \in Nat
  BY LenProperties
<1>2. CASE Len(s) < MaxQueueSize
  <2>1. /\ Append(s, x) \in Seq(S)
        /\ Len(Append(s, x)) = Len(s) + 1
        /\ \A j \in 1 .. Len(s) : Append(s, x)[j] = s[j]
        /\ Append(s, x)[Len(s) + 1] = x
    BY AppendProperties
  <2>2. DOMAIN Append(s, x) = 1 .. Len(s) + 1
    BY <2>1, LenProperties
  <2>3. Enqueue(s, x) = Append(s, x)
    BY <1>2 DEF Enqueue
  <2>4. Len(s) + 1 \in 1 .. Len(s) + 1 /\ \A j \in 1 .. Len(s) : j \in 1 .. Len(s) + 1
    BY <1>1
  <2> QED
    BY <1>1, <2>1, <2>2, <2>3, <2>4
<1>3. CASE ~(Len(s) < MaxQueueSize)
  BY <1>3 DEF Enqueue
<1> QED
  BY <1>2, <1>3

\* dequeue() keeps every entry but the one it takes.
LEMMA DequeueKeeps ==
  ASSUME NEW S, NEW s \in Seq(S), NEW n \in DOMAIN s, NEW j \in DOMAIN s, j # n
  PROVE  \E i \in DOMAIN DequeueAt(s, n) : DequeueAt(s, n)[i] = s[j]
<1> DEFINE d == DequeueAt(s, n)
<1>1. DOMAIN s = 1 .. Len(s) /\ Len(s) \in Nat
  BY LenProperties
<1>2. /\ d \in Seq(S)
      /\ Len(d) = Len(s) - 1
      /\ \A k \in 1 .. Len(s) - 1 : d[k] = IF k < n THEN s[k] ELSE s[k + 1]
  BY <1>1, RemoveAtProperties DEF DequeueAt
<1> HIDE DEF d
<1>3. DOMAIN d = 1 .. Len(s) - 1
  BY <1>2, LenProperties
<1>4. CASE j < n
  BY <1>1, <1>2, <1>3, <1>4 DEF d
<1>5. CASE j > n
  <2>1. j - 1 \in 1 .. Len(s) - 1 /\ ~(j - 1 < n) /\ (j - 1) + 1 = j
    BY <1>1, <1>5
  <2> QED
    BY <1>2, <1>3, <2>1 DEF d
<1> QED
  BY <1>1, <1>4, <1>5

\* A process that goes into its level's queue is lost only if that is full,
\* and nobody else is.
LEMMA EnqueueLoses ==
  ASSUME TypeInv, NEW x \in Proc,
         mlq_ready_queue' = [mlq_ready_queue EXCEPT ![Level(x)] = Enqueue(@, x)]
  PROVE  /\ \A p \in Proc : Queued(p) => Queued(p)'
         /\ Len(mlq_ready_queue[Level(x)]) < MaxQueueSize => Queued(x)'
<1> DEFINE l == Level(x)
           q == mlq_ready_queue[l]
<1>1. l \in Levels /\ q \in Seq(Proc)
  BY LevelType DEF TypeInv, SchedTypeOK
<1>2. /\ mlq_ready_queue'[l] = Enqueue(q, x)
      /\ \A m \in Levels \ {l} : mlq_ready_queue'[m] = mlq_ready_queue[m]
  BY <1>1 DEF TypeInv, SchedTypeOK
<1> HIDE DEF l, q
<1>3. /\ \A j \in DOMAIN q : \E i \in DOMAIN Enqueue(q, x) : Enqueue(q, x)[i] = q[j]
      /\ Len(q) < MaxQueueSize => \E i \in DOMAIN Enqueue(q, x) : Enqueue(q, x)[i] = x
  BY ONLY <1>1, EnqueueKeeps
<1>4. ASSUME NEW p \in Proc, Queued(p) PROVE Queued(p)'
  BY <1>1, <1>2, <1>3, <1>4 DEF Queued, q
<1>5. Len(q) < MaxQueueSize => Queued(x)'
  BY <1>1, <1>2, <1>3 DEF Queued
<1> QED
  BY <1>4, <1>5 DEF l, q

\* get_proc loses nobody: what it takes out of a queue it gives to the CPU.
LEMMA GetServedKeepsAll ==
  ASSUME TypeInv, NEW c \in CPU, proc[c] = NoProc, GetServed(c),
         NEW p \in Proc, Known(p)
  PROVE  Known(p)'
<1>1. PICK k \in Levels : GetServed(c)!(k)
  BY DEF GetServed
<1> DEFINE l == LevelAfter(k)
           q == mlq_ready_queue[l]
<1>2. l \in Levels /\ q \in Seq(Proc)
  BY LevelAfterType DEF TypeInv, SchedTypeOK
<1>3. PICK n \in DOMAIN q :
        /\ proc' = [proc EXCEPT ![c] = q[n]]
        /\ mlq_ready_queue' = [mlq_ready_queue EXCEPT ![l] = DequeueAt(q, n)]
  BY <1>1, <1>2 DEF TypeInv, SchedTypeOK
<1>4. /\ mlq_ready_queue'[l] = DequeueAt(q, n)
      /\ \A m \in Levels \ {l} : mlq_ready_queue'[m] = mlq_ready_queue[m]
  BY <1>2, <1>3 DEF TypeInv, SchedTypeOK
<1>5. \A d \in CPU : proc'[d] = IF d = c THEN q[n] ELSE proc[d]
  BY <1>3 DEF TypeInv, SchedTypeOK
<1> HIDE DEF l, q
<1>6. \A j \in DOMAIN q : j # n =>
        \E i \in DOMAIN DequeueAt(q, n) : DequeueAt(q, n)[i] = q[j]
  BY ONLY <1>2, n \in DOMAIN q, DequeueKeeps
<1>7. CASE Held(p)
  <2>1. p # NoProc
    BY MlqAssumption
  <2> QED
    BY <1>5, <1>7, <2>1 DEF Known, Held
<1>8. CASE Queued(p)
  <2>1. PICK m \in Levels : \E j \in DOMAIN mlq_ready_queue[m] : mlq_ready_queue[m][j] = p
    BY <1>8 DEF Queued
  <2>2. PICK j \in DOMAIN mlq_ready_queue[m] : mlq_ready_queue[m][j] = p
    BY <2>1
  <2>3. CASE m # l
    BY <1>4, <2>2, <2>3 DEF Known, Queued
  <2>4. CASE m = l /\ j # n
    BY <1>2, <1>4, <1>6, <2>2, <2>4 DEF Known, Queued, q
  <2>5. CASE m = l /\ j = n
    BY <1>5, <2>2, <2>5 DEF Known, Held, q
  <2> QED
    BY <2>3, <2>4, <2>5
<1> QED
  BY <1>7, <1>8 DEF Known

\* The scheduler forgets a process only where the loader or the CPU that held it
\* hands it in and enqueue finds its level full; get_proc and finish_proc forget
\* nobody but the process that has finished.
THEOREM AlwaysLostOnlyWhenFull == SchedSpec => LostOnlyWhenFull
<1> DEFINE A == \A p \in Proc : Keeps(p)
<1>1. ASSUME TypeInv, [SchedNext]_schedVars PROVE [A]_schedVars
  <2> SUFFICES ASSUME SchedNext, NEW p \in Proc,
                      Known(p) \/ p \in loaded' \ loaded, p \notin finished',
                      ~(HandsIn(p) /\ Len(mlq_ready_queue[Level(p)]) >= MaxQueueSize)
               PROVE  Known(p)'
    BY <1>1 DEF Keeps
  <2>0. HandsIn(p) => Len(mlq_ready_queue[Level(p)]) < MaxQueueSize
    <3>1. Len(mlq_ready_queue[Level(p)]) \in Nat
      BY <1>1, LevelType, LenProperties DEF TypeInv, SchedTypeOK
    <3> QED
      BY <3>1, QueueAssumption
  <2>1. ASSUME NEW x \in Proc, AddProc(x) PROVE Known(p)'
    <3>1. Held(p) => Held(p)'
      BY <2>1 DEF AddProc, Held
    <3>2. /\ Queued(p) => Queued(p)'
          /\ Len(mlq_ready_queue[Level(x)]) < MaxQueueSize => Queued(x)'
      BY <1>1, <2>1, EnqueueLoses DEF AddProc
    <3>3. CASE p \in loaded' \ loaded
      BY <2>0, <2>1, <3>2, <3>3 DEF AddProc, HandsIn, Known
    <3> QED
      BY <3>1, <3>2, <3>3 DEF Known
  <2>2. ASSUME NEW c \in CPU, GetProc(c) PROVE Known(p)'
    <3>1. Known(p)
      BY <2>2 DEF GetProc
    <3>2. CASE GetServed(c)
      BY <1>1, <2>2, <3>1, <3>2, GetServedKeepsAll DEF GetProc
    <3>3. CASE GetNothing(c)
      BY <3>1, <3>3 DEF GetNothing, Known, Queued, Held
    <3> QED
      BY <2>2, <3>2, <3>3 DEF GetProc
  <2>3. ASSUME NEW c \in CPU, PutProc(c) PROVE Known(p)'
    <3>1. PICK x \in Proc : x = proc[c]
      BY <1>1, <2>3 DEF PutProc, TypeInv, SchedTypeOK
    <3>2. /\ Queued(p) => Queued(p)'
          /\ Len(mlq_ready_queue[Level(x)]) < MaxQueueSize => Queued(x)'
      <4>1. mlq_ready_queue' = [mlq_ready_queue EXCEPT ![Level(x)] = Enqueue(@, x)]
        BY <2>3, <3>1 DEF PutProc
      <4> QED
        BY <1>1, <4>1, EnqueueLoses
    <3>3. CASE p = x
      <4>1. proc'[c] = NoProc /\ proc[c] # NoProc
        BY <1>1, <2>3 DEF PutProc, TypeInv, SchedTypeOK
      <4>2. HandsIn(p)
        BY <3>1, <3>3, <4>1 DEF HandsIn
      <4>3. Queued(x)'
        BY <2>0, <3>2, <3>3, <4>2
      <4> QED
        BY <3>3, <4>3 DEF Known
    <3>4. Known(p) /\ (Held(p) /\ p # x => Held(p)')
      BY <1>1, <2>3, <3>1 DEF PutProc, Held, TypeInv, SchedTypeOK
    <3> QED
      BY <3>2, <3>3, <3>4 DEF Known
  <2>4. ASSUME NEW c \in CPU, FinishProc(c) PROVE Known(p)'
    <3>1. Known(p) /\ p # proc[c]
      BY <2>4 DEF FinishProc
    <3>2. Held(p) => Held(p)'
      BY <1>1, <2>4, <3>1 DEF FinishProc, Held, TypeInv, SchedTypeOK
    <3>3. Queued(p) => Queued(p)'
      BY <2>4 DEF FinishProc, Queued
    <3> QED
      BY <3>1, <3>2, <3>3 DEF Known
  <2> QED
    BY <2>1, <2>2, <2>3, <2>4 DEF SchedNext
<1> QED
  BY <1>1, TypeCorrect, PTL DEF SchedSpec, LostOnlyWhenFull

-----------------------------------------------------------------------------
(* The running list names every process that is held. *)

\* purgequeue() keeps every process but the one it is asked to remove.
LEMMA PurgeKeeps ==
  ASSUME NEW S, NEW s \in Seq(S), NEW x, NEW j \in DOMAIN s, s[j] # x
  PROVE  \E i \in DOMAIN Purge(s, x) : Purge(s, x)[i] = s[j]
<1>1. CASE \E i \in DOMAIN s : s[i] = x
  <2> DEFINE First(i) == s[i] = x /\ \A k \in DOMAIN s : s[k] = x => i <= k
             n == CHOOSE i \in DOMAIN s : First(i)
  <2>1. \E i \in DOMAIN s : First(i)
    <3> DEFINE Hits == {i \in DOMAIN s : s[i] = x}
    <3>1. Hits \in SUBSET Nat /\ Hits # {}
      BY <1>1, LenProperties
    <3>2. PICK i \in Hits : \A k \in Hits : i <= k
      BY <3>1, SmallestOfNatSet
    <3> QED
      BY <3>2
  <2>2. n \in DOMAIN s /\ s[n] = x
    BY <2>1
  <2>3. Purge(s, x) = DequeueAt(s, n)
    BY <1>1 DEF Purge, DequeueAt
  <2> HIDE DEF n, First
  <2> QED
    BY <2>2, <2>3, DequeueKeeps
<1>2. CASE ~ \E i \in DOMAIN s : s[i] = x
  BY <1>2 DEF Purge
<1> QED
  BY <1>1, <1>2

AllListed == \A c \in CPU : proc[c] # NoProc =>
  \E i \in DOMAIN running_list : running_list[i] = proc[c]

FitsCPUs == IsFiniteSet(CPU) /\ Cardinality(CPU) <= MaxQueueSize

\* A CPU that asks for a process holds none, so the list, with one entry for
\* each process that the others hold, has room.
LEMMA RunningListHasRoom ==
  ASSUME FitsCPUs, PlaceInv, NEW c \in CPU, proc[c] = NoProc
  PROVE  Len(running_list) < MaxQueueSize
<1>1. /\ running_list \in Seq(Proc) /\ Len(running_list) \in Nat
      /\ DOMAIN running_list = 1 .. Len(running_list)
      /\ \A i \in DOMAIN running_list : running_list[i] \in Proc
  BY ElementOfSeq, LenProperties DEF PlaceInv, DispatchInv, TypeInv, SchedTypeOK
<1> DEFINE D == DOMAIN running_list
           Others == CPU \ {c}
           holder == [i \in D |-> CHOOSE d \in CPU : proc[d] = running_list[i]]
<1>2. ASSUME NEW i \in D PROVE holder[i] \in Others /\ proc[holder[i]] = running_list[i]
  <2>1. \E d \in CPU : proc[d] = running_list[i]
    BY DEF PlaceInv, ListInv, Held
  <2>2. holder[i] \in CPU /\ proc[holder[i]] = running_list[i]
    BY <2>1
  <2>3. running_list[i] # NoProc
    BY <1>1, MlqAssumption
  <2> QED
    BY <2>2, <2>3
<1>3. holder \in Injection(D, Others)
  <2>1. holder \in [D -> Others]
    BY <1>2
  <2>2. \A i, j \in D : holder[i] = holder[j] => i = j
    BY <1>2 DEF PlaceInv, ListInv
  <2> QED
    BY <2>1, <2>2 DEF Injection, IsInjective
<1> HIDE DEF holder
<1>4. /\ IsFiniteSet(Others) /\ Cardinality(Others) = Cardinality(CPU) - 1
      /\ Cardinality(CPU) \in Nat
  BY FS_RemoveElement, FS_CardinalityType DEF FitsCPUs
<1>5. Cardinality(D) <= Cardinality(Others)
  BY <1>3, <1>4, FS_Injection
<1>6. Cardinality(1 .. Len(running_list)) = Len(running_list)
  <2>1. 1 \in Int /\ Len(running_list) \in Int
    BY <1>1
  <2>2. Cardinality(1 .. Len(running_list))
          = IF 1 > Len(running_list) THEN 0 ELSE Len(running_list) - 1 + 1
    BY <2>1, FS_Interval
  <2> QED
    BY <1>1, <2>2
<1> HIDE DEF Others
<1>7. Len(running_list) <= Cardinality(CPU) - 1
  BY <1>1, <1>4, <1>5, <1>6
<1>8. Cardinality(CPU) <= MaxQueueSize
  BY DEF FitsCPUs
<1> QED
  BY <1>1, <1>4, <1>7, <1>8, QueueAssumption

\* get_proc lists the process it returns, as the list has room for it.
LEMMA GetServedLists ==
  ASSUME FitsCPUs, PlaceInv, AllListed, NEW c \in CPU, proc[c] = NoProc, GetServed(c)
  PROVE  AllListed'
<1>1. PICK k \in Levels : GetServed(c)!(k)
  BY DEF GetServed
<1> DEFINE l == LevelAfter(k)
<1>2. l \in Levels /\ mlq_ready_queue[l] \in Seq(Proc)
  BY LevelAfterType DEF PlaceInv, DispatchInv, TypeInv, SchedTypeOK
<1>3. PICK n \in DOMAIN mlq_ready_queue[l] :
        /\ proc' = [proc EXCEPT ![c] = mlq_ready_queue[l][n]]
        /\ running_list' = Enqueue(running_list, mlq_ready_queue[l][n])
  BY <1>1, <1>2 DEF SchedTypeOK
<1> DEFINE p == mlq_ready_queue[l][n]
<1>4. p \in Proc
  BY <1>2, ElementOfSeq, LenProperties
<1> HIDE DEF l
<1>5. running_list' = Enqueue(running_list, p)
  BY <1>3
<1>6. \A d \in CPU : proc'[d] = IF d = c THEN p ELSE proc[d]
  BY <1>3 DEF PlaceInv, DispatchInv, TypeInv, SchedTypeOK
<1> HIDE DEF p
<1>7. running_list \in Seq(Proc)
  BY DEF PlaceInv, DispatchInv, TypeInv, SchedTypeOK
<1>8. Len(running_list) < MaxQueueSize
  BY RunningListHasRoom
<1>9. /\ \A j \in DOMAIN running_list : \E i \in DOMAIN running_list' :
           running_list'[i] = running_list[j]
      /\ \E i \in DOMAIN running_list' : running_list'[i] = p
  BY ONLY <1>4, <1>5, <1>7, <1>8, EnqueueKeeps
<1> QED
  BY <1>6, <1>9 DEF AllListed

\* Purging the entry of one CPU's process leaves those of the others.
LEMMA PurgeLists ==
  ASSUME PlaceInv, AllListed, NEW c \in CPU, proc[c] # NoProc,
         running_list' = Purge(running_list, proc[c]),
         proc' = [proc EXCEPT ![c] = NoProc]
  PROVE  AllListed'
<1> SUFFICES ASSUME NEW d \in CPU, proc'[d] # NoProc
             PROVE  \E i \in DOMAIN running_list' : running_list'[i] = proc'[d]
  BY DEF AllListed
<1>1. running_list \in Seq(Proc) /\ proc \in [CPU -> Proc \cup {NoProc}]
  BY DEF PlaceInv, DispatchInv, TypeInv, SchedTypeOK
<1>2. proc'[d] = proc[d] /\ d # c
  BY <1>1
<1>3. proc[d] # proc[c]
  BY <1>2 DEF PlaceInv, DispatchInv, NoDoubleDispatch, HeldOnce
<1>4. PICK j \in DOMAIN running_list : running_list[j] = proc[d]
  BY <1>2 DEF AllListed
<1> QED
  BY <1>1, <1>2, <1>3, <1>4, PurgeKeeps

\* No call of the scheduler leaves a held process out of running_list.
LEMMA NextAllListed ==
  ASSUME FitsCPUs, PlaceInv, AllListed, [SchedNext]_schedVars
  PROVE  AllListed'
<1>1. ASSUME NEW p \in Proc, AddProc(p) PROVE AllListed'
  BY <1>1 DEF AddProc, AllListed
<1>2. ASSUME NEW c \in CPU, GetProc(c) PROVE AllListed'
  <2>1. CASE GetServed(c)
    BY <1>2, <2>1, GetServedLists DEF GetProc
  <2>2. CASE GetNothing(c)
    BY <2>2 DEF GetNothing, AllListed
  <2> QED
    BY <1>2, <2>1, <2>2 DEF GetProc
<1>3. ASSUME NEW c \in CPU, PutProc(c) PROVE AllListed'
  BY <1>3, PurgeLists DEF PutProc
<1>4. ASSUME NEW c \in CPU, FinishProc(c) PROVE AllListed'
  BY <1>4, PurgeLists DEF FinishProc
<1>5. CASE UNCHANGED schedVars
  BY <1>5 DEF schedVars, AllListed
<1> QED
  BY <1>1, <1>2, <1>3, <1>4, <1>5 DEF SchedNext

\* The running list that system calls search is exactly what the CPUs hold, if
\* there are no more CPUs than it has entries.
THEOREM AlwaysRunningListExact == FitsCPUs => (SchedSpec => []RunningListExact)
<1> SUFFICES ASSUME FitsCPUs PROVE SchedSpec => []RunningListExact
  OBVIOUS
<1>1. SchedInit => AllListed
  BY DEF SchedInit, AllListed
<1>2. PlaceInv /\ AllListed /\ [SchedNext]_schedVars => AllListed'
  BY NextAllListed
<1>3. PlaceInv /\ AllListed => RunningListExact
  <2> SUFFICES ASSUME PlaceInv, AllListed
               PROVE  {running_list[i] : i \in DOMAIN running_list}
                        = {proc[c] : c \in CPU} \ {NoProc}
    BY DEF PlaceInv, ListInv, RunningListExact
  <2>1. \A i \in DOMAIN running_list : running_list[i] # NoProc
    BY ElementOfSeq, LenProperties, MlqAssumption
       DEF PlaceInv, DispatchInv, TypeInv, SchedTypeOK
  <2> QED
    BY <2>1 DEF AllListed, PlaceInv, ListInv, Held
<1> QED
  BY <1>1, <1>2, <1>3, InitPlaceInv, NextPlaceInv, PTL DEF SchedSpec

-----------------------------------------------------------------------------
(* Nobody is lost where the queues have room. *)

OnLevel(l) == {p \in Proc : Level(p) = l}

\* No level has more processes than its queue has entries.
FitsQueues == \A l \in Levels :
  IsFiniteSet(OnLevel(l)) /\ Cardinality(OnLevel(l)) <= MaxQueueSize

OwnLevel == \A l \in Levels : \A k \in DOMAIN mlq_ready_queue[l] :
  Level(mlq_ready_queue[l][k]) = l

NoneLost == \A p \in loaded \ finished : Known(p)

\* A process that is not queued has the room that its level keeps for it.
LEMMA QueueHasRoom ==
  ASSUME FitsQueues, DispatchInv, OwnLevel, NEW p \in Proc, ~Queued(p)
  PROVE  Len(mlq_ready_queue[Level(p)]) < MaxQueueSize
<1> DEFINE l == Level(p)
           q == mlq_ready_queue[l]
           D == 1 .. Len(q)
           Others == OnLevel(l) \ {p}
           f == [k \in D |-> q[k]]
<1>1. l \in Levels /\ q \in Seq(Proc) /\ Len(q) \in Nat /\ DOMAIN q = D
  BY LevelType, LenProperties DEF DispatchInv, TypeInv, SchedTypeOK
<1>2. \A k \in D : q[k] \in Others
  <2>1. \A k \in D : q[k] \in Proc /\ Level(q[k]) = l
    BY <1>1, ElementOfSeq DEF OwnLevel
  <2>2. \A k \in D : q[k] # p
    BY <1>1 DEF Queued
  <2> QED
    BY <2>1, <2>2 DEF OnLevel
<1>3. \A j, k \in D : q[j] = q[k] => j = k
  BY <1>1 DEF DispatchInv, NoDoubleDispatch, QueuedOnce
<1>4. p \in OnLevel(l)
  BY DEF OnLevel
<1>5. IsFiniteSet(OnLevel(l)) /\ Cardinality(OnLevel(l)) <= MaxQueueSize
  BY <1>1 DEF FitsQueues
<1>6. MaxQueueSize \in Nat
  BY QueueAssumption
<1> HIDE DEF q, l
<1>7. f \in Injection(D, Others)
  BY <1>2, <1>3 DEF Injection, IsInjective
<1>8. /\ IsFiniteSet(Others) /\ Cardinality(Others) = Cardinality(OnLevel(l)) - 1
      /\ Cardinality(OnLevel(l)) \in Nat
  BY <1>4, <1>5, FS_RemoveElement, FS_CardinalityType
<1> HIDE DEF Others, f
<1>9. Cardinality(D) <= Cardinality(Others)
  BY <1>7, <1>8, FS_Injection
<1>10. Cardinality(D) = Len(q)
  <2>1. 1 \in Int /\ Len(q) \in Int
    BY <1>1
  <2>2. Cardinality(1 .. Len(q)) = IF 1 > Len(q) THEN 0 ELSE Len(q) - 1 + 1
    BY <2>1, FS_Interval
  <2> QED
    BY <1>1, <2>2
<1> HIDE DEF D
<1>11. Len(q) < MaxQueueSize
  BY <1>1, <1>5, <1>6, <1>8, <1>9, <1>10
<1> QED
  BY <1>11 DEF q, l

\* enqueue() on a level that is the process's own.
LEMMA EnqueueOnLevel ==
  ASSUME TypeInv, OwnLevel, NEW x \in Proc,
         mlq_ready_queue' = [mlq_ready_queue EXCEPT ![Level(x)] = Enqueue(@, x)]
  PROVE  OwnLevel'
<1> DEFINE l == Level(x)
           q == mlq_ready_queue[l]
<1>1. l \in Levels /\ q \in Seq(Proc)
  BY LevelType DEF TypeInv, SchedTypeOK
<1>2. /\ mlq_ready_queue'[l] = Enqueue(q, x)
      /\ \A m \in Levels \ {l} : mlq_ready_queue'[m] = mlq_ready_queue[m]
  BY <1>1 DEF TypeInv, SchedTypeOK
<1>3. \A k \in DOMAIN q : Level(q[k]) = l
  BY <1>1 DEF OwnLevel
<1>4. Level(x) = l
  OBVIOUS
<1> HIDE DEF l, q
<1>5. \A j \in DOMAIN Enqueue(q, x) :
        \/ j \in DOMAIN q /\ Enqueue(q, x)[j] = q[j]
        \/ Enqueue(q, x)[j] = x
  BY ONLY <1>1, EnqueueProperties
<1> QED
  BY <1>1, <1>2, <1>3, <1>4, <1>5 DEF OwnLevel

\* get_proc takes processes from queues and moves none to another level.
LEMMA GetServedOnLevel ==
  ASSUME TypeInv, OwnLevel, NEW c \in CPU, GetServed(c)
  PROVE  OwnLevel'
<1>1. PICK k \in Levels : GetServed(c)!(k)
  BY DEF GetServed
<1> DEFINE l == LevelAfter(k)
           q == mlq_ready_queue[l]
<1>2. l \in Levels /\ q \in Seq(Proc)
  BY LevelAfterType DEF TypeInv, SchedTypeOK
<1>3. PICK n \in DOMAIN q : mlq_ready_queue' = [mlq_ready_queue EXCEPT ![l] = DequeueAt(@, n)]
  BY <1>1
<1>4. /\ mlq_ready_queue'[l] = DequeueAt(q, n)
      /\ \A m \in Levels \ {l} : mlq_ready_queue'[m] = mlq_ready_queue[m]
  BY <1>2, <1>3 DEF TypeInv, SchedTypeOK
<1>5. \A j \in DOMAIN q : Level(q[j]) = l
  BY <1>2 DEF OwnLevel
<1> HIDE DEF l, q
<1>6. \A j \in DOMAIN DequeueAt(q, n) : \E m \in DOMAIN q \ {n} : DequeueAt(q, n)[j] = q[m]
  BY ONLY <1>2, <1>3, DequeueProperties
<1> QED
  BY <1>2, <1>4, <1>5, <1>6 DEF OwnLevel

LoadInv == PlaceInv /\ OwnLevel /\ NoneLost

\* At first no process has been added, and so none is lost.
LEMMA InitLoadInv == SchedInit => LoadInv
<1> SUFFICES ASSUME SchedInit PROVE OwnLevel /\ NoneLost
  BY InitPlaceInv DEF LoadInv
<1>1. \A l \in Levels : mlq_ready_queue[l] = <<>>
  BY DEF SchedInit
<1>2. DOMAIN <<>> = {}
  OBVIOUS
<1> QED
  BY <1>1, <1>2 DEF SchedInit, OwnLevel, NoneLost

\* No call of the scheduler loses a process, as no queue overflows.
LEMMA NextLoadInv ==
  ASSUME FitsQueues, LoadInv, [SchedNext]_schedVars PROVE LoadInv'
<1> USE DEF LoadInv, PlaceInv, DispatchInv
<1>1. PlaceInv'
  BY NextPlaceInv
<1>2. ASSUME NEW x \in Proc, AddProc(x) PROVE OwnLevel' /\ NoneLost'
  <2>1. OwnLevel'
    BY <1>2, EnqueueOnLevel DEF AddProc
  <2>2. ~Queued(x)
    BY <1>2 DEF AddProc, NoDoubleDispatch, LiveOnly
  <2>3. Len(mlq_ready_queue[Level(x)]) < MaxQueueSize
    BY <2>2, QueueHasRoom
  <2>4. /\ \A p \in Proc : Queued(p) => Queued(p)'
        /\ Queued(x)'
    BY <1>2, <2>3, EnqueueLoses DEF AddProc
  <2>5. \A p : Held(p) => Held(p)'
    BY <1>2 DEF AddProc, Held
  <2>6. loaded \subseteq Proc
    BY DEF TypeInv, SchedTypeOK
  <2> QED
    BY <1>2, <2>1, <2>4, <2>5, <2>6 DEF AddProc, NoneLost, Known
<1>3. ASSUME NEW c \in CPU, GetProc(c) PROVE OwnLevel' /\ NoneLost'
  <2>1. loaded \subseteq Proc
    BY DEF TypeInv, SchedTypeOK
  <2>2. CASE GetServed(c)
    BY <1>3, <2>1, <2>2, GetServedOnLevel, GetServedKeepsAll DEF GetProc, NoneLost
  <2>3. CASE GetNothing(c)
    BY <1>3, <2>3 DEF GetProc, GetNothing, OwnLevel, NoneLost, Known, Queued, Held
  <2> QED
    BY <1>3, <2>2, <2>3 DEF GetProc
<1>4. ASSUME NEW c \in CPU, PutProc(c) PROVE OwnLevel' /\ NoneLost'
  <2>1. proc[c] \in Proc
    BY <1>4 DEF PutProc, TypeInv, SchedTypeOK
  <2>2. OwnLevel'
    BY <1>4, <2>1, EnqueueOnLevel DEF PutProc
  <2>3. ~Queued(proc[c])
    BY DEF NoDoubleDispatch, QueuedOrHeld
  <2>4. Len(mlq_ready_queue[Level(proc[c])]) < MaxQueueSize
    BY <2>1, <2>3, QueueHasRoom
  <2>5. \A p \in Proc : (Queued(p) => Queued(p)') /\ (p = proc[c] => Queued(p)')
    BY <1>4, <2>1, <2>4, EnqueueLoses DEF PutProc
  <2>6. \A p : Held(p) /\ p # proc[c] => Held(p)'
    BY <1>4 DEF PutProc, Held, TypeInv, SchedTypeOK
  <2>7. loaded \subseteq Proc
    BY DEF TypeInv, SchedTypeOK
  <2> QED
    BY <1>4, <2>2, <2>5, <2>6, <2>7 DEF PutProc, NoneLost, Known
<1>5. ASSUME NEW c \in CPU, FinishProc(c) PROVE OwnLevel' /\ NoneLost'
  <2>1. \A p : Held(p) /\ p # proc[c] => Held(p)'
    BY <1>5 DEF FinishProc, Held, TypeInv, SchedTypeOK
  <2> QED
    BY <1>5, <2>1 DEF FinishProc, OwnLevel, NoneLost, Known, Queued
<1>6. ASSUME UNCHANGED schedVars PROVE OwnLevel' /\ NoneLost'
  BY <1>6 DEF schedVars, OwnLevel, NoneLost, Known, Queued, Held
<1>7. OwnLevel' /\ NoneLost'
  <2> HIDE DEF LoadInv, PlaceInv, DispatchInv
  <2> QED
    BY <1>2, <1>3, <1>4, <1>5, <1>6 DEF SchedNext
<1> QED
  BY <1>1, <1>7

-----------------------------------------------------------------------------
(* When a level is served in turn. *)

\* The programs of a level have the same default priority.
EvenPriorities ==
  \A p, q \in Proc : Level(p) = Level(q) => Priority[p] = Priority[q]

\* Processes stay on their own level whatever call is made.
LEMMA NextOwnLevel == TypeInv /\ OwnLevel /\ [SchedNext]_schedVars => OwnLevel'
<1> SUFFICES ASSUME TypeInv, OwnLevel, [SchedNext]_schedVars PROVE OwnLevel'
  OBVIOUS
<1>1. ASSUME NEW p \in Proc, AddProc(p) PROVE OwnLevel'
  BY <1>1, EnqueueOnLevel DEF AddProc
<1>2. ASSUME NEW c \in CPU, GetProc(c) PROVE OwnLevel'
  BY <1>2, GetServedOnLevel DEF GetProc, GetNothing, OwnLevel
<1>3. ASSUME NEW c \in CPU, PutProc(c) PROVE OwnLevel'
  <2>1. proc[c] \in Proc
    BY <1>3 DEF PutProc, TypeInv, SchedTypeOK
  <2> QED
    BY <1>3, <2>1, EnqueueOnLevel DEF PutProc
<1>4. ASSUME NEW c \in CPU, FinishProc(c) PROVE OwnLevel'
  BY <1>4 DEF FinishProc, OwnLevel
<1>5. CASE UNCHANGED schedVars
  BY <1>5 DEF schedVars, OwnLevel
<1> QED
  BY <1>1, <1>2, <1>3, <1>4, <1>5 DEF SchedNext

\* Taking the first entry out leaves the others in their order.
LEMMA DequeueFirst ==
  ASSUME NEW S, NEW s \in Seq(S), 1 \in DOMAIN s
  PROVE  DequeueAt(s, 1) = Tail(s)
<1>1. DOMAIN s = 1 .. Len(s) /\ Len(s) \in Nat
  BY LenProperties
<1>2. 1 \in 1 .. Len(s) /\ s # <<>>
  BY <1>1
<1>3. /\ DequeueAt(s, 1) \in Seq(S)
      /\ Len(DequeueAt(s, 1)) = Len(s) - 1
      /\ \A j \in 1 .. Len(s) - 1 : DequeueAt(s, 1)[j] = s[j + 1]
  <2> DEFINE d == RemoveAt(s, 1)
  <2>1. /\ d \in Seq(S) /\ Len(d) = Len(s) - 1
        /\ \A j \in 1 .. Len(s) - 1 : d[j] = IF j < 1 THEN s[j] ELSE s[j + 1]
    BY <1>2, RemoveAtProperties
  <2> HIDE DEF d
  <2>2. \A j \in 1 .. Len(s) - 1 : ~(j < 1)
    BY <1>1
  <2>3. d = DequeueAt(s, 1)
    BY DEF d, DequeueAt
  <2> QED
    BY <2>1, <2>2, <2>3
<1>4. /\ Tail(s) \in Seq(S) /\ Len(Tail(s)) = Len(s) - 1
      /\ \A j \in 1 .. Len(Tail(s)) : Tail(s)[j] = s[j + 1]
  BY <1>2, HeadTailProperties
<1> QED
  BY <1>3, <1>4, SeqEqual

\* The best of equals is the first.
LEMMA FirstOfEqualsIsBest ==
  ASSUME EvenPriorities, NEW s \in Seq(Proc), NEW l,
         \A j \in DOMAIN s : Level(s[j]) = l, NEW i, IsBest(s, i)
  PROVE  i = 1
<1>1. DOMAIN s = 1 .. Len(s) /\ Len(s) \in Nat /\ i \in DOMAIN s
  BY LenProperties DEF IsBest
<1>2. 1 \in DOMAIN s
  BY <1>1
<1>3. s[1] \in Proc /\ s[i] \in Proc
  BY <1>1, <1>2, ElementOfSeq
<1>4. Priority[s[i]] = Priority[s[1]] /\ Priority[s[1]] \in Nat
  BY <1>1, <1>2, <1>3, QueueAssumption DEF EvenPriorities
<1>5. Priority[s[i]] < Priority[s[1]] \/ i <= 1
  BY <1>2 DEF IsBest
<1> QED
  BY <1>1, <1>4, <1>5

\* A queue gets shorter only by losing its first entry.
ServesInTurn ==
  \A l \in Levels :
    Len(mlq_ready_queue'[l]) < Len(mlq_ready_queue[l])
      => mlq_ready_queue'[l] = Tail(mlq_ready_queue[l])

\* enqueue() makes no queue shorter.
LEMMA EnqueueInTurn ==
  ASSUME TypeInv, NEW x \in Proc,
         mlq_ready_queue' = [mlq_ready_queue EXCEPT ![Level(x)] = Enqueue(@, x)]
  PROVE  ServesInTurn
<1> SUFFICES ASSUME NEW l \in Levels,
                    Len(mlq_ready_queue'[l]) < Len(mlq_ready_queue[l])
             PROVE  FALSE
  BY DEF ServesInTurn
<1>1. mlq_ready_queue[l] \in Seq(Proc) /\ Len(mlq_ready_queue[l]) \in Nat
  BY LenProperties DEF TypeInv, SchedTypeOK
<1>2. CASE l = Level(x)
  <2>1. mlq_ready_queue'[l] = Enqueue(mlq_ready_queue[l], x)
    BY <1>2 DEF TypeInv, SchedTypeOK
  <2>2. Len(Append(mlq_ready_queue[l], x)) = Len(mlq_ready_queue[l]) + 1
    BY <1>1, AppendProperties
  <2> QED
    BY <1>1, <2>1, <2>2 DEF Enqueue
<1>3. CASE l # Level(x)
  BY <1>1, <1>3 DEF TypeInv, SchedTypeOK
<1> QED
  BY <1>2, <1>3

\* A dispatch takes the first of its level.
LEMMA GetServedInTurn ==
  ASSUME EvenPriorities, TypeInv, OwnLevel, NEW c \in CPU, GetServed(c)
  PROVE  ServesInTurn
<1>1. PICK k \in Levels : GetServed(c)!(k)
  BY DEF GetServed
<1> DEFINE n == LevelAfter(k)
           q == mlq_ready_queue[n]
<1>2. n \in Levels /\ q \in Seq(Proc)
  BY LevelAfterType DEF TypeInv, SchedTypeOK
<1>3. PICK i \in DOMAIN q :
        IsBest(q, i) /\ mlq_ready_queue' = [mlq_ready_queue EXCEPT ![n] = DequeueAt(@, i)]
  BY <1>1
<1>4. /\ mlq_ready_queue'[n] = DequeueAt(q, i)
      /\ \A m \in Levels \ {n} : mlq_ready_queue'[m] = mlq_ready_queue[m]
  BY <1>2, <1>3 DEF TypeInv, SchedTypeOK
<1>5. \A j \in DOMAIN q : Level(q[j]) = n
  BY <1>2 DEF OwnLevel
<1> HIDE DEF n
<1>6. i = 1
  <2> HIDE DEF q
  <2> QED
    BY ONLY EvenPriorities, QueueAssumption, <1>2, <1>3, <1>5, FirstOfEqualsIsBest
<1>7. mlq_ready_queue'[n] = Tail(mlq_ready_queue[n])
  BY <1>2, <1>3, <1>4, <1>6, DequeueFirst
<1> SUFFICES ASSUME NEW l \in Levels,
                    Len(mlq_ready_queue'[l]) < Len(mlq_ready_queue[l])
             PROVE  mlq_ready_queue'[l] = Tail(mlq_ready_queue[l])
  BY DEF ServesInTurn
<1>8. CASE l = n
  BY <1>7, <1>8
<1>9. CASE l # n
  <2>1. Len(mlq_ready_queue[l]) \in Nat /\ mlq_ready_queue'[l] = mlq_ready_queue[l]
    BY <1>4, <1>9, LenProperties DEF TypeInv, SchedTypeOK
  <2> QED
    BY <2>1
<1> QED
  BY <1>8, <1>9

\* Where the programs of a level have the same default priority the MLQ is a
\* round robin within every level, as the report says: a dispatch takes the
\* process that has waited longest.
THEOREM RoundRobinOfEquals == EvenPriorities => (SchedSpec => RoundRobinWithinLevel)
<1> SUFFICES ASSUME EvenPriorities PROVE SchedSpec => RoundRobinWithinLevel
  OBVIOUS
<1>1. SchedInit => TypeInv /\ OwnLevel
  BY InitTypeInv, InitLoadInv DEF LoadInv
<1>2. TypeInv /\ OwnLevel /\ [SchedNext]_schedVars => TypeInv' /\ OwnLevel'
  BY NextTypeInv, NextOwnLevel
<1>3. TypeInv /\ OwnLevel /\ [SchedNext]_schedVars => [ServesInTurn]_schedVars
  <2> SUFFICES ASSUME TypeInv, OwnLevel, SchedNext PROVE ServesInTurn
    OBVIOUS
  <2>1. ASSUME NEW p \in Proc, AddProc(p) PROVE ServesInTurn
    BY <2>1, EnqueueInTurn DEF AddProc
  <2>2. ASSUME NEW c \in CPU, GetProc(c), GetServed(c) PROVE ServesInTurn
    BY <2>2, GetServedInTurn
  <2>3. ASSUME NEW c \in CPU, PutProc(c) PROVE ServesInTurn
    <3>1. proc[c] \in Proc
      BY <2>3 DEF PutProc, TypeInv, SchedTypeOK
    <3> QED
      BY <2>3, <3>1, EnqueueInTurn DEF PutProc
  <2>4. ASSUME mlq_ready_queue' = mlq_ready_queue PROVE ServesInTurn
    <3>1. \A l \in Levels : Len(mlq_ready_queue[l]) \in Nat
      BY LenProperties DEF TypeInv, SchedTypeOK
    <3> QED
      BY <2>4, <3>1 DEF ServesInTurn
  <2> QED
    BY <2>1, <2>2, <2>3, <2>4 DEF SchedNext, GetProc, GetNothing, FinishProc
<1>4. [ServesInTurn]_schedVars =>
        [\A l \in Levels : Len(mlq_ready_queue'[l]) < Len(mlq_ready_queue[l])
           => mlq_ready_queue'[l] = Tail(mlq_ready_queue[l])]_schedVars
  BY DEF ServesInTurn
<1> QED
  BY <1>1, <1>2, <1>3, <1>4, PTL DEF SchedSpec, RoundRobinWithinLevel
=============================================================================
