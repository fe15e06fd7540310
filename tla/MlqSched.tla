------------------------------- MODULE MlqSched -------------------------------
(***************************************************************************)
(* sched.c (MLQ_SCHED build): the multi-level ready queue, the cursor that  *)
(* walks over it, and the running list.  Each of add_proc, get_proc,        *)
(* put_proc and finish_proc is one critical section of queue_lock and one   *)
(* action here.  The clients are the loader (add_proc) and the CPUs         *)
(* (the others); proc[c] is the local `proc` of cpu_routine on CPU c.       *)
(***************************************************************************)
EXTENDS Queue

CONSTANTS CPU,      \* the CPU threads
          MaxPrio,  \* MAX_PRIO
          Prio,     \* pcb_t.prio as the configuration file gives it
          NoProc    \* the NULL of `struct pcb_t *`

ASSUME MlqAssumption ==
  /\ MaxPrio \in Nat \ {0}
  /\ Prio \in [Proc -> Nat]
  /\ NoProc \notin Proc

VARIABLES mlq_ready_queue,  \* one queue per level
          running_list,     \* the processes get_proc handed out
          curr_prio,        \* the level the cursor is on
          curr_slot,        \* what is left of that level's turn
          proc,             \* what each CPU holds
          loaded,           \* the processes add_proc has seen
          finished          \* the processes finish_proc has seen (then freed)

queues == <<mlq_ready_queue, running_list, curr_prio, curr_slot>>
schedVars == <<mlq_ready_queue, running_list, curr_prio, curr_slot,
               proc, loaded, finished>>

Levels == 0 .. MaxPrio - 1

\* The clamp of add_mlq_proc and put_mlq_proc: an invalid prio becomes 0.
Level(p) == IF Prio[p] < MaxPrio THEN Prio[p] ELSE 0

FullTurn_OffByOne(l) == MaxPrio - l - 1

\* What a level's turn is worth when the cursor reaches it.
FullTurn(l) == MaxPrio - l

NextLevel_NoWrap(l) == l + 1
NextLevel_Restart(l) == 0

\* The level after l in the cursor's round.
NextLevel(l) == IF l + 1 < MaxPrio THEN l + 1 ELSE 0

SchedInit ==
  /\ mlq_ready_queue = [l \in Levels |-> <<>>]
  /\ running_list = <<>>
  /\ curr_prio = 0
  /\ curr_slot = MaxPrio
  /\ proc = [c \in CPU |-> NoProc]
  /\ loaded = {}
  /\ finished = {}

-----------------------------------------------------------------------------
\* add_proc(): only the loader calls it, once for each process.
AddProc(p) ==
  /\ p \notin loaded
  /\ loaded' = loaded \cup {p}
  /\ mlq_ready_queue' = [mlq_ready_queue EXCEPT ![Level(p)] = Enqueue(@, p)]
  /\ UNCHANGED <<running_list, curr_prio, curr_slot, proc, finished>>

\* The level and the slots the loop of get_mlq_proc sees after k advances.
LevelAfter(k) == IF curr_prio + k < MaxPrio THEN curr_prio + k
                                            ELSE curr_prio + k - MaxPrio
SlotAfter(k) == IF k = 0 THEN curr_slot ELSE FullTurn(LevelAfter(k))

\* The k-th round of the loop takes its first branch.
Serves(k) == mlq_ready_queue[LevelAfter(k)] # <<>> /\ SlotAfter(k) > 0

\* get_proc() that finds a process: the first serving round k dequeues from
\* its level, pays one slot, and moves the cursor on when the turn is used up.
GetServed(c) == \E k \in Levels :
  /\ Serves(k)
  /\ \A j \in 0 .. k - 1 : ~Serves(j)
  /\ LET l == LevelAfter(k)
     IN \E i \in DOMAIN mlq_ready_queue[l] :
          /\ IsBest(mlq_ready_queue[l], i)
          /\ proc' = [proc EXCEPT ![c] = mlq_ready_queue[l][i]]
          /\ running_list' = Enqueue(running_list, mlq_ready_queue[l][i])
          /\ mlq_ready_queue' = [mlq_ready_queue EXCEPT ![l] = DequeueAt(@, i)]
          /\ curr_prio' = IF SlotAfter(k) = 1 THEN NextLevel(l) ELSE l
          /\ curr_slot' = IF SlotAfter(k) = 1 THEN FullTurn(NextLevel(l))
                                              ELSE SlotAfter(k) - 1

\* get_proc() that returns NULL: MAX_PRIO advances bring the cursor back to
\* the level it was on, with a full turn.
GetNothing(c) ==
  /\ \A k \in Levels : ~Serves(k)
  /\ curr_slot' = FullTurn(curr_prio)
  /\ UNCHANGED <<mlq_ready_queue, running_list, curr_prio, proc>>

GetProc(c) ==
  /\ proc[c] = NoProc
  /\ GetServed(c) \/ GetNothing(c)
  /\ UNCHANGED <<loaded, finished>>

\* put_proc(): the time slice of the process on c is over.
PutProc(c) ==
  /\ proc[c] # NoProc
  /\ running_list' = Purge(running_list, proc[c])
  /\ mlq_ready_queue' =
       [mlq_ready_queue EXCEPT ![Level(proc[c])] = Enqueue(@, proc[c])]
  /\ proc' = [proc EXCEPT ![c] = NoProc]
  /\ UNCHANGED <<curr_prio, curr_slot, loaded, finished>>

FinishProc_NoPurge(c) ==
  /\ proc[c] # NoProc
  /\ finished' = finished \cup {proc[c]}
  /\ proc' = [proc EXCEPT ![c] = NoProc]
  /\ UNCHANGED <<queues, loaded>>

\* finish_proc() and the free() after it: the program of c is at its end.
FinishProc(c) ==
  /\ proc[c] # NoProc
  /\ running_list' = Purge(running_list, proc[c])
  /\ finished' = finished \cup {proc[c]}
  /\ proc' = [proc EXCEPT ![c] = NoProc]
  /\ UNCHANGED <<mlq_ready_queue, curr_prio, curr_slot, loaded>>

SchedNext ==
  \/ \E p \in Proc : AddProc(p)
  \/ \E c \in CPU : GetProc(c) \/ PutProc(c) \/ FinishProc(c)

SchedSpec == SchedInit /\ [][SchedNext]_schedVars

-----------------------------------------------------------------------------
\* Where a process can be.
Queued(p) == \E l \in Levels : \E i \in DOMAIN mlq_ready_queue[l] :
               mlq_ready_queue[l][i] = p
Held(p) == \E c \in CPU : proc[c] = p
AllLevelsEmpty == \A l \in Levels : mlq_ready_queue[l] = <<>>

\* Type invariant of the scheduler's state.
SchedTypeOK ==
  /\ mlq_ready_queue \in [Levels -> Seq(Proc)]
  /\ running_list \in Seq(Proc)
  /\ curr_prio \in Levels
  /\ curr_slot \in Nat
  /\ proc \in [CPU -> Proc \cup {NoProc}]
  /\ loaded \subseteq Proc
  /\ finished \subseteq Proc

\* A process is never run by two CPUs, is never runnable while a CPU holds it,
\* never sits twice in the ready queues or in the queue of another level, and
\* is in none of these places before add_proc or after finish_proc: whatever
\* the order in which the CPUs and the loader take queue_lock.
HeldOnce ==
  \A c, d \in CPU : proc[c] = proc[d] /\ proc[c] # NoProc => c = d
QueuedOnce ==
  \A l, m \in Levels :
    \A i \in DOMAIN mlq_ready_queue[l], j \in DOMAIN mlq_ready_queue[m] :
      mlq_ready_queue[l][i] = mlq_ready_queue[m][j] => l = m /\ i = j
QueuedOrHeld ==
  \A c \in CPU : ~Queued(proc[c])
LiveOnly ==
  /\ finished \subseteq loaded
  /\ \A p \in Proc : Queued(p) \/ Held(p) => p \in loaded \ finished
NoDoubleDispatch ==
  HeldOnce /\ QueuedOnce /\ QueuedOrHeld /\ LiveOnly

\* finish_proc's comment: "so no stale pointer is left behind".  A PCB that was
\* freed is in no list that the scheduler or a system call still walks.
NoStalePointer ==
  \A p \in finished : /\ ~Queued(p)
                      /\ \A i \in DOMAIN running_list : running_list[i] # p

\* The running list that system calls search is exactly what the CPUs hold,
\* as long as there are no more CPUs than it has room for.
RunningListExact ==
  /\ \A i, j \in DOMAIN running_list : running_list[i] = running_list[j] => i = j
  /\ {running_list[i] : i \in DOMAIN running_list}
       = {proc[c] : c \in CPU} \ {NoProc}

\* Work conservation: the loop of get_mlq_proc gives up only when no process
\* is ready on any level, wherever the cursor stands and whatever is left of
\* its turn.  (The loop tests the level the cursor is on once, and never comes
\* back to it with its turn renewed.)
WorkConserving == (\A k \in Levels : ~Serves(k)) => AllLevelsEmpty

\* A process disappears only when add_proc or put_proc hands it in and finds its
\* level full: no call loses a process that is queued, nor one that a CPU holds
\* and does not hand in, however full the queues are.
Known(p) == Queued(p) \/ Held(p)
HandsIn(p) == \/ p \in loaded' \ loaded
              \/ \E c \in CPU : proc[c] = p /\ proc'[c] # p
Keeps(p) ==
  /\ Known(p) \/ p \in loaded' \ loaded
  /\ p \notin finished'
  => Known(p)' \/ (HandsIn(p) /\ Len(mlq_ready_queue[Level(p)]) >= MaxQueueSize)
LostOnlyWhenFull == [][\A p \in Proc : Keeps(p)]_schedVars

\* report.md:96: "round-robin within the selected queue", and common.h:113: prio
\* "overwrites the default priority when it existed".  A dispatch takes the
\* process that has waited longest on its level.
RoundRobinWithinLevel == [][
  \A l \in Levels :
    Len(mlq_ready_queue'[l]) < Len(mlq_ready_queue[l])
      => mlq_ready_queue'[l] = Tail(mlq_ready_queue[l])
  ]_schedVars
=============================================================================
