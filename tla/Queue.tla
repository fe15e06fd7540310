-------------------------------- MODULE Queue --------------------------------
(***************************************************************************)
(* queue.c: the bounded array queue that every scheduler list is made of.  *)
(* A queue_t is the sequence of the first `size` entries of its proc array. *)
(* Definitions named X_... before a definition X are variants of X with a    *)
(* plausible bug; nothing uses them except the test of the properties.      *)
(***************************************************************************)
EXTENDS Naturals, Sequences, SequencesExt

CONSTANTS Proc,          \* the PCBs
          MaxQueueSize,  \* MAX_QUEUE_SIZE (queue.h)
          Priority       \* pcb_t.priority, read from the first line of a program

ASSUME QueueAssumption ==
  /\ MaxQueueSize \in Nat \ {0}
  /\ Priority \in [Proc -> Nat]

Enqueue_BoundOffByOne(q, p) ==
  IF Len(q) < MaxQueueSize - 1 THEN Append(q, p) ELSE q

\* enqueue(): a full queue drops the process (and logs it).
Enqueue(q, p) == IF Len(q) < MaxQueueSize THEN Append(q, p) ELSE q

IsBest_LastOfEquals(q, i) ==
  /\ i \in DOMAIN q
  /\ \A j \in DOMAIN q : \/ Priority[q[i]] < Priority[q[j]]
                         \/ Priority[q[i]] = Priority[q[j]] /\ i >= j

\* i is the index the scan of dequeue() ends on: the smallest `priority`,
\* the earliest of equals.
IsBest(q, i) ==
  /\ i \in DOMAIN q
  /\ \A j \in DOMAIN q : \/ Priority[q[i]] < Priority[q[j]]
                         \/ Priority[q[i]] = Priority[q[j]] /\ i <= j

DequeueAt_NoShift(q, i) == Front(q)

\* The end of dequeue(): the entries behind index i move up by one.
DequeueAt(q, i) == RemoveAt(q, i)

Purge_NoShift(q, p) == IF \E i \in DOMAIN q : q[i] = p THEN Front(q) ELSE q

\* purgequeue(): take the first entry that is p out, if there is one.
Purge(q, p) ==
  IF \E i \in DOMAIN q : q[i] = p
  THEN RemoveAt(q, CHOOSE i \in DOMAIN q :
                     q[i] = p /\ \A j \in DOMAIN q : q[j] = p => i <= j)
  ELSE q
=============================================================================
