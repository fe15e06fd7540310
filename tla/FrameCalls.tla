------------------------------ MODULE FrameCalls ------------------------------
(***************************************************************************)
(* The free frame lists of the two devices (MEMPHY_get_freefp and            *)
(* MEMPHY_put_freefp of mm-memphy.c, which lock nothing) under the calls of   *)
(* processes that run on different CPUs: page faults of __write, which holds *)
(* mmvm_lock, and of __read, which does not, and extensions of __alloc       *)
(* (locked) and of the memmap system call (not).  The steps are the reads     *)
(* and writes of the list heads, so that what Paging assumes, that a call is  *)
(* atomic, can be checked here.                                             *)
(***************************************************************************)
EXTENDS Naturals, FiniteSets, Sequences, SequencesExt

CONSTANTS Proc,     \* each is on a CPU of its own
          Calls,    \* the kinds of call they make
          Frames,   \* Frames[d]: how many frames device d has
          MaxPages  \* bound of the model: the pages of one extension

ASSUME FrameCallsAssumption ==
  /\ Calls \subseteq {"read", "write", "alloc", "memmap"}
  /\ Frames \in [{"ram", "swap"} -> Nat \ {0}]
  /\ MaxPages \in Nat \ {0}

Device == {"ram", "swap"}
Pool == [d \in Device |-> 0 .. Frames[d] - 1]

VARIABLES free_fp_list,  \* per device, head first
          mmvm_lock,     \* the processes that hold it
          call,          \* call[p]: what p is doing, "none" between calls
          pc,            \* per process: "idle", "get", "pop", "put" or "push"
          dev,           \* the device that is asked
          need,          \* how many frames the call still wants
          got,           \* the frames it has, in order (frm_lst)
          seen,          \* the list as p last read it
          held           \* the frames p's page table entries name, per device

frameVars == <<free_fp_list, mmvm_lock, call, pc, dev, need, got, seen, held>>

FormatList_FromOne(d) == [k \in 1 .. Frames[d] |-> k]

\* MEMPHY_format() links the frames of a device in ascending order.
FormatList(d) == [k \in 1 .. Frames[d] |-> k - 1]

FrameInit ==
  /\ free_fp_list = [d \in Device |-> FormatList(d)]
  /\ mmvm_lock = {}
  /\ call = [p \in Proc |-> "none"]
  /\ pc = [p \in Proc |-> "idle"]
  /\ dev = [p \in Proc |-> "ram"]
  /\ need = [p \in Proc |-> 0]
  /\ got = [p \in Proc |-> <<>>]
  /\ seen = [p \in Proc |-> <<>>]
  /\ held = [p \in Proc |-> [d \in Device |-> {}]]

-----------------------------------------------------------------------------
Locks_None(c) == FALSE

\* Which calls take mmvm_lock before they touch a list.
Locks(c) == c \in {"write", "alloc"}

Faults(c) == c \in {"read", "write"}

\* A call begins: a fault wants one frame, an extension one for each page.
Begin(p, c, n) ==
  /\ pc[p] = "idle"
  /\ Faults(c) => n = 1
  /\ Locks(c) => mmvm_lock = {}
  /\ mmvm_lock' = IF Locks(c) THEN {p} ELSE mmvm_lock
  /\ call' = [call EXCEPT ![p] = c]
  /\ pc' = [pc EXCEPT ![p] = "get"]
  /\ dev' = [dev EXCEPT ![p] = "ram"]
  /\ need' = [need EXCEPT ![p] = n]
  /\ UNCHANGED <<free_fp_list, got, seen, held>>

\* The call returns, and unlocks if it had locked.
Return(p) ==
  /\ pc' = [pc EXCEPT ![p] = "idle"]
  /\ call' = [call EXCEPT ![p] = "none"]
  /\ got' = [got EXCEPT ![p] = <<>>]
  /\ need' = [need EXCEPT ![p] = 0]
  /\ mmvm_lock' = mmvm_lock \ {p}

\* MEMPHY_get_freefp(), first half: fp = free_fp_list, with a frame on it.
ReadHead(p) ==
  /\ pc[p] = "get"
  /\ free_fp_list[dev[p]] # <<>>
  /\ seen' = [seen EXCEPT ![p] = free_fp_list[dev[p]]]
  /\ pc' = [pc EXCEPT ![p] = "pop"]
  /\ UNCHANGED <<free_fp_list, mmvm_lock, call, dev, need, got, held>>

\* What free_fp_list becomes: the fp_next of the node that was read.
Popped_Kept(p) == seen[p]
Popped(p) == Tail(seen[p])

\* Second half: the list moves on to fp_next.  The last frame that the call
\* wanted is entered in the page table.  (The frame a fault gets from the swap
\* device takes the victim's content, whose frame the process keeps.)
Pop(p) ==
  /\ pc[p] = "pop"
  /\ free_fp_list' = [free_fp_list EXCEPT ![dev[p]] = Popped(p)]
  /\ IF need[p] = 1
     THEN /\ held' = [held EXCEPT ![p][dev[p]] = @ \cup ToSet(got[p]) \cup {Head(seen[p])}]
          /\ Return(p)
     ELSE /\ got' = [got EXCEPT ![p] = Append(@, Head(seen[p]))]
          /\ need' = [need EXCEPT ![p] = @ - 1]
          /\ pc' = [pc EXCEPT ![p] = "get"]
          /\ UNCHANGED <<mmvm_lock, call, held>>
  /\ UNCHANGED <<dev, seen>>

AskSwap_BeforeRam(p) ==
  /\ pc[p] = "get" /\ dev[p] = "ram"
  /\ Faults(call[p]) /\ held[p]["ram"] # {}
  /\ dev' = [dev EXCEPT ![p] = "swap"]
  /\ UNCHANGED <<free_fp_list, mmvm_lock, call, pc, need, got, seen, held>>

\* RAM has no free frame.  A fault of a process with a page to give up asks the
\* swap device instead.
AskSwap(p) ==
  /\ pc[p] = "get" /\ dev[p] = "ram" /\ free_fp_list["ram"] = <<>>
  /\ Faults(call[p]) /\ held[p]["ram"] # {}
  /\ dev' = [dev EXCEPT ![p] = "swap"]
  /\ UNCHANGED <<free_fp_list, mmvm_lock, call, pc, need, got, seen, held>>

\* Nothing to get, and nothing got so far: the call gives up.
GiveUp(p) ==
  /\ pc[p] = "get" /\ free_fp_list[dev[p]] = <<>>
  /\ got[p] = <<>>
  /\ Faults(call[p]) /\ dev[p] = "ram" => held[p]["ram"] = {}
  /\ Return(p)
  /\ UNCHANGED <<free_fp_list, dev, seen, held>>

\* alloc_pages_range() got some frames but not all: it puts them back.
Cleanup(p) ==
  /\ pc[p] = "get" /\ free_fp_list[dev[p]] = <<>>
  /\ got[p] # <<>>
  /\ pc' = [pc EXCEPT ![p] = "put"]
  /\ UNCHANGED <<free_fp_list, mmvm_lock, call, dev, need, got, seen, held>>

\* MEMPHY_put_freefp(), first half: fp = free_fp_list.
ReadForPut(p) ==
  /\ pc[p] = "put"
  /\ seen' = [seen EXCEPT ![p] = free_fp_list[dev[p]]]
  /\ pc' = [pc EXCEPT ![p] = "push"]
  /\ UNCHANGED <<free_fp_list, mmvm_lock, call, dev, need, got, held>>

AfterPush_FirstOnly(p) == <<>>

\* The frames that are still to be put back: the loop goes down frm_lst.
AfterPush(p) == Tail(got[p])

\* Second half: the new node in front of the list that was read.
Push(p) ==
  /\ pc[p] = "push"
  /\ free_fp_list' = [free_fp_list EXCEPT ![dev[p]] = <<Head(got[p])>> \o seen[p]]
  /\ IF AfterPush(p) = <<>>
     THEN Return(p)
     ELSE /\ got' = [got EXCEPT ![p] = AfterPush(p)]
          /\ pc' = [pc EXCEPT ![p] = "put"]
          /\ UNCHANGED <<mmvm_lock, call, need>>
  /\ UNCHANGED <<dev, seen, held>>

FrameNext == \E p \in Proc :
  \/ \E c \in Calls : \E n \in 1 .. MaxPages : Begin(p, c, n)
  \/ ReadHead(p) \/ Pop(p) \/ AskSwap(p) \/ GiveUp(p)
  \/ Cleanup(p) \/ ReadForPut(p) \/ Push(p)

FrameSpec == FrameInit /\ [][FrameNext]_frameVars

-----------------------------------------------------------------------------
\* Type invariant.
FrameTypeOK ==
  /\ \A d \in Device : free_fp_list[d] \in Seq(Pool[d])
  /\ mmvm_lock \subseteq Proc
  /\ call \in [Proc -> Calls \cup {"none"}]
  /\ pc \in [Proc -> {"idle", "get", "pop", "put", "push"}]
  /\ dev \in [Proc -> Device]
  /\ need \in [Proc -> 0 .. MaxPages]
  /\ \A p \in Proc : got[p] \in Seq(Pool["ram"])
  /\ \A p \in Proc, d \in Device : held[p][d] \subseteq Pool[d]

\* A frame is in one place at a time, on its device's list, in the hands of one
\* call, or in one process's page table: the list operations, which lock
\* nothing, are safe for callers that hold mmvm_lock.
InOnePlace ==
  /\ \A d \in Device : /\ IsInjective(free_fp_list[d])
                       /\ \A p \in Proc : held[p][d] \cap ToSet(free_fp_list[d]) = {}
  /\ \A p, q \in Proc :
       /\ p # q => \A d \in Device : held[p][d] \cap held[q][d] = {}
       /\ ToSet(got[p]) \cap (held[q]["ram"] \cup ToSet(free_fp_list["ram"])) = {}

\* No frame is lost: when nobody is in a call, every frame is on its device's
\* list or in a page table, whatever calls failed half way.
NothingLost ==
  (\A p \in Proc : pc[p] = "idle") =>
    \A d \in Device : Pool[d] = ToSet(free_fp_list[d]) \cup UNION {held[p][d] : p \in Proc}

\* An extension fails only when RAM has fewer frames than it wants: frames that
\* another extension holds for a while, and puts back, make no call fail.
Unmapped == Pool["ram"] \ UNION {held[p]["ram"] : p \in Proc}
RefusedOnlyWhenShort == [][
  \A p \in Proc :
    ~Faults(call[p]) /\ pc[p] = "get" /\ pc'[p] \in {"put", "idle"} =>
      Cardinality(Unmapped) < Len(got[p]) + need[p]
  ]_frameVars

\* The frames that no page table names, the ones in a call's hands among them,
\* and what the call of p asks for until it is known whether it gets it.
Unowned == [d \in Device |-> Pool[d] \ UNION {held[p][d] : p \in Proc}]
Asked == [p \in Proc |-> IF pc[p] \in {"get", "pop"} THEN Len(got[p]) + need[p] ELSE 0]

Whole == INSTANCE FramePool WITH free <- Unowned, owned <- held, asked <- Asked

\* The steps of the calls implement all-or-nothing calls: the frames that an
\* extension takes one by one, and puts back one by one when they are too few,
\* are never missed by another call, and a slot of the swap device is taken only
\* while RAM has no frame.
ImplementsFramePool == Whole!PoolSpec

\* libmem.c:636-637 calls __read a "protected" path: a frame that a fault gets
\* from the free list of RAM is not given to another process as well.
NoFrameShared ==
  \A p, q \in Proc : p # q => held[p]["ram"] \cap held[q]["ram"] = {}
=============================================================================
