---------------------------- MODULE Paging_proofs ----------------------------
(***************************************************************************)
(* Proofs about paging, for any number of processes, pages, frames, slots    *)
(* and values: page tables and lists agree, and every process sees a memory  *)
(* of its own.                                                              *)
(***************************************************************************)
EXTENDS Paging, ListLemmas

-----------------------------------------------------------------------------
(* Page table entries. *)

\* A present entry is not an absent one, and names its frame.
LEMMA RamEntry ==
  ASSUME NEW f \in Frame
  PROVE  /\ <<"ram", f>> \in Entry /\ <<"ram", f>> # Absent
         /\ <<"ram", f>>[1] = "ram" /\ <<"ram", f>>[2] = f
<1>1. f \in Nat
  BY PagingAssumption DEF Frame
<1> QED
  BY <1>1, PagingAssumption DEF Entry

\* A swapped entry is not an absent one, and names its slot.
LEMMA SwapEntry ==
  ASSUME NEW s \in Slot
  PROVE  /\ <<"swap", s>> \in Entry /\ <<"swap", s>> # Absent
         /\ <<"swap", s>>[1] = "swap" /\ <<"swap", s>>[2] = s
<1>1. s \in Nat
  BY PagingAssumption DEF Slot
<1> QED
  BY <1>1, PagingAssumption DEF Entry

\* An entry is empty, names a frame or names a slot.
LEMMA EntryForms ==
  ASSUME NEW e \in Entry
  PROVE  \/ e = Absent
         \/ e # Absent /\ e[1] = "ram" /\ e[2] \in Frame /\ e = <<"ram", e[2]>>
         \/ e # Absent /\ e[1] = "swap" /\ e[2] \in Slot /\ e = <<"swap", e[2]>>
<1>1. ASSUME e \in {"ram"} \X Frame
      PROVE  e # Absent /\ e[1] = "ram" /\ e[2] \in Frame /\ e = <<"ram", e[2]>>
  <2>1. PICK f \in Frame : e = <<"ram", f>>
    BY <1>1
  <2> QED
    BY <2>1, RamEntry
<1>2. ASSUME e \in {"swap"} \X Slot
      PROVE  e # Absent /\ e[1] = "swap" /\ e[2] \in Slot /\ e = <<"swap", e[2]>>
  <2>1. PICK s \in Slot : e = <<"swap", s>>
    BY <1>2
  <2> QED
    BY <2>1, SwapEntry
<1> QED
  BY <1>1, <1>2 DEF Entry

\* The frame field is wide enough for every frame of RAM.
LEMMA FpnFieldFits == ASSUME NEW f \in Frame PROVE FpnField(f) = f
<1>1. f \in Nat /\ FpnRange \in Nat \ {0} /\ f < FpnRange
  BY PagingAssumption DEF Frame
<1> QED
  BY <1>1 DEF FpnField

\* The page number of an address is wide enough for every page.
LEMMA PgnFieldFits == ASSUME NEW v \in Page PROVE PgnField(v) = v
<1>1. v \in Nat /\ PgnRange \in Nat \ {0} /\ v < PgnRange
  BY PagingAssumption DEF Page
<1> QED
  BY <1>1 DEF PgnField

\* What an access makes of the content v that it finds.
LEMMA AccessForms ==
  ASSUME NEW p \in Proc, NEW g \in Page, NEW a \in Accesses(p, g), NEW v \in Value
  PROVE  /\ ContentAfter(a, v) \in Value
         /\ \/ Outcome(a, v) = <<"read", p, g, v>> /\ ContentAfter(a, v) = v
            \/ Outcome(a, v) = <<"write", p, g, ContentAfter(a, v)>>
         /\ Failure(a) = <<"fail", p, g>>
<1>1. CASE a = <<"read", p, g>>
  <2>1. a[1] = "read" /\ a[2] = p /\ a[3] = g
    BY <1>1
  <2> QED
    BY <2>1 DEF ContentAfter, Outcome, Failure
<1>2. CASE \E w \in Value : a = <<"write", p, g, w>>
  <2>1. PICK w \in Value : a = <<"write", p, g, w>>
    BY <1>2
  <2>2. a[1] = "write" /\ a[2] = p /\ a[3] = g /\ a[4] = w
    BY <2>1
  <2> QED
    BY <2>2 DEF ContentAfter, Outcome, Failure
<1> QED
  BY <1>1, <1>2 DEF Accesses

-----------------------------------------------------------------------------
(* The invariant. *)

\* A page table entry is in one table once.
Distinct ==
  \A p, q \in Proc, g, h \in Page :
    pte[p][g] # Absent /\ pte[p][g] = pte[q][h] => p = q /\ g = h

\* The lists have no duplicates, and nothing on a free list is in use.
Separate ==
  /\ IsInjective(ram_free) /\ IsInjective(swp_free)
  /\ \A p \in Proc, g \in Page :
       /\ \A f \in ToSet(ram_free) : pte[p][g] # <<"ram", f>>
       /\ \A s \in ToSet(swp_free) : pte[p][g] # <<"swap", s>>

\* Every frame is free or in use.
Complete ==
  \A f \in Frame :
    f \in ToSet(ram_free) \/ \E p \in Proc, g \in Page : pte[p][g] = <<"ram", f>>

\* The victim lists.
Victims ==
  \A p \in Proc :
    /\ IsInjective(fifo_pgn[p])
    /\ \A g \in ToSet(fifo_pgn[p]) : Present(p, g)
    /\ \A g \in Page : Present(p, g) => swp_free = <<>> \/ g \in ToSet(fifo_pgn[p])

\* Nothing is mapped beyond the end of the area.
Within == \A p \in Proc, g \in Page : sbrk[p] <= g => pte[p][g] = Absent

PagingInv == PagingTypeOK /\ Distinct /\ Separate /\ Complete /\ Victims /\ Within

\* MEMPHY_format links every frame once.
LEMMA FormatFacts ==
  ASSUME NEW n \in Nat
  PROVE  /\ FormatList(n) \in Seq(0 .. n - 1) /\ IsInjective(FormatList(n))
         /\ ToSet(FormatList(n)) = 0 .. n - 1
<1> DEFINE L == FormatList(n)
<1>1. L = [k \in 1 .. n |-> k - 1]
  BY DEF FormatList
<1> HIDE DEF L
<1>2. \A k \in 1 .. n : k - 1 \in 0 .. n - 1
  OBVIOUS
<1>3. L \in Seq(0 .. n - 1)
  BY <1>1, <1>2
<1>4. IsInjective(L)
  BY <1>1 DEF IsInjective
<1>5. \A x \in 0 .. n - 1 : x + 1 \in 1 .. n /\ (x + 1) - 1 = x
  OBVIOUS
<1>6. ToSet(L) = 0 .. n - 1
  BY <1>1, <1>2, <1>5 DEF ToSet
<1> QED
  BY <1>3, <1>4, <1>6 DEF L

\* At first nothing is mapped, and every frame and slot is free.
LEMMA PagingInitInv == PagingInit => PagingInv
<1> SUFFICES ASSUME PagingInit PROVE PagingInv
  OBVIOUS
<1>1. /\ ram_free \in Seq(Frame) /\ IsInjective(ram_free) /\ ToSet(ram_free) = Frame
      /\ swp_free \in Seq(Slot) /\ IsInjective(swp_free)
  BY FormatFacts, PagingAssumption DEF PagingInit, Frame, Slot
<1>2. \A p \in Proc, g \in Page : pte[p][g] = Absent
  BY DEF PagingInit
<1>3. \A p \in Proc : fifo_pgn[p] = <<>>
  BY DEF PagingInit
<1>4. PagingTypeOK
  <2>1. 0 \in 0 .. NumPages
    BY PagingAssumption
  <2> QED
    BY <1>1, <2>1, PagingAssumption DEF PagingInit, PagingTypeOK, Entry
<1>5. Distinct /\ Within
  BY <1>2 DEF Distinct, Within
<1>6. Separate
  <2>1. \A f \in Frame : <<"ram", f>> # Absent
    BY RamEntry
  <2>2. \A s \in Slot : <<"swap", s>> # Absent
    BY SwapEntry
  <2>3. ToSet(swp_free) \subseteq Slot
    BY FormatFacts, PagingAssumption DEF PagingInit, Slot
  <2> QED
    BY <1>1, <1>2, <2>1, <2>2, <2>3 DEF Separate
<1>7. Complete
  BY <1>1 DEF Complete
<1>8. Victims
  BY <1>2, <1>3, EmptyFacts DEF Victims, Present
<1> QED
  BY <1>4, <1>5, <1>6, <1>7, <1>8 DEF PagingInv

-----------------------------------------------------------------------------
(* Each way through an access. *)

\* An access to a page in RAM changes at most the contents of its frame.
LEMMA HitInv ==
  ASSUME PagingInv, NEW p \in Proc, NEW g \in Page, NEW a \in Accesses(p, g), Hit(p, g, a)
  PROVE  PagingInv'
<1>1. PICK f \in Frame : pte[p][g][2] = f /\ ram[f] \in Value
  <2>1. pte[p][g] \in Entry /\ ram \in [Frame -> Value]
    BY DEF PagingInv, PagingTypeOK
  <2>2. pte[p][g] # Absent /\ pte[p][g][1] = "ram"
    BY DEF Hit, Present
  <2> QED
    BY <2>1, <2>2, EntryForms
<1>2. ram' = [ram EXCEPT ![f] = ContentAfter(a, ram[f])]
  BY <1>1 DEF Hit
<1>3. ContentAfter(a, ram[f]) \in Value
  BY <1>1, AccessForms
<1>4. UNCHANGED <<pte, fifo_pgn, ram_free, swp_free, swp, sbrk>>
  BY DEF Hit
<1>5. PagingTypeOK'
  BY <1>2, <1>3, <1>4 DEF PagingInv, PagingTypeOK
<1>6. Distinct' /\ Separate' /\ Complete' /\ Within'
  BY <1>4 DEF PagingInv, Distinct, Separate, Complete, Within
<1>7. Victims'
  BY <1>4 DEF PagingInv, Victims, Present
<1> QED
  BY <1>5, <1>6, <1>7 DEF PagingInv

\* What an access finds in the frame that page g gets.
LEMMA SwappedInValue ==
  ASSUME PagingTypeOK, NEW p \in Proc, NEW g \in Page, NEW v \in Value
  PROVE  SwappedIn(p, g, v) \in Value
<1>1. pte[p][g] \in Entry /\ swp \in [Slot -> Value]
  BY DEF PagingTypeOK
<1>2. CASE Swapped(p, g)
  BY <1>1, <1>2, EntryForms DEF SwappedIn, Swapped
<1>3. CASE ~Swapped(p, g)
  BY <1>3 DEF SwappedIn
<1> QED
  BY <1>2, <1>3

\* What FaultFree does, without its helpers: page g gets frame f with content v.
FreeTaken(p, g, a, f, v) ==
  /\ v = SwappedIn(p, g, ram[f]) /\ last' = Outcome(a, v)
  /\ ram' = [ram EXCEPT ![f] = ContentAfter(a, v)]
  /\ ContentAfter(a, v) \in Value
  /\ ToSet(ram_free) = ToSet(ram_free') \cup {f}
  /\ ram_free' \in Seq(Frame) /\ IsInjective(ram_free')
  /\ f \notin ToSet(ram_free')
  /\ pte' \in [Proc -> [Page -> Entry]]
  /\ \A q \in Proc, h \in Page :
       pte'[q][h] = IF q = p /\ h = g THEN <<"ram", f>> ELSE pte[q][h]

\* What a fault does that finds a free frame.
LEMMA FaultFreeFacts ==
  ASSUME PagingInv, NEW p \in Proc, NEW g \in Page, NEW a \in Accesses(p, g),
         FaultFree(p, g, a)
  PROVE  \E f \in Frame, v \in Value : FreeTaken(p, g, a, f, v)
<1>1. PICK f : f = Head(ram_free)
  OBVIOUS
<1>2. /\ f \in Frame /\ Tail(ram_free) \in Seq(Frame)
      /\ ToSet(ram_free) = ToSet(Tail(ram_free)) \cup {f}
      /\ IsInjective(Tail(ram_free)) /\ f \notin ToSet(Tail(ram_free))
  <2>1. ram_free \in Seq(Frame) /\ ram_free # <<>> /\ IsInjective(ram_free)
    BY DEF PagingInv, PagingTypeOK, Separate, FaultFree
  <2> QED
    BY <1>1, <2>1, HeadTailFacts
<1>3. ram_free' = Tail(ram_free)
  BY DEF FaultFree, AfterGet
<1>4. ram[f] \in Value
  BY <1>2 DEF PagingInv, PagingTypeOK
<1>5. PICK v \in Value : v = SwappedIn(p, g, ram[f])
  BY <1>4, SwappedInValue DEF PagingInv
<1>6. /\ last' = Outcome(a, v)
      /\ ram' = [ram EXCEPT ![f] = ContentAfter(a, v)]
      /\ pte' = [pte EXCEPT ![p][g] = <<"ram", f>>]
  BY <1>1, <1>2, <1>5, FpnFieldFits DEF FaultFree, Mapped
<1>7. ContentAfter(a, v) \in Value
  BY AccessForms
<1>8. /\ pte' \in [Proc -> [Page -> Entry]]
      /\ \A q \in Proc, h \in Page :
           pte'[q][h] = IF q = p /\ h = g THEN <<"ram", f>> ELSE pte[q][h]
  <2>1. <<"ram", f>> \in Entry
    BY <1>2, RamEntry
  <2> QED
    BY <1>6, <2>1 DEF PagingInv, PagingTypeOK
<1> QED
  BY <1>2, <1>3, <1>5, <1>6, <1>7, <1>8 DEF FreeTaken

\* A fault that takes a free frame keeps the invariant.
LEMMA FaultFreeInv ==
  ASSUME PagingInv, NEW p \in Proc, NEW g \in Page, g < sbrk[p], NEW a \in Accesses(p, g),
         FaultFree(p, g, a)
  PROVE  PagingInv'
<1>0. PICK f \in Frame, v \in Value : FreeTaken(p, g, a, f, v)
  BY FaultFreeFacts
<1>1. /\ ram' = [ram EXCEPT ![f] = ContentAfter(a, v)]
      /\ ContentAfter(a, v) \in Value
      /\ ToSet(ram_free) = ToSet(ram_free') \cup {f}
      /\ ram_free' \in Seq(Frame) /\ IsInjective(ram_free')
      /\ f \notin ToSet(ram_free')
      /\ pte' \in [Proc -> [Page -> Entry]]
      /\ \A q \in Proc, h \in Page :
           pte'[q][h] = IF q = p /\ h = g THEN <<"ram", f>> ELSE pte[q][h]
  BY <1>0 DEF FreeTaken
<1>2. /\ ~Present(p, g) /\ UNCHANGED <<swp_free, swp, sbrk>>
      /\ fifo_pgn' = [fifo_pgn EXCEPT ![p] = Append(fifo_pgn[p], g)]
  BY DEF FaultFree, Enlisted
<1>3. /\ <<"ram", f>> # Absent /\ <<"ram", f>>[1] = "ram" /\ <<"ram", f>>[2] = f
  BY RamEntry
<1>4. \A q \in Proc, h \in Page : pte[q][h] # <<"ram", f>>
  BY <1>1 DEF PagingInv, Separate
<1>5. /\ fifo_pgn' \in [Proc -> Seq(Page)]
      /\ \A q \in Proc : /\ IsInjective(fifo_pgn'[q])
                         /\ ToSet(fifo_pgn'[q]) = IF q = p THEN ToSet(fifo_pgn[p]) \cup {g}
                                                          ELSE ToSet(fifo_pgn[q])
  <2>1. fifo_pgn \in [Proc -> Seq(Page)] /\ fifo_pgn[p] \in Seq(Page)
    BY DEF PagingInv, PagingTypeOK
  <2>2. IsInjective(fifo_pgn[p]) /\ g \notin ToSet(fifo_pgn[p])
    BY <1>2 DEF PagingInv, Victims
  <2>3. /\ Append(fifo_pgn[p], g) \in Seq(Page)
        /\ ToSet(Append(fifo_pgn[p], g)) = ToSet(fifo_pgn[p]) \cup {g}
        /\ IsInjective(Append(fifo_pgn[p], g))
    BY <2>1, <2>2, AppendFacts
  <2>4. \A q \in Proc : fifo_pgn'[q] = IF q = p THEN Append(fifo_pgn[p], g) ELSE fifo_pgn[q]
    BY <1>2, <2>1
  <2>5. fifo_pgn' \in [Proc -> Seq(Page)]
    BY <1>2, <2>1, <2>3
  <2>6. \A q \in Proc : IsInjective(fifo_pgn[q])
    BY DEF PagingInv, Victims
  <2> QED
    BY <2>3, <2>4, <2>5, <2>6
<1>6. PagingTypeOK'
  BY <1>1, <1>2, <1>5 DEF PagingInv, PagingTypeOK
<1>7. Distinct'
  <2> SUFFICES ASSUME NEW q \in Proc, NEW r \in Proc, NEW h \in Page, NEW k \in Page,
                      pte'[q][h] # Absent, pte'[q][h] = pte'[r][k]
               PROVE  q = r /\ h = k
    BY DEF Distinct
  <2>1. q = p /\ h = g <=> r = p /\ k = g
    BY <1>1, <1>4
  <2>2. CASE q = p /\ h = g
    BY <2>1, <2>2
  <2>3. CASE ~(q = p /\ h = g)
    <3>1. pte[q][h] # Absent /\ pte[q][h] = pte[r][k]
      BY <1>1, <2>1, <2>3
    <3> QED
      BY <3>1 DEF PagingInv, Distinct
  <2> QED
    BY <2>2, <2>3
<1>8. Separate'
  <2>1. \A s : <<"swap", s>> # <<"ram", f>>
    OBVIOUS
  <2>2. \A x \in ToSet(ram_free') : <<"ram", x>> # <<"ram", f>>
    BY <1>1
  <2> QED
    BY <1>1, <1>2, <2>1, <2>2 DEF PagingInv, Separate
<1>9. Complete'
  <2> SUFFICES ASSUME NEW x \in Frame, x \notin ToSet(ram_free')
               PROVE  \E q \in Proc, h \in Page : pte'[q][h] = <<"ram", x>>
    BY DEF Complete
  <2>1. CASE x = f
    BY <1>1, <2>1
  <2>2. CASE x # f
    <3>1. PICK q \in Proc, h \in Page : pte[q][h] = <<"ram", x>>
      BY <1>1, <2>2 DEF PagingInv, Complete
    <3>2. <<"ram", x>> # Absent /\ <<"ram", x>>[1] = "ram"
      BY RamEntry
    <3>3. ~(q = p /\ h = g)
      BY <1>2, <3>1, <3>2 DEF Present
    <3> QED
      BY <1>1, <3>1, <3>3
  <2> QED
    BY <2>1, <2>2
<1>10. Victims'
  <2> SUFFICES ASSUME NEW q \in Proc
               PROVE  /\ \A h \in ToSet(fifo_pgn'[q]) : Present(q, h)'
                      /\ \A h \in Page :
                           Present(q, h)' => swp_free' = <<>> \/ h \in ToSet(fifo_pgn'[q])
    BY <1>5 DEF Victims
  <2>1. \A h \in Page : Present(q, h)' <=> Present(q, h) \/ (q = p /\ h = g)
    BY <1>1, <1>3 DEF Present
  <2>2. ToSet(fifo_pgn'[q]) \subseteq Page
    BY <1>5, ElementOfSeq, LenProperties DEF ToSet
  <2>3. ASSUME NEW h \in ToSet(fifo_pgn'[q]) PROVE Present(q, h)'
    BY <1>5, <2>1, <2>2 DEF PagingInv, Victims
  <2>4. ASSUME NEW h \in Page, Present(q, h)'
        PROVE  swp_free' = <<>> \/ h \in ToSet(fifo_pgn'[q])
    BY <1>2, <1>5, <2>1, <2>4 DEF PagingInv, Victims
  <2> QED
    BY <2>3, <2>4
<1>11. Within'
  <2>1. ~(sbrk[p] <= g)
    <3>1. sbrk[p] \in Nat /\ g \in Nat
      BY PagingAssumption DEF PagingInv, PagingTypeOK, Page
    <3> QED
      BY <3>1
  <2> QED
    BY <1>1, <1>2, <2>1 DEF PagingInv, Within
<1> QED
  BY <1>6, <1>7, <1>8, <1>9, <1>10, <1>11 DEF PagingInv

\* What FaultEvict does, without its helpers: page w leaves frame f for slot s,
\* and page g gets the frame with content v.
FrameChanged(p, g, a, w, f, s, v) ==
  /\ w # g /\ pte[p][w] = <<"ram", f>>
  /\ swp' = [swp EXCEPT ![s] = ram[f]]
  /\ v = SwappedIn(p, g, ram[f]) /\ last' = Outcome(a, v)
  /\ ram' = [ram EXCEPT ![f] = ContentAfter(a, v)]
  /\ ContentAfter(a, v) \in Value
  /\ ToSet(swp_free) = ToSet(swp_free') \cup {s}
  /\ swp_free' \in Seq(Slot) /\ IsInjective(swp_free')
  /\ s \notin ToSet(swp_free')
  /\ pte' \in [Proc -> [Page -> Entry]]
  /\ \A q \in Proc, h \in Page :
       pte'[q][h] = IF q = p /\ h = g THEN <<"ram", f>>
                    ELSE IF q = p /\ h = w THEN <<"swap", s>> ELSE pte[q][h]
  /\ fifo_pgn' \in [Proc -> Seq(Page)]
  /\ \A q \in Proc : /\ IsInjective(fifo_pgn'[q])
                     /\ ToSet(fifo_pgn'[q]) =
                          IF q = p THEN (ToSet(fifo_pgn[p]) \ {w}) \cup {g}
                                   ELSE ToSet(fifo_pgn[q])

\* A page on the victim list of p is in RAM, and the list without its last page.
LEMMA VictimFacts ==
  ASSUME PagingInv, NEW p \in Proc, fifo_pgn[p] # <<>>
  PROVE  /\ Victim(p) \in Page /\ Present(p, Victim(p))
         /\ \E f \in Frame : pte[p][Victim(p)] = <<"ram", f>> /\ pte[p][Victim(p)][2] = f
         /\ Delisted(p) \in Seq(Page) /\ IsInjective(Delisted(p))
         /\ ToSet(fifo_pgn[p]) = ToSet(Delisted(p)) \cup {Victim(p)}
         /\ Victim(p) \notin ToSet(Delisted(p))
<1>1. fifo_pgn[p] \in Seq(Page) /\ IsInjective(fifo_pgn[p])
  BY DEF PagingInv, PagingTypeOK, Victims
<1>2. /\ Victim(p) \in Page /\ Delisted(p) \in Seq(Page) /\ IsInjective(Delisted(p))
      /\ ToSet(fifo_pgn[p]) = ToSet(Delisted(p)) \cup {Victim(p)}
      /\ Victim(p) \notin ToSet(Delisted(p))
  BY <1>1, FrontFacts DEF Victim, Delisted
<1>3. Present(p, Victim(p))
  BY <1>2 DEF PagingInv, Victims
<1>4. pte[p][Victim(p)] \in Entry
  BY <1>2 DEF PagingInv, PagingTypeOK
<1> QED
  BY <1>2, <1>3, <1>4, EntryForms DEF Present

\* What a fault does that evicts a page of the same process.
LEMMA FaultEvictFacts ==
  ASSUME PagingInv, NEW p \in Proc, NEW g \in Page, NEW a \in Accesses(p, g),
         FaultEvict(p, g, a)
  PROVE  \E w \in Page, f \in Frame, s \in Slot, v \in Value :
           FrameChanged(p, g, a, w, f, s, v)
<1>1. ~Present(p, g) /\ fifo_pgn[p] # <<>> /\ swp_free # <<>>
  BY DEF FaultEvict
<1>2. PICK w \in Page : w = Victim(p)
  BY <1>1, VictimFacts
<1>3. PICK f \in Frame : pte[p][w] = <<"ram", f>> /\ pte[p][w][2] = f
  BY <1>1, <1>2, VictimFacts
<1>4. PICK s : s = Head(swp_free)
  OBVIOUS
<1>5. /\ s \in Slot /\ Tail(swp_free) \in Seq(Slot)
      /\ ToSet(swp_free) = ToSet(Tail(swp_free)) \cup {s}
      /\ IsInjective(Tail(swp_free)) /\ s \notin ToSet(Tail(swp_free))
  <2>1. swp_free \in Seq(Slot) /\ IsInjective(swp_free)
    BY DEF PagingInv, PagingTypeOK, Separate
  <2> QED
    BY <1>1, <1>4, <2>1, HeadTailFacts
<1>6. ram[f] \in Value
  BY <1>3 DEF PagingInv, PagingTypeOK
<1>7. PICK v \in Value : v = SwappedIn(p, g, ram[f])
  BY <1>6, SwappedInValue DEF PagingInv
<1>8. /\ swp' = [swp EXCEPT ![s] = ram[f]]
      /\ last' = Outcome(a, v)
      /\ ram' = [ram EXCEPT ![f] = ContentAfter(a, v)]
      /\ pte' = Mapped(Evicted(p, s), p, g, f)
      /\ swp_free' = Tail(swp_free)
      /\ fifo_pgn' = [fifo_pgn EXCEPT ![p] = Append(Delisted(p), g)]
  BY <1>2, <1>3, <1>4, <1>7 DEF FaultEvict, CopyToSwap, AfterGet, Enlisted
<1>9. ContentAfter(a, v) \in Value
  BY AccessForms
<1>10. w # g
  BY <1>1, <1>2, VictimFacts
<1>11. /\ pte' \in [Proc -> [Page -> Entry]]
       /\ \A q \in Proc, h \in Page :
            pte'[q][h] = IF q = p /\ h = g THEN <<"ram", f>>
                         ELSE IF q = p /\ h = w THEN <<"swap", s>> ELSE pte[q][h]
  <2>1. pte \in [Proc -> [Page -> Entry]]
    BY DEF PagingInv, PagingTypeOK
  <2>2. <<"ram", f>> \in Entry /\ <<"swap", s>> \in Entry
    BY <1>3, <1>5, RamEntry, SwapEntry
  <2>3. PICK t : t = [pte EXCEPT ![p][w] = <<"swap", s>>]
    OBVIOUS
  <2>4. /\ t \in [Proc -> [Page -> Entry]]
        /\ \A q \in Proc, h \in Page :
             t[q][h] = IF q = p /\ h = w THEN <<"swap", s>> ELSE pte[q][h]
    BY <2>1, <2>2, <2>3
  <2>5. pte' = [t EXCEPT ![p][g] = <<"ram", f>>]
    BY <1>2, <1>3, <1>8, <2>3, FpnFieldFits DEF Mapped, Evicted
  <2> QED
    BY <2>2, <2>4, <2>5
<1>12. /\ fifo_pgn' \in [Proc -> Seq(Page)]
       /\ \A q \in Proc : /\ IsInjective(fifo_pgn'[q])
                          /\ ToSet(fifo_pgn'[q]) =
                               IF q = p THEN (ToSet(fifo_pgn[p]) \ {w}) \cup {g}
                                        ELSE ToSet(fifo_pgn[q])
  <2>1. PICK L \in Seq(Page) : L = Delisted(p)
    BY <1>1, VictimFacts
  <2>2. IsInjective(L) /\ ToSet(L) = ToSet(fifo_pgn[p]) \ {w}
    BY <1>1, <1>2, <2>1, VictimFacts
  <2>3. g \notin ToSet(L)
    BY <1>1, <2>2 DEF PagingInv, Victims
  <2>4. /\ Append(L, g) \in Seq(Page) /\ IsInjective(Append(L, g))
        /\ ToSet(Append(L, g)) = ToSet(L) \cup {g}
    BY <2>2, <2>3, AppendFacts
  <2>5. fifo_pgn \in [Proc -> Seq(Page)] /\ \A q \in Proc : IsInjective(fifo_pgn[q])
    BY DEF PagingInv, PagingTypeOK, Victims
  <2>6. \A q \in Proc : fifo_pgn'[q] = IF q = p THEN Append(L, g) ELSE fifo_pgn[q]
    BY <1>8, <2>1, <2>5
  <2>7. fifo_pgn' \in [Proc -> Seq(Page)]
    BY <1>8, <2>1, <2>4, <2>5
  <2> QED
    BY <2>2, <2>4, <2>5, <2>6, <2>7
<1>13. FrameChanged(p, g, a, w, f, s, v)
  BY <1>3, <1>5, <1>7, <1>8, <1>9, <1>10, <1>11, <1>12 DEF FrameChanged
<1> QED
  BY <1>3, <1>5, <1>7, <1>13

\* An eviction, with its copy to swap, keeps the invariant.
LEMMA FaultEvictInv ==
  ASSUME PagingInv, NEW p \in Proc, NEW g \in Page, g < sbrk[p], NEW a \in Accesses(p, g),
         FaultEvict(p, g, a)
  PROVE  PagingInv'
<1>1. PICK w \in Page, f \in Frame, s \in Slot, v \in Value :
        FrameChanged(p, g, a, w, f, s, v)
  BY FaultEvictFacts
<1>2. ~Present(p, g) /\ UNCHANGED <<ram_free, sbrk>>
  BY DEF FaultEvict
<1>3. /\ \A q \in Proc, h \in Page :
           pte'[q][h] = IF q = p /\ h = g THEN <<"ram", f>>
                        ELSE IF q = p /\ h = w THEN <<"swap", s>> ELSE pte[q][h]
      /\ w # g /\ pte[p][w] = <<"ram", f>>
  BY <1>1 DEF FrameChanged
<1>4. /\ <<"ram", f>> # Absent /\ <<"ram", f>>[1] = "ram" /\ <<"ram", f>>[2] = f
      /\ <<"swap", s>> # Absent /\ <<"swap", s>>[1] = "swap" /\ <<"swap", s>>[2] = s
      /\ "ram" # "swap" /\ <<"ram", f>> # <<"swap", s>>
  BY RamEntry, SwapEntry
<1>5. \A q \in Proc, h \in Page : pte[q][h] # <<"swap", s>>
  BY <1>1 DEF PagingInv, Separate, FrameChanged
<1>6. \A q \in Proc, h \in Page : pte[q][h] = <<"ram", f>> => q = p /\ h = w
  BY <1>3, <1>4 DEF PagingInv, Distinct
<1>7. PagingTypeOK'
  BY <1>1, <1>2 DEF PagingInv, PagingTypeOK, FrameChanged
<1>8. Distinct'
  <2> SUFFICES ASSUME NEW q \in Proc, NEW r \in Proc, NEW h \in Page, NEW k \in Page,
                      pte'[q][h] # Absent, pte'[q][h] = pte'[r][k]
               PROVE  q = r /\ h = k
    BY DEF Distinct
  <2>1. q = p /\ h = g <=> r = p /\ k = g
    BY <1>3, <1>4, <1>6
  <2>2. q = p /\ h = w <=> r = p /\ k = w
    BY <1>3, <1>4, <1>5
  <2>3. CASE q = p /\ h \in {g, w}
    BY <2>1, <2>2, <2>3
  <2>4. CASE ~(q = p /\ h \in {g, w})
    <3>1. pte[q][h] # Absent /\ pte[q][h] = pte[r][k]
      BY <1>3, <2>1, <2>2, <2>4
    <3> QED
      BY <3>1 DEF PagingInv, Distinct
  <2> QED
    BY <2>3, <2>4
<1>9. Separate'
  <2>1. ASSUME NEW q \in Proc, NEW h \in Page, NEW x \in ToSet(ram_free)
        PROVE  pte'[q][h] # <<"ram", x>>
    <3>1. x # f
      BY <1>3, <2>1 DEF PagingInv, Separate
    <3>2. <<"ram", x>> # <<"ram", f>> /\ <<"ram", x>> # <<"swap", s>>
      BY <3>1
    <3> QED
      BY <1>3, <2>1, <3>2 DEF PagingInv, Separate
  <2>2. ASSUME NEW q \in Proc, NEW h \in Page, NEW x \in ToSet(swp_free')
        PROVE  pte'[q][h] # <<"swap", x>>
    <3>1. x # s /\ x \in ToSet(swp_free)
      BY <1>1, <2>2 DEF FrameChanged
    <3>2. <<"swap", x>> # <<"ram", f>> /\ <<"swap", x>> # <<"swap", s>>
      BY <3>1
    <3> QED
      BY <1>3, <3>1, <3>2 DEF PagingInv, Separate
  <2> QED
    BY <1>1, <1>2, <2>1, <2>2 DEF PagingInv, Separate, FrameChanged
<1>10. Complete'
  <2> SUFFICES ASSUME NEW x \in Frame, x \notin ToSet(ram_free)
               PROVE  \E q \in Proc, h \in Page : pte'[q][h] = <<"ram", x>>
    BY <1>2 DEF Complete
  <2>1. PICK q \in Proc, h \in Page : pte[q][h] = <<"ram", x>>
    BY DEF PagingInv, Complete
  <2>2. CASE x = f
    BY <1>3, <2>2
  <2>3. CASE x # f
    <3>1. <<"ram", x>> # Absent /\ <<"ram", x>>[1] = "ram" /\ <<"ram", x>> # <<"ram", f>>
      BY <2>3, RamEntry
    <3>2. ~(q = p /\ h = g)
      BY <1>2, <2>1, <3>1 DEF Present
    <3>3. ~(q = p /\ h = w)
      BY <1>3, <2>1, <3>1
    <3> QED
      BY <1>3, <2>1, <3>2, <3>3
  <2> QED
    BY <2>2, <2>3
<1>11. Victims'
  <2>1. fifo_pgn' \in [Proc -> Seq(Page)] /\ swp_free # <<>>
    BY <1>1 DEF FrameChanged, FaultEvict
  <2>2. \A q \in Proc : /\ IsInjective(fifo_pgn'[q])
                       /\ ToSet(fifo_pgn'[q]) =
                            IF q = p THEN (ToSet(fifo_pgn[p]) \ {w}) \cup {g}
                                     ELSE ToSet(fifo_pgn[q])
    BY <1>1 DEF FrameChanged
  <2>3. \A q \in Proc, h \in Page :
          Present(q, h)' <=> (q = p /\ h = g) \/ (Present(q, h) /\ ~(q = p /\ h = w))
    BY <1>3, <1>4 DEF Present
  <2> SUFFICES ASSUME NEW q \in Proc
               PROVE  /\ \A h \in ToSet(fifo_pgn'[q]) : Present(q, h)'
                      /\ \A h \in Page : Present(q, h)' => h \in ToSet(fifo_pgn'[q])
    BY <2>2 DEF Victims
  <2>4. ToSet(fifo_pgn'[q]) \subseteq Page
    BY <2>1, ElementOfSeq, LenProperties DEF ToSet
  <2>5. ASSUME NEW h \in Page, h \in ToSet(fifo_pgn'[q]) PROVE Present(q, h)'
    <3>1. (q = p /\ h = g) \/ (h \in ToSet(fifo_pgn[q]) /\ ~(q = p /\ h = w))
      BY <2>2, <2>5
    <3>2. h \in ToSet(fifo_pgn[q]) => Present(q, h)
      BY DEF PagingInv, Victims
    <3> QED
      BY <2>3, <3>1, <3>2
  <2>6. ASSUME NEW h \in Page, Present(q, h)' PROVE h \in ToSet(fifo_pgn'[q])
    <3>1. CASE q = p /\ h = g
      BY <2>2, <3>1
    <3>2. CASE Present(q, h) /\ ~(q = p /\ h = w)
      <4>1. h \in ToSet(fifo_pgn[q])
        BY <2>1, <3>2 DEF PagingInv, Victims
      <4> QED
        BY <2>2, <3>2, <4>1
    <3> QED
      BY <2>3, <2>6, <3>1, <3>2
  <2> QED
    BY <2>4, <2>5, <2>6
<1>12. Within'
  <2>1. ~(sbrk[p] <= g)
    <3>1. sbrk[p] \in Nat /\ g \in Nat
      BY PagingAssumption DEF PagingInv, PagingTypeOK, Page
    <3> QED
      BY <3>1
  <2>2. pte[p][w] # Absent
    BY <1>3, <1>4
  <2> QED
    BY <1>2, <1>3, <2>1, <2>2 DEF PagingInv, Within
<1> QED
  BY <1>7, <1>8, <1>9, <1>10, <1>11, <1>12 DEF PagingInv

\* The accesses that fail.
LEMMA FailInv ==
  ASSUME PagingInv, NEW p \in Proc, NEW g \in Page, NEW a \in Accesses(p, g),
         FaultNoVictim(p, g, a) \/ FaultNoSlot(p, g, a)
  PROVE  PagingInv'
<1>1. UNCHANGED <<pte, ram_free, swp_free, ram, swp, sbrk>>
  BY DEF FaultNoVictim, FaultNoSlot
<1>2. /\ fifo_pgn' \in [Proc -> Seq(Page)]
      /\ \A q \in Proc :
           /\ IsInjective(fifo_pgn'[q]) /\ ToSet(fifo_pgn'[q]) \subseteq ToSet(fifo_pgn[q])
           /\ fifo_pgn'[q] = fifo_pgn[q] \/ swp_free = <<>>
  <2>0. fifo_pgn \in [Proc -> Seq(Page)] /\ \A q \in Proc : IsInjective(fifo_pgn[q])
    BY DEF PagingInv, PagingTypeOK, Victims
  <2>1. CASE FaultNoVictim(p, g, a)
    BY <2>0, <2>1 DEF FaultNoVictim
  <2>2. CASE FaultNoSlot(p, g, a)
    <3>1. /\ fifo_pgn' = [fifo_pgn EXCEPT ![p] = Delisted(p)]
          /\ fifo_pgn[p] # <<>> /\ swp_free = <<>>
      BY <2>2 DEF FaultNoSlot
    <3>2. /\ Delisted(p) \in Seq(Page) /\ IsInjective(Delisted(p))
          /\ ToSet(Delisted(p)) \subseteq ToSet(fifo_pgn[p])
      BY <3>1, VictimFacts
    <3>3. \A q \in Proc : fifo_pgn'[q] = IF q = p THEN Delisted(p) ELSE fifo_pgn[q]
      BY <2>0, <3>1
    <3>4. fifo_pgn' \in [Proc -> Seq(Page)]
      BY <2>0, <3>1, <3>2
    <3> QED
      BY <2>0, <3>1, <3>2, <3>3, <3>4
  <2> QED
    BY <2>1, <2>2
<1>3. PagingTypeOK'
  BY <1>1, <1>2 DEF PagingInv, PagingTypeOK
<1>4. Distinct' /\ Separate' /\ Complete' /\ Within'
  BY <1>1 DEF PagingInv, Distinct, Separate, Complete, Within
<1>5. Victims'
  BY <1>1, <1>2 DEF PagingInv, Victims, Present
<1> QED
  BY <1>3, <1>4, <1>5 DEF PagingInv

-----------------------------------------------------------------------------
(* Extensions. *)

\* An extension maps the pages from sbrk on.
LEMMA ExtendMaps ==
  ASSUME PagingInv, NEW p \in Proc, NEW n \in 1 .. NumPages, Extend(p, n)
  PROVE  VmapPageRange(p, sbrk[p], n)
<1>1. sbrk[p] \in Nat /\ n \in Nat /\ n >= 1 /\ Stride \in Nat /\ Stride >= 1
      /\ sbrk[p] + Stride * n <= NumPages /\ NumPages \in Nat
  BY PagingAssumption DEF PagingInv, PagingTypeOK, Extend
<1>2. \A a, b \in Nat : a >= 1 /\ b >= 1 => a * b \in Nat /\ a * b >= 1
  OBVIOUS
<1>3. sbrk[p] \in Page
  BY <1>1, <1>2 DEF Page
<1> QED
  BY <1>3, PgnFieldFits DEF Extend

\* The n frames that an extension takes, and the pages it maps them to.
LEMMA ExtendFacts ==
  ASSUME PagingInv, NEW p \in Proc, NEW n \in 1 .. NumPages, Extend(p, n)
  PROVE  /\ \A h \in Page : h \in sbrk[p] .. sbrk[p] + n - 1 <=>
                            sbrk[p] <= h /\ h - sbrk[p] + 1 \in 1 .. n
         /\ \A k \in 1 .. n : sbrk[p] + k - 1 \in Page /\ ram_free[k] \in Frame
         /\ sbrk'[p] \in 0 .. NumPages /\ sbrk[p] + n <= sbrk'[p]
         /\ \A q \in Proc : q # p => sbrk'[q] = sbrk[q]
         /\ sbrk[p] \in Nat /\ sbrk' \in [Proc -> 0 .. NumPages]
<1>1. sbrk \in [Proc -> 0 .. NumPages] /\ sbrk[p] \in Nat /\ n \in Nat /\ n >= 1
  BY PagingAssumption DEF PagingInv, PagingTypeOK
<1>2. Stride * n \in Nat /\ n <= Stride * n
  <2>1. Stride \in Nat /\ Stride >= 1
    BY PagingAssumption
  <2>2. \A a, b \in Nat : a >= 1 => b <= a * b /\ a * b \in Nat
    OBVIOUS
  <2> QED
    BY <1>1, <2>1, <2>2
<1>3. PICK m \in Nat : m = Stride * n
  BY <1>2
<1>4. sbrk[p] + m <= NumPages /\ n <= m /\ sbrk' = [sbrk EXCEPT ![p] = sbrk[p] + m]
  BY <1>2, <1>3 DEF Extend
<1>5. sbrk[p] + m \in 0 .. NumPages
  BY <1>1, <1>4, PagingAssumption
<1>6. /\ sbrk'[p] = sbrk[p] + m /\ sbrk' \in [Proc -> 0 .. NumPages]
      /\ \A q \in Proc : q # p => sbrk'[q] = sbrk[q]
  BY <1>1, <1>4, <1>5
<1>7. sbrk[p] + n <= sbrk'[p]
  BY <1>1, <1>3, <1>4, <1>6
<1>8. \A h \in Page : h \in sbrk[p] .. sbrk[p] + n - 1 <=>
                      sbrk[p] <= h /\ h - sbrk[p] + 1 \in 1 .. n
  BY <1>1, PagingAssumption DEF Page
<1>9. ASSUME NEW k \in 1 .. n PROVE sbrk[p] + k - 1 \in Page /\ ram_free[k] \in Frame
  <2>1. sbrk[p] + k - 1 \in 0 .. NumPages - 1
    BY <1>1, <1>3, <1>4, PagingAssumption
  <2>2. ram_free \in Seq(Frame) /\ Len(ram_free) >= n
    BY DEF PagingInv, PagingTypeOK, Extend
  <2>3. k \in 1 .. Len(ram_free)
    BY <1>1, <2>2, LenProperties
  <2> QED
    BY <2>1, <2>2, <2>3, ElementOfSeq DEF Page
<1> QED
  BY <1>1, <1>5, <1>6, <1>7, <1>8, <1>9

\* What Extend does to the page tables.
LEMMA ExtendEntries ==
  ASSUME PagingInv, NEW p \in Proc, NEW n \in 1 .. NumPages, Extend(p, n)
  PROVE  /\ pte' \in [Proc -> [Page -> Entry]]
         /\ \A q \in Proc, h \in Page :
              \/ pte'[q][h] = pte[q][h] /\ ~(q = p /\ h \in sbrk[p] .. sbrk[p] + n - 1)
              \/ /\ q = p /\ h \in sbrk[p] .. sbrk[p] + n - 1
                 /\ h - sbrk[p] + 1 \in 1 .. n /\ pte[q][h] = Absent
                 /\ pte'[q][h] = <<"ram", ram_free[h - sbrk[p] + 1]>>
<1>1. pte \in [Proc -> [Page -> Entry]]
  BY DEF PagingInv, PagingTypeOK
<1> DEFINE New(h) == <<"ram", FpnField(ram_free[h - sbrk[p] + 1])>>
           T == [h \in Page |-> IF h \in sbrk[p] .. sbrk[p] + n - 1 THEN New(h) ELSE pte[p][h]]
<1>2. pte' = [pte EXCEPT ![p] = T]
  BY ExtendMaps DEF VmapPageRange
<1>3. ASSUME NEW h \in Page, h \in sbrk[p] .. sbrk[p] + n - 1
      PROVE  /\ h - sbrk[p] + 1 \in 1 .. n /\ pte[p][h] = Absent
             /\ New(h) = <<"ram", ram_free[h - sbrk[p] + 1]>> /\ New(h) \in Entry
  <2>1. sbrk[p] <= h /\ h - sbrk[p] + 1 \in 1 .. n
    BY <1>3, ExtendFacts
  <2>2. ram_free[h - sbrk[p] + 1] \in Frame
    BY <2>1, ExtendFacts
  <2> QED
    BY <2>1, <2>2, FpnFieldFits, RamEntry DEF PagingInv, Within
<1> HIDE DEF New
<1>4. T \in [Page -> Entry]
  BY <1>1, <1>3
<1>5. \A h \in Page : T[h] = IF h \in sbrk[p] .. sbrk[p] + n - 1 THEN New(h) ELSE pte[p][h]
  OBVIOUS
<1> HIDE DEF T
<1>6. pte' \in [Proc -> [Page -> Entry]]
  BY <1>1, <1>2, <1>4
<1>7. \A q \in Proc : pte'[q] = IF q = p THEN T ELSE pte[q]
  BY <1>1, <1>2
<1> QED
  BY <1>3, <1>5, <1>6, <1>7

\* What Extend does to the lists.
LEMMA ExtendLists ==
  ASSUME PagingInv, NEW p \in Proc, NEW n \in 1 .. NumPages, Extend(p, n)
  PROVE  /\ ram_free' \in Seq(Frame) /\ IsInjective(ram_free')
         /\ ToSet(ram_free) = ToSet(ram_free') \cup {ram_free[k] : k \in 1 .. n}
         /\ \A k \in 1 .. n : ram_free[k] \notin ToSet(ram_free')
         /\ \A j, k \in 1 .. n : ram_free[j] = ram_free[k] => j = k
         /\ fifo_pgn' \in [Proc -> Seq(Page)]
         /\ \A q \in Proc : /\ IsInjective(fifo_pgn'[q])
                            /\ ToSet(fifo_pgn'[q]) =
                                 IF q = p THEN ToSet(fifo_pgn[p]) \cup (sbrk[p] .. sbrk[p] + n - 1)
                                          ELSE ToSet(fifo_pgn[q])
<1>1. n \in Nat /\ n >= 1 /\ sbrk[p] \in Nat
  BY ExtendFacts
<1>2. /\ ram_free \in Seq(Frame) /\ IsInjective(ram_free) /\ n <= Len(ram_free)
      /\ ram_free' = SubSeq(ram_free, n + 1, Len(ram_free))
  <2>1. ram_free \in Seq(Frame) /\ IsInjective(ram_free) /\ Len(ram_free) >= n
    BY DEF PagingInv, PagingTypeOK, Separate, Extend
  <2>2. n <= Len(ram_free)
    BY <1>1, <2>1, LenProperties
  <2> QED
    BY <2>1, <2>2 DEF Extend
<1>3. /\ ram_free' \in Seq(Frame) /\ IsInjective(ram_free')
      /\ ToSet(ram_free) = ToSet(ram_free') \cup {ram_free[k] : k \in 1 .. n}
      /\ \A k \in 1 .. n : ram_free[k] \notin ToSet(ram_free')
  <2>1. PICK s, t : s = ram_free /\ t = ram_free'
    OBVIOUS
  <2>2. s \in Seq(Frame) /\ IsInjective(s) /\ n <= Len(s) /\ t = SubSeq(s, n + 1, Len(s))
    BY <1>2, <2>1
  <2>3. /\ t \in Seq(Frame) /\ IsInjective(t)
        /\ ToSet(s) = ToSet(t) \cup {s[k] : k \in 1 .. n}
        /\ \A k \in 1 .. n : s[k] \notin ToSet(t)
    BY ONLY <1>1, <2>2, SplitFacts
  <2> QED
    BY <2>1, <2>3
<1>4. ASSUME NEW j \in 1 .. n, NEW k \in 1 .. n, ram_free[j] = ram_free[k] PROVE j = k
  <2>1. j \in DOMAIN ram_free /\ k \in DOMAIN ram_free
    BY <1>1, <1>2, LenProperties
  <2> QED
    BY <1>2, <1>4, <2>1 DEF IsInjective
<1> DEFINE N == [j \in 1 .. n |-> sbrk[p] + j - 1]
<1>5. N \in Seq(Page)
  <2>1. \A j \in 1 .. n : sbrk[p] + j - 1 \in Page
    BY ExtendFacts
  <2> QED
    BY <1>1, <2>1
<1>6. IsInjective(N)
  BY <1>1 DEF IsInjective
<1>7. ToSet(N) = sbrk[p] .. sbrk[p] + n - 1
  <2>1. ASSUME NEW x \in sbrk[p] .. sbrk[p] + n - 1
        PROVE  x - sbrk[p] + 1 \in 1 .. n /\ N[x - sbrk[p] + 1] = x
    <3>1. x - sbrk[p] + 1 \in 1 .. n /\ sbrk[p] + (x - sbrk[p] + 1) - 1 = x
      BY <1>1
    <3> QED
      BY <3>1
  <2>2. ASSUME NEW j \in 1 .. n PROVE N[j] \in sbrk[p] .. sbrk[p] + n - 1
    BY <1>1
  <2>3. DOMAIN N = 1 .. n
    OBVIOUS
  <2> HIDE DEF N
  <2> QED
    BY <2>1, <2>2, <2>3 DEF ToSet
<1>8. fifo_pgn' = [fifo_pgn EXCEPT ![p] = fifo_pgn[p] \o N]
  BY ExtendMaps DEF VmapPageRange
<1> HIDE DEF N
<1>9. fifo_pgn \in [Proc -> Seq(Page)] /\ \A q \in Proc : IsInjective(fifo_pgn[q])
  BY DEF PagingInv, PagingTypeOK, Victims
<1>10. ToSet(fifo_pgn[p]) \cap ToSet(N) = {}
  <2> SUFFICES ASSUME NEW x \in ToSet(fifo_pgn[p]), x \in ToSet(N) PROVE FALSE
    OBVIOUS
  <2>1. pte[p][x] # Absent
    BY DEF PagingInv, Victims, Present
  <2>2. x \in Page
    BY <1>9, ElementOfSeq, LenProperties DEF ToSet
  <2>3. sbrk[p] <= x
    BY <1>1, <1>7
  <2> QED
    BY <2>1, <2>2, <2>3 DEF PagingInv, Within
<1>11. PICK L \in Seq(Page) : L = fifo_pgn[p]
  BY <1>9
<1>12. /\ L \o N \in Seq(Page) /\ IsInjective(L \o N)
       /\ ToSet(L \o N) = ToSet(L) \cup ToSet(N)
  <2>1. IsInjective(L) /\ ToSet(L) \cap ToSet(N) = {}
    BY <1>9, <1>10, <1>11
  <2> QED
    BY <1>5, <1>6, <2>1, ConcatFacts
<1>13. fifo_pgn' \in [Proc -> Seq(Page)]
  BY <1>8, <1>9, <1>11, <1>12
<1>14. \A q \in Proc : fifo_pgn'[q] = IF q = p THEN L \o N ELSE fifo_pgn[q]
  BY <1>8, <1>9, <1>11
<1> QED
  BY <1>3, <1>4, <1>7, <1>9, <1>11, <1>12, <1>13, <1>14

\* inc_vma_limit maps new pages to free frames only.
LEMMA ExtendInv ==
  ASSUME PagingInv, NEW p \in Proc, NEW n \in 1 .. NumPages, Extend(p, n)
  PROVE  PagingInv'
<1>1. PICK b \in Nat : b = sbrk[p]
  BY ExtendFacts
<1>2. \A q \in Proc, h \in Page :
        \/ pte'[q][h] = pte[q][h] /\ ~(q = p /\ h \in b .. b + n - 1)
        \/ /\ q = p /\ h \in b .. b + n - 1
           /\ h - b + 1 \in 1 .. n /\ pte[q][h] = Absent
           /\ pte'[q][h] = <<"ram", ram_free[h - b + 1]>>
  BY <1>1, ExtendEntries
<1>3. UNCHANGED <<swp_free, ram, swp>>
  BY DEF Extend
<1>0. /\ ToSet(ram_free) = ToSet(ram_free') \cup {ram_free[k] : k \in 1 .. n}
      /\ \A k \in 1 .. n : ram_free[k] \notin ToSet(ram_free')
  BY ExtendLists
<1>4. \A k \in 1 .. n : ram_free[k] \in Frame /\ ram_free[k] \in ToSet(ram_free)
  <2>1. \A k \in 1 .. n : ram_free[k] \in Frame
    BY ExtendFacts
  <2> QED
    BY <1>0, <2>1
<1>5. \A q \in Proc, h \in Page, k \in 1 .. n : pte[q][h] # <<"ram", ram_free[k]>>
  BY <1>4 DEF PagingInv, Separate
<1>6. \A h \in Page, k \in Page :
        /\ h - b + 1 \in 1 .. n /\ k - b + 1 \in 1 .. n
        /\ <<"ram", ram_free[h - b + 1]>> = <<"ram", ram_free[k - b + 1]>>
        => h = k
  <2> SUFFICES ASSUME NEW h \in Page, NEW k \in Page,
                      h - b + 1 \in 1 .. n, k - b + 1 \in 1 .. n,
                      ram_free[h - b + 1] = ram_free[k - b + 1]
               PROVE  h = k
    OBVIOUS
  <2>1. h - b + 1 = k - b + 1
    BY ExtendLists
  <2> QED
    BY <2>1, PagingAssumption DEF Page
<1>7. PagingTypeOK'
  <2>1. pte' \in [Proc -> [Page -> Entry]]
    BY ExtendEntries
  <2>2. fifo_pgn' \in [Proc -> Seq(Page)] /\ ram_free' \in Seq(Frame)
    BY ExtendLists
  <2>3. sbrk' \in [Proc -> 0 .. NumPages]
    BY ExtendFacts
  <2> QED
    BY <1>3, <2>1, <2>2, <2>3 DEF PagingInv, PagingTypeOK
<1>8. Distinct'
  <2> SUFFICES ASSUME NEW q \in Proc, NEW r \in Proc, NEW h \in Page, NEW k \in Page,
                      pte'[q][h] # Absent, pte'[q][h] = pte'[r][k]
               PROVE  q = r /\ h = k
    BY DEF Distinct
  <2>1. CASE q = p /\ h \in b .. b + n - 1 /\ r = p /\ k \in b .. b + n - 1
    BY <1>2, <1>6, <2>1
  <2>2. CASE ~(q = p /\ h \in b .. b + n - 1) /\ ~(r = p /\ k \in b .. b + n - 1)
    <3>1. pte'[q][h] = pte[q][h] /\ pte'[r][k] = pte[r][k]
      BY <1>2, <2>2
    <3>2. pte[q][h] # Absent /\ pte[q][h] = pte[r][k]
      BY <3>1
    <3> QED
      BY <3>2 DEF PagingInv, Distinct
  <2>3. CASE q = p /\ h \in b .. b + n - 1 /\ ~(r = p /\ k \in b .. b + n - 1)
    BY <1>2, <1>5, <2>3
  <2>4. CASE ~(q = p /\ h \in b .. b + n - 1) /\ r = p /\ k \in b .. b + n - 1
    BY <1>2, <1>5, <2>4
  <2> QED
    BY <2>1, <2>2, <2>3, <2>4
<1>9. Separate'
  <2>1. ASSUME NEW q \in Proc, NEW h \in Page, NEW x \in ToSet(ram_free')
        PROVE  pte'[q][h] # <<"ram", x>>
    <3>1. x \in ToSet(ram_free) /\ \A k \in 1 .. n : x # ram_free[k]
      BY <1>0
    <3>2. pte[q][h] # <<"ram", x>>
      BY <3>1 DEF PagingInv, Separate
    <3>3. \A k \in 1 .. n : <<"ram", x>> # <<"ram", ram_free[k]>>
      BY <3>1
    <3> QED
      BY <1>2, <3>2, <3>3
  <2>2. ASSUME NEW q \in Proc, NEW h \in Page, NEW x \in ToSet(swp_free)
        PROVE  pte'[q][h] # <<"swap", x>>
    <3>1. pte[q][h] # <<"swap", x>>
      BY DEF PagingInv, Separate
    <3>2. \A k \in 1 .. n : <<"swap", x>> # <<"ram", ram_free[k]>>
      OBVIOUS
    <3> QED
      BY <1>2, <3>1, <3>2
  <2>3. IsInjective(ram_free') /\ IsInjective(swp_free)
    BY ExtendLists DEF PagingInv, Separate
  <2> QED
    BY <1>3, <2>1, <2>2, <2>3 DEF Separate
<1>10. Complete'
  <2> SUFFICES ASSUME NEW x \in Frame, x \notin ToSet(ram_free')
               PROVE  \E q \in Proc, h \in Page : pte'[q][h] = <<"ram", x>>
    BY DEF Complete
  <2>1. CASE \E k \in 1 .. n : x = ram_free[k]
    <3>1. PICK k \in 1 .. n : x = ram_free[k]
      BY <2>1
    <3>2. PICK h \in Page : h = b + k - 1
      BY <1>1, ExtendFacts
    <3>3. h - b + 1 = k /\ h \in b .. b + n - 1
      BY <3>2
    <3> QED
      BY <1>2, <3>1, <3>3
  <2>2. CASE ~\E k \in 1 .. n : x = ram_free[k]
    <3>1. x \notin ToSet(ram_free)
      BY <1>0, <2>2
    <3>2. PICK q \in Proc, h \in Page : pte[q][h] = <<"ram", x>>
      BY <3>1 DEF PagingInv, Complete
    <3>3. <<"ram", x>> # Absent
      BY RamEntry
    <3> QED
      BY <1>2, <3>2, <3>3
  <2> QED
    BY <2>1, <2>2
<1>11. Victims'
  <2>1. /\ fifo_pgn' \in [Proc -> Seq(Page)]
        /\ \A q \in Proc : /\ IsInjective(fifo_pgn'[q])
                           /\ ToSet(fifo_pgn'[q]) =
                                IF q = p THEN ToSet(fifo_pgn[p]) \cup (b .. b + n - 1)
                                         ELSE ToSet(fifo_pgn[q])
    <3>1. /\ fifo_pgn' \in [Proc -> Seq(Page)]
          /\ \A q \in Proc : /\ IsInjective(fifo_pgn'[q])
                             /\ ToSet(fifo_pgn'[q]) =
                                  IF q = p THEN ToSet(fifo_pgn[p]) \cup (sbrk[p] .. sbrk[p] + n - 1)
                                           ELSE ToSet(fifo_pgn[q])
      BY ExtendLists
    <3> QED
      BY <1>1, <3>1
  <2> SUFFICES ASSUME NEW q \in Proc
               PROVE  /\ \A h \in ToSet(fifo_pgn'[q]) : Present(q, h)'
                      /\ \A h \in Page :
                           Present(q, h)' => swp_free' = <<>> \/ h \in ToSet(fifo_pgn'[q])
    BY <2>1 DEF Victims
  <2>2. ToSet(fifo_pgn'[q]) \subseteq Page
    <3>1. PICK s : s = fifo_pgn'[q] /\ s \in Seq(Page)
      BY <2>1
    <3>2. DOMAIN s = 1 .. Len(s) /\ \A j \in 1 .. Len(s) : s[j] \in Page
      BY <3>1, ElementOfSeq, LenProperties
    <3> QED
      BY <3>1, <3>2 DEF ToSet
  <2>3. \A h \in Page : Present(q, h)' <=> Present(q, h) \/ (q = p /\ h \in b .. b + n - 1)
    <3> SUFFICES ASSUME NEW h \in Page
                 PROVE  Present(q, h)' <=> Present(q, h) \/ (q = p /\ h \in b .. b + n - 1)
      OBVIOUS
    <3>1. CASE ~(q = p /\ h \in b .. b + n - 1)
      BY <1>2, <3>1 DEF Present
    <3>2. CASE q = p /\ h \in b .. b + n - 1
      <4>1. PICK f \in Frame : pte'[q][h] = <<"ram", f>>
        BY <1>2, <1>4, <3>2
      <4> QED
        BY <3>2, <4>1, RamEntry DEF Present
    <3> QED
      BY <3>1, <3>2
  <2>4. ASSUME NEW h \in ToSet(fifo_pgn'[q]) PROVE Present(q, h)'
    BY <2>1, <2>2, <2>3 DEF PagingInv, Victims
  <2>5. ASSUME NEW h \in Page, Present(q, h)'
        PROVE  swp_free' = <<>> \/ h \in ToSet(fifo_pgn'[q])
    BY <1>3, <2>1, <2>3, <2>5 DEF PagingInv, Victims
  <2> QED
    BY <2>4, <2>5
<1>12. Within'
  <2> SUFFICES ASSUME NEW q \in Proc, NEW h \in Page, sbrk'[q] <= h PROVE pte'[q][h] = Absent
    BY DEF Within
  <2>1. sbrk[q] <= h /\ ~(q = p /\ h \in b .. b + n - 1)
    <3>1. CASE q # p
      BY <3>1, ExtendFacts
    <3>2. CASE q = p
      <4>1. b + n <= sbrk'[p] /\ sbrk'[p] \in Nat /\ h \in Nat /\ sbrk'[p] <= h
        BY <1>1, <3>2, ExtendFacts, PagingAssumption DEF Page
      <4> QED
        BY <1>1, <3>2, <4>1
    <3> QED
      BY <3>1, <3>2
  <2> QED
    BY <1>2, <2>1 DEF PagingInv, Within
<1> QED
  BY <1>7, <1>8, <1>9, <1>10, <1>11, <1>12 DEF PagingInv

\* An extension that gets no frames moves sbrk alone.
LEMMA ExtendUnmappedInv ==
  ASSUME PagingInv, NEW p \in Proc, NEW n \in 1 .. NumPages, ExtendUnmapped(p, n)
  PROVE  PagingInv'
<1>1. /\ UNCHANGED <<pte, fifo_pgn, swp_free, ram, swp>>
      /\ ram_free' = Reverse(ram_free)
  BY DEF ExtendUnmapped
<1>2. /\ ram_free' \in Seq(Frame) /\ IsInjective(ram_free')
      /\ ToSet(ram_free') = ToSet(ram_free)
  BY <1>1, ReverseFacts DEF PagingInv, PagingTypeOK, Separate
<1>3. /\ sbrk' \in [Proc -> 0 .. NumPages]
      /\ \A q \in Proc : sbrk[q] \in Nat /\ sbrk'[q] \in Nat /\ sbrk[q] <= sbrk'[q]
  <2>1. sbrk \in [Proc -> 0 .. NumPages] /\ sbrk[p] \in Nat
    BY PagingAssumption DEF PagingInv, PagingTypeOK
  <2>2. PICK m \in Nat : m = Stride * n
    <3>1. \A a, b \in Nat : a * b \in Nat
      OBVIOUS
    <3> QED
      BY <3>1, PagingAssumption
  <2>3. sbrk[p] + m <= NumPages /\ sbrk' = [sbrk EXCEPT ![p] = sbrk[p] + m]
    BY <2>2 DEF ExtendUnmapped
  <2>4. sbrk[p] + m \in 0 .. NumPages /\ sbrk[p] <= sbrk[p] + m
    BY <2>1, <2>3, PagingAssumption
  <2> QED
    BY <2>1, <2>3, <2>4, PagingAssumption
<1>4. PagingTypeOK'
  BY <1>1, <1>2, <1>3 DEF PagingInv, PagingTypeOK
<1>5. Distinct' /\ Separate' /\ Complete'
  <2>1. Distinct'
    BY <1>1 DEF PagingInv, Distinct
  <2>2. Separate'
    BY <1>1, <1>2 DEF PagingInv, Separate
  <2>3. Complete'
    BY <1>1, <1>2 DEF PagingInv, Complete
  <2> QED
    BY <2>1, <2>2, <2>3
<1>7. Victims'
  BY <1>1 DEF PagingInv, Victims, Present
<1>6. Within'
  <2> SUFFICES ASSUME NEW q \in Proc, NEW h \in Page, sbrk'[q] <= h PROVE pte[q][h] = Absent
    BY <1>1 DEF Within
  <2>1. sbrk[q] <= h
    <3>1. h \in Nat /\ sbrk[q] \in Nat /\ sbrk'[q] \in Nat /\ sbrk[q] <= sbrk'[q]
      BY <1>3, PagingAssumption DEF Page
    <3> QED
      BY <3>1
  <2> QED
    BY <2>1 DEF PagingInv, Within
<1> QED
  BY <1>4, <1>5, <1>6, <1>7 DEF PagingInv

\* An access is to a page below sbrk.
LEMMA AccessPage ==
  ASSUME PagingInv, NEW p \in Proc, Access(p)
  PROVE  \E g \in Page : g < sbrk[p] /\ \E a \in Accesses(p, g) :
           \/ Hit(p, g, a) \/ FaultFree(p, g, a) \/ FaultEvict(p, g, a)
           \/ FaultNoVictim(p, g, a) \/ FaultNoSlot(p, g, a)
<1>1. sbrk[p] \in Nat /\ sbrk[p] <= NumPages
  BY PagingAssumption DEF PagingInv, PagingTypeOK
<1>2. PICK v \in 0 .. sbrk[p] - 1 : \E a \in Accesses(p, v) :
        \/ Hit(p, PgnField(v), a) \/ FaultFree(p, PgnField(v), a)
        \/ FaultEvict(p, PgnField(v), a) \/ FaultNoVictim(p, PgnField(v), a)
        \/ FaultNoSlot(p, PgnField(v), a)
  BY DEF Access
<1>3. v \in Page /\ v < sbrk[p]
  BY <1>1, PagingAssumption DEF Page
<1>4. PgnField(v) = v
  BY <1>3, PgnFieldFits
<1> QED
  BY <1>2, <1>3, <1>4

\* The invariant is kept by every access and every extension.
LEMMA PagingNextInv == PagingInv /\ [PagingNext]_pagingVars => PagingInv'
<1> SUFFICES ASSUME PagingInv, [PagingNext]_pagingVars PROVE PagingInv'
  OBVIOUS
<1>1. CASE PagingNext
  <2>1. PICK p \in Proc : \/ Access(p)
                          \/ \E n \in 1 .. NumPages : Extend(p, n) \/ ExtendUnmapped(p, n)
    BY <1>1 DEF PagingNext
  <2>2. CASE Access(p)
    <3>1. PICK g \in Page : g < sbrk[p] /\ \E a \in Accesses(p, g) :
            \/ Hit(p, g, a) \/ FaultFree(p, g, a) \/ FaultEvict(p, g, a)
            \/ FaultNoVictim(p, g, a) \/ FaultNoSlot(p, g, a)
      BY <2>2, AccessPage
    <3> QED
      BY <3>1, HitInv, FaultFreeInv, FaultEvictInv, FailInv
  <2>3. CASE \E n \in 1 .. NumPages : Extend(p, n) \/ ExtendUnmapped(p, n)
    BY <2>3, ExtendInv, ExtendUnmappedInv
  <2> QED
    BY <2>1, <2>2, <2>3
<1>2. CASE UNCHANGED pagingVars
  <2>1. PagingTypeOK' /\ Within'
    BY <1>2 DEF PagingInv, PagingTypeOK, Within, pagingVars
  <2>2. Distinct' /\ Complete'
    BY <1>2 DEF PagingInv, Distinct, Complete, pagingVars
  <2>3. Separate'
    BY <1>2 DEF PagingInv, Separate, pagingVars
  <2>4. Victims'
    BY <1>2 DEF PagingInv, Victims, Present, pagingVars
  <2> QED
    BY <2>1, <2>2, <2>3, <2>4 DEF PagingInv
<1> QED
  BY <1>1, <1>2

\* The strengthening: the four properties below, and that nothing is mapped
\* beyond the end of an area, so that an extension never maps a page twice.
THEOREM AlwaysPagingInv == PagingSpec => []PagingInv
BY PagingInitInv, PagingNextInv, PTL DEF PagingSpec

-----------------------------------------------------------------------------
(* The properties of the runs. *)

\* Every entry names a frame of RAM or a slot of the swap device.
THEOREM AlwaysPagingTypeOK == PagingSpec => []PagingTypeOK
<1>1. PagingInv => PagingTypeOK
  BY DEF PagingInv
<1> QED
  BY <1>1, AlwaysPagingInv, PTL

\* Every frame of RAM has one owner, a page or the free list: pg_getpage and
\* alloc_pages_range never give one frame to two pages, and lose none.
THEOREM AlwaysFrameExclusive == PagingSpec => []FrameExclusive
<1>1. ASSUME PagingInv PROVE FrameExclusive
  <2> SUFFICES ASSUME NEW f \in Frame
               PROVE  \/ /\ FreeEntries(f) = {}
                         /\ \E x \in Proc \X Page : FrameOwners(f) = {x}
                      \/ /\ FrameOwners(f) = {}
                         /\ \E n \in DOMAIN ram_free : FreeEntries(f) = {n}
    BY DEF FrameExclusive
  <2>1. CASE f \in ToSet(ram_free)
    <3>1. PICK n \in DOMAIN ram_free : ram_free[n] = f
      BY <2>1 DEF ToSet
    <3>2. FreeEntries(f) = {n}
      BY <1>1, <3>1 DEF PagingInv, Separate, IsInjective, FreeEntries
    <3>3. \A p \in Proc, g \in Page : pte[p][g] # <<"ram", f>>
      BY <1>1, <2>1 DEF PagingInv, Separate
    <3>4. FrameOwners(f) = {}
      BY <3>3 DEF FrameOwners
    <3> QED
      BY <3>2, <3>4
  <2>2. CASE f \notin ToSet(ram_free)
    <3>1. FreeEntries(f) = {}
      BY <2>2 DEF FreeEntries, ToSet
    <3>2. PICK p \in Proc, g \in Page : pte[p][g] = <<"ram", f>>
      BY <1>1, <2>2 DEF PagingInv, Complete
    <3>3. <<"ram", f>> # Absent
      BY RamEntry
    <3>4. \A q \in Proc, h \in Page : pte[q][h] = <<"ram", f>> => q = p /\ h = g
      BY <1>1, <3>2, <3>3 DEF PagingInv, Distinct
    <3>5. FrameOwners(f) = {<<p, g>>}
      BY <3>2, <3>4 DEF FrameOwners
    <3> QED
      BY <3>1, <3>5
  <2> QED
    BY <2>1, <2>2
<1> QED
  BY <1>1, AlwaysPagingInv, PTL

\* A slot of the swap device holds one page at most, whatever is swapped out
\* and in.
THEOREM AlwaysSlotExclusive == PagingSpec => []SlotExclusive
<1>1. ASSUME PagingInv PROVE SlotExclusive
  <2> SUFFICES ASSUME NEW s \in Slot
               PROVE  LET owners == {x \in Proc \X Page : pte[x[1]][x[2]] = <<"swap", s>>}
                          entries == {n \in DOMAIN swp_free : swp_free[n] = s}
                      IN /\ \A x, y \in owners : x = y
                         /\ \A m, n \in entries : m = n
                         /\ owners = {} \/ entries = {}
    BY DEF SlotExclusive
  <2> DEFINE owners == {x \in Proc \X Page : pte[x[1]][x[2]] = <<"swap", s>>}
             entries == {n \in DOMAIN swp_free : swp_free[n] = s}
  <2>1. <<"swap", s>> # Absent
    BY SwapEntry
  <2>2. ASSUME NEW x \in owners, NEW y \in owners PROVE x = y
    <3>1. PICK p \in Proc, g \in Page : x = <<p, g>> /\ pte[p][g] = <<"swap", s>>
      OBVIOUS
    <3>2. PICK q \in Proc, h \in Page : y = <<q, h>> /\ pte[q][h] = <<"swap", s>>
      OBVIOUS
    <3>3. p = q /\ g = h
      BY <1>1, <2>1, <3>1, <3>2 DEF PagingInv, Distinct
    <3> QED
      BY <3>1, <3>2, <3>3
  <2>3. \A m, n \in entries : m = n
    BY <1>1 DEF PagingInv, Separate, IsInjective
  <2>4. ASSUME entries # {} PROVE owners = {}
    <3>1. s \in ToSet(swp_free)
      BY <2>4 DEF ToSet
    <3>2. \A p \in Proc, g \in Page : pte[p][g] # <<"swap", s>>
      BY <1>1, <3>1 DEF PagingInv, Separate
    <3> QED
      BY <3>2
  <2> QED
    BY <2>2, <2>3, <2>4
<1> QED
  BY <1>1, AlwaysPagingInv, PTL

\* find_victim_page returns a page that is in RAM, and no page in RAM is out of
\* its reach until the swap device is full.
THEOREM AlwaysFifoExact == PagingSpec => []FifoExact
<1>1. ASSUME PagingInv PROVE FifoExact
  <2> SUFFICES ASSUME NEW p \in Proc
               PROVE  /\ \A m, n \in DOMAIN fifo_pgn[p] :
                           fifo_pgn[p][m] = fifo_pgn[p][n] => m = n
                      /\ \A n \in DOMAIN fifo_pgn[p] : Present(p, fifo_pgn[p][n])
                      /\ \A g \in Page : Present(p, g) =>
                           swp_free = <<>> \/ \E n \in DOMAIN fifo_pgn[p] : fifo_pgn[p][n] = g
    BY DEF FifoExact
  <2>1. /\ IsInjective(fifo_pgn[p])
        /\ \A g \in ToSet(fifo_pgn[p]) : Present(p, g)
        /\ \A g \in Page : Present(p, g) => swp_free = <<>> \/ g \in ToSet(fifo_pgn[p])
    BY <1>1 DEF PagingInv, Victims
  <2>2. \A m, n \in DOMAIN fifo_pgn[p] : fifo_pgn[p][m] = fifo_pgn[p][n] => m = n
    BY <2>1 DEF IsInjective
  <2>3. \A n \in DOMAIN fifo_pgn[p] : Present(p, fifo_pgn[p][n])
    BY <2>1 DEF ToSet
  <2>4. \A g \in ToSet(fifo_pgn[p]) : \E n \in DOMAIN fifo_pgn[p] : fifo_pgn[p][n] = g
    BY DEF ToSet
  <2> QED
    BY <2>1, <2>2, <2>3, <2>4
<1> QED
  BY <1>1, AlwaysPagingInv, PTL

\* What does hold of the victim (VictimIsOldest does not): a page leaves RAM only
\* for a page of the same process, when RAM is full, and it is the page at the end
\* of the list, the last that find_victim_page can see to have come in.  A
\* process never loses a page to another one.
EvictsOwnNewest == [][
  \A p \in Proc, g \in Page :
    Present(p, g) /\ ~Present(p, g)' =>
      /\ ram_free = <<>> /\ fifo_pgn[p] # <<>> /\ g = Victim(p) /\ Swapped(p, g)'
      /\ \E h \in Page : ~Present(p, h) /\ pte'[p][h] = pte[p][g]
      /\ \A q \in Proc \ {p} : pte'[q] = pte[q] /\ fifo_pgn'[q] = fifo_pgn[q]
  ]_pagingVars

\* Calls that evict nothing leave every page in RAM that is there.
LEMMA StaysPresent ==
  ASSUME PagingInv, NEW p \in Proc,
         \/ \E g \in Page : \E a \in Accesses(p, g) :
              Hit(p, g, a) \/ FaultFree(p, g, a) \/ FaultNoVictim(p, g, a) \/ FaultNoSlot(p, g, a)
         \/ \E n \in 1 .. NumPages : Extend(p, n) \/ ExtendUnmapped(p, n),
         NEW q \in Proc, NEW h \in Page, Present(q, h)
  PROVE  Present(q, h)'
<1>1. CASE pte' = pte
  BY <1>1 DEF Present
<1>2. CASE \E g \in Page : \E a \in Accesses(p, g) : FaultFree(p, g, a)
  <2>1. PICK g \in Page : \E a \in Accesses(p, g) : FaultFree(p, g, a)
    BY <1>2
  <2>2. PICK a \in Accesses(p, g) : FaultFree(p, g, a)
    BY <2>1
  <2>3. PICK f \in Frame, v \in Value : FreeTaken(p, g, a, f, v)
    BY <2>2, FaultFreeFacts
  <2>4. pte'[q][h] = <<"ram", f>> \/ pte'[q][h] = pte[q][h]
    BY <2>3 DEF FreeTaken
  <2> QED
    BY <2>4, RamEntry DEF Present
<1>3. CASE \E n \in 1 .. NumPages : Extend(p, n)
  <2>1. PICK n \in 1 .. NumPages : Extend(p, n)
    BY <1>3
  <2>2. pte'[q][h] = pte[q][h] \/ pte[q][h] = Absent
    BY <2>1, ExtendEntries
  <2> QED
    BY <2>2 DEF Present
<1> QED
  BY <1>1, <1>2, <1>3 DEF Hit, FaultNoVictim, FaultNoSlot, ExtendUnmapped

\* An eviction takes the end of the process's own list out of RAM, and the page
\* that faulted gets its frame.
LEMMA EvictsVictim ==
  ASSUME PagingInv, NEW p \in Proc, NEW g \in Page, NEW a \in Accesses(p, g),
         FaultEvict(p, g, a), NEW q \in Proc, NEW h \in Page, Present(q, h), ~Present(q, h)'
  PROVE  /\ q = p /\ h = Victim(p) /\ ram_free = <<>> /\ fifo_pgn[p] # <<>>
         /\ Swapped(p, h)' /\ ~Present(p, g) /\ pte'[p][g] = pte[p][h]
         /\ \A r \in Proc \ {p} : pte'[r] = pte[r] /\ fifo_pgn'[r] = fifo_pgn[r]
<1>1. /\ ~Present(p, g) /\ ram_free = <<>> /\ fifo_pgn[p] # <<>> /\ swp_free # <<>>
      /\ pte' = Mapped(Evicted(p, Head(swp_free)), p, g, pte[p][Victim(p)][2])
      /\ fifo_pgn' = [fifo_pgn EXCEPT ![p] = Enlisted(Delisted(p), g)]
  BY DEF FaultEvict
<1>2. PICK w \in Page, f \in Frame : w = Victim(p) /\ pte[p][w] = <<"ram", f>> /\ pte[p][w][2] = f
  BY <1>1, VictimFacts
<1>3. pte \in [Proc -> [Page -> Entry]] /\ fifo_pgn \in [Proc -> Seq(Page)]
  BY DEF PagingInv, PagingTypeOK
<1>4. PICK s : s = Head(swp_free)
  OBVIOUS
<1>5. s \in Slot
  BY <1>1, <1>4, HeadTailFacts DEF PagingInv, PagingTypeOK
<1>6. pte' = [[pte EXCEPT ![p][w] = <<"swap", s>>] EXCEPT ![p][g] = <<"ram", f>>]
  BY <1>1, <1>2, <1>4, FpnFieldFits DEF Mapped, Evicted
<1>7. /\ \A r \in Proc \ {p} : pte'[r] = pte[r] /\ fifo_pgn'[r] = fifo_pgn[r]
      /\ \A k \in Page : pte'[p][k] = IF k = g THEN <<"ram", f>>
                                       ELSE IF k = w THEN <<"swap", s>> ELSE pte[p][k]
  <2>1. PICK t : t = [pte EXCEPT ![p][w] = <<"swap", s>>]
    OBVIOUS
  <2>2. /\ t = [r \in Proc |-> t[r]] /\ t[p] = [k \in Page |-> t[p][k]]
        /\ \A r \in Proc \ {p} : t[r] = pte[r]
        /\ \A k \in Page : t[p][k] = IF k = w THEN <<"swap", s>> ELSE pte[p][k]
    BY <1>3, <2>1
  <2>3. pte' = [t EXCEPT ![p][g] = <<"ram", f>>]
    BY <1>6, <2>1
  <2>4. /\ \A r \in Proc \ {p} : pte'[r] = pte[r]
        /\ \A k \in Page : pte'[p][k] = IF k = g THEN <<"ram", f>>
                                         ELSE IF k = w THEN <<"swap", s>> ELSE pte[p][k]
    BY <2>2, <2>3
  <2>5. \A r \in Proc \ {p} : fifo_pgn'[r] = fifo_pgn[r]
    BY <1>1, <1>3
  <2> QED
    BY <2>4, <2>5
<1>8. /\ <<"ram", f>> # Absent /\ <<"ram", f>>[1] = "ram"
      /\ <<"swap", s>> # Absent /\ <<"swap", s>>[1] = "swap"
  BY <1>5, RamEntry, SwapEntry
<1>9. q = p /\ h = w
  BY <1>7, <1>8 DEF Present
<1>10. w # g
  BY <1>1, <1>9
<1>11. pte'[p][w] = <<"swap", s>> /\ pte'[p][g] = pte[p][w]
  BY <1>2, <1>7, <1>10
<1> QED
  BY <1>1, <1>2, <1>7, <1>8, <1>9, <1>11 DEF Swapped

\* The complement of the run that refutes VictimIsOldest, for every configuration:
\* replacement is local to a process and takes the newest page on its list.
THEOREM AlwaysEvictsOwnNewest == PagingSpec => EvictsOwnNewest
<1>1. ASSUME PagingInv, PagingNext, NEW q \in Proc, NEW h \in Page,
             Present(q, h), ~Present(q, h)'
      PROVE  /\ ram_free = <<>> /\ fifo_pgn[q] # <<>> /\ h = Victim(q) /\ Swapped(q, h)'
             /\ \E k \in Page : ~Present(q, k) /\ pte'[q][k] = pte[q][h]
             /\ \A r \in Proc \ {q} : pte'[r] = pte[r] /\ fifo_pgn'[r] = fifo_pgn[r]
  <2>1. PICK p \in Proc : Access(p) \/ \E n \in 1 .. NumPages : Extend(p, n) \/ ExtendUnmapped(p, n)
    BY <1>1 DEF PagingNext
  <2>2. Access(p)
    BY <1>1, <2>1, StaysPresent
  <2>3. PICK g \in Page : \E a \in Accesses(p, g) :
          \/ Hit(p, g, a) \/ FaultFree(p, g, a) \/ FaultEvict(p, g, a)
          \/ FaultNoVictim(p, g, a) \/ FaultNoSlot(p, g, a)
    BY <1>1, <2>2, AccessPage
  <2>4. PICK a \in Accesses(p, g) : FaultEvict(p, g, a)
    BY <1>1, <2>3, StaysPresent
  <2> QED
    BY <1>1, <2>4, EvictsVictim
<1>2. PagingInv /\ [PagingNext]_pagingVars =>
        [\A p \in Proc, g \in Page :
           Present(p, g) /\ ~Present(p, g)' =>
             /\ ram_free = <<>> /\ fifo_pgn[p] # <<>> /\ g = Victim(p) /\ Swapped(p, g)'
             /\ \E h \in Page : ~Present(p, h) /\ pte'[p][h] = pte[p][g]
             /\ \A q \in Proc \ {p} : pte'[q] = pte[q] /\ fifo_pgn'[q] = fifo_pgn[q]
        ]_pagingVars
  BY <1>1
<1> QED
  BY <1>2, AlwaysPagingInv, PTL DEF PagingSpec, EvictsOwnNewest

-----------------------------------------------------------------------------
(* Paging implements a flat memory. *)

\* The flat memory.
Mem == [p \in Proc |-> [g \in Page |-> Content(p, g)]]

\* The content of a page is where its entry points to.
Located(p, g) ==
  /\ pte[p][g] = Absent => Content(p, g) = Fresh
  /\ \A f \in Frame : pte[p][g] = <<"ram", f>> => Content(p, g) = ram[f]
  /\ \A s \in Slot : pte[p][g] = <<"swap", s>> => Content(p, g) = swp[s]

AllLocated == \A p \in Proc, g \in Page : Located(p, g)

\* The contents of a page are where its entry says.
LEMMA ContentLocated == AllLocated
<1> SUFFICES ASSUME NEW p \in Proc, NEW g \in Page PROVE Located(p, g)
  BY DEF AllLocated
<1>1. pte[p][g] = Absent => Content(p, g) = Fresh
  BY DEF Content, Present, Swapped
<1>2. ASSUME NEW f \in Frame, pte[p][g] = <<"ram", f>> PROVE Content(p, g) = ram[f]
  <2>1. Present(p, g) /\ pte[p][g][2] = f /\ ~Swapped(p, g)
    BY <1>2, RamEntry DEF Present, Swapped
  <2> QED
    BY <2>1 DEF Content
<1>3. ASSUME NEW s \in Slot, pte[p][g] = <<"swap", s>> PROVE Content(p, g) = swp[s]
  <2>1. Swapped(p, g) /\ pte[p][g][2] = s /\ ~Present(p, g)
    BY <1>3, SwapEntry DEF Present, Swapped
  <2> QED
    BY <2>1 DEF Content
<1> QED
  BY <1>1, <1>2, <1>3 DEF Located

\* And so they are after a step.
LEMMA ContentLocatedNext == AllLocated'
BY ContentLocated, PTL

\* The three kinds of entry.
LEMMA EntryOf ==
  ASSUME PagingInv, NEW p \in Proc, NEW g \in Page
  PROVE  \/ pte[p][g] = Absent
         \/ \E f \in Frame : pte[p][g] = <<"ram", f>> /\ Present(p, g) /\ ~Swapped(p, g)
         \/ \E s \in Slot : /\ pte[p][g] = <<"swap", s>> /\ pte[p][g][2] = s
                            /\ Swapped(p, g) /\ ~Present(p, g)
<1>1. pte[p][g] \in Entry
  BY DEF PagingInv, PagingTypeOK
<1> QED
  BY <1>1, EntryForms DEF Present, Swapped

MemTyped == Mem \in [Proc -> [Page -> Value \cup {Fresh}]]

\* The refinement mapping yields a memory of values.
LEMMA ContentType == PagingInv => MemTyped
<1> SUFFICES ASSUME PagingInv, NEW p \in Proc, NEW g \in Page
             PROVE  Content(p, g) \in Value \cup {Fresh}
  BY DEF Mem, MemTyped
<1>1. Located(p, g)
  BY ContentLocated DEF AllLocated
<1>2. ram \in [Frame -> Value] /\ swp \in [Slot -> Value]
  BY DEF PagingInv, PagingTypeOK
<1>3. \/ pte[p][g] = Absent
      \/ \E f \in Frame : pte[p][g] = <<"ram", f>>
      \/ \E s \in Slot : pte[p][g] = <<"swap", s>>
  BY EntryOf
<1> QED
  BY <1>1, <1>2, <1>3 DEF Located

\* And so it does after a step.
LEMMA ContentTypeNext == PagingInv' => MemTyped'
BY ContentType, PTL

\* An access is a read or a write of the flat memory if it changes page g only,
\* as the instruction asks, and page g held v or was never used.
LEMMA FlatAccess ==
  ASSUME NEW p \in Proc, NEW g \in Page, NEW a \in Accesses(p, g), NEW v \in Value,
         last' = Outcome(a, v),
         Content(p, g) \in {Fresh, v},
         \A q \in Proc, h \in Page :
           Content(q, h)' = IF q = p /\ h = g THEN ContentAfter(a, v) ELSE Content(q, h)
  PROVE  Flat!FlatNext
<1>1. PICK w : w = ContentAfter(a, v)
  OBVIOUS
<1>2. Mem' = [Mem EXCEPT ![p][g] = w]
  <2>1. Mem' = [q \in Proc |-> [h \in Page |-> IF q = p /\ h = g THEN w ELSE Content(q, h)]]
    BY <1>1 DEF Mem
  <2> QED
    BY <2>1 DEF Mem
<1>3. Mem[p][g] \in {Fresh, v}
  BY DEF Mem
<1>4. w \in Value
  BY <1>1, AccessForms
<1>5. CASE last' = <<"read", p, g, v>> /\ w = v
  <2>1. Flat!FlatRead(p, g)
    BY <1>2, <1>3, <1>5 DEF Flat!FlatRead, Flat!Becomes, Mem
  <2> QED
    BY <2>1 DEF Flat!FlatNext
<1>6. CASE last' = <<"write", p, g, w>>
  <2>1. Flat!FlatWrite(p, g, w)
    BY <1>2, <1>6 DEF Flat!FlatWrite, Flat!Stores, Mem
  <2> QED
    BY <1>4, <2>1 DEF Flat!FlatNext
<1> QED
  BY <1>1, <1>5, <1>6, AccessForms

\* What an access finds in the frame that page g gets: its own content, if it
\* ever had one.
LEMMA SwappedInContent ==
  ASSUME PagingInv, NEW p \in Proc, NEW g \in Page, ~Present(p, g), NEW v
  PROVE  Content(p, g) \in {Fresh, SwappedIn(p, g, v)}
<1>1. CASE pte[p][g] = Absent
  BY <1>1, ContentLocated DEF AllLocated, Located
<1>2. CASE \E s \in Slot : pte[p][g] = <<"swap", s>> /\ pte[p][g][2] = s /\ Swapped(p, g)
  BY <1>2, ContentLocated DEF AllLocated, Located, SwappedIn
<1> QED
  BY <1>1, <1>2, EntryOf

\* An access to a page in RAM is a read or a write of flat memory.
LEMMA HitFlat ==
  ASSUME PagingInv, NEW p \in Proc, NEW g \in Page, NEW a \in Accesses(p, g), Hit(p, g, a)
  PROVE  Flat!FlatNext
<1>1. PICK f \in Frame : pte[p][g] = <<"ram", f>> /\ pte[p][g][2] = f
  <2>1. PICK f \in Frame : pte[p][g] = <<"ram", f>>
    BY EntryOf, RamEntry DEF Hit, Present
  <2> QED
    BY <2>1, RamEntry
<1>2. PICK v \in Value : v = ram[f]
  BY DEF PagingInv, PagingTypeOK
<1>3. PICK w : w = ContentAfter(a, v)
  OBVIOUS
<1>4. /\ ram' = [ram EXCEPT ![f] = w] /\ last' = Outcome(a, v)
      /\ UNCHANGED <<pte, swp>>
  BY <1>1, <1>2, <1>3 DEF Hit
<1>5. \A x \in Frame : ram'[x] = IF x = f THEN w ELSE ram[x]
  BY <1>4 DEF PagingInv, PagingTypeOK
<1>6. Content(p, g) = v
  BY <1>1, <1>2, ContentLocated DEF AllLocated, Located
<1>7. ASSUME NEW q \in Proc, NEW h \in Page
      PROVE  Content(q, h)' = IF q = p /\ h = g THEN w ELSE Content(q, h)
  <2>1. Located(q, h) /\ Located(q, h)'
    BY ContentLocated, ContentLocatedNext DEF AllLocated
  <2>2. CASE q = p /\ h = g
    BY <1>1, <1>4, <1>5, <2>1, <2>2 DEF Located
  <2>3. CASE ~(q = p /\ h = g)
    <3>1. pte[q][h] # <<"ram", f>>
      <4>1. pte[p][g] # Absent
        BY <1>1, RamEntry
      <4>2. pte[p][g] # pte[q][h]
        BY <2>3, <4>1 DEF PagingInv, Distinct
      <4> QED
        BY <1>1, <4>2
    <3> QED
      BY <1>4, <1>5, <2>1, <2>3, <3>1, EntryOf DEF Located
  <2> QED
    BY <2>2, <2>3
<1> QED
  BY <1>3, <1>4, <1>6, <1>7, FlatAccess

\* An access that takes a free frame is a read or a write of flat memory.
LEMMA FaultFreeFlat ==
  ASSUME PagingInv, NEW p \in Proc, NEW g \in Page, NEW a \in Accesses(p, g),
         FaultFree(p, g, a)
  PROVE  Flat!FlatNext
<1>1. PICK f \in Frame, v \in Value : FreeTaken(p, g, a, f, v)
  BY FaultFreeFacts
<1>2. PICK w : w = ContentAfter(a, v)
  OBVIOUS
<1>3. /\ v = SwappedIn(p, g, ram[f]) /\ last' = Outcome(a, v)
      /\ ram' = [ram EXCEPT ![f] = w] /\ f \in ToSet(ram_free)
      /\ \A q \in Proc, h \in Page :
           pte'[q][h] = IF q = p /\ h = g THEN <<"ram", f>> ELSE pte[q][h]
      /\ swp' = swp /\ ~Present(p, g)
  BY <1>1, <1>2 DEF FreeTaken, FaultFree
<1>4. \A x \in Frame : ram'[x] = IF x = f THEN w ELSE ram[x]
  BY <1>3 DEF PagingInv, PagingTypeOK
<1>5. Content(p, g) \in {Fresh, v}
  BY <1>3, SwappedInContent
<1>6. ASSUME NEW q \in Proc, NEW h \in Page
      PROVE  Content(q, h)' = IF q = p /\ h = g THEN w ELSE Content(q, h)
  <2>1. Located(q, h) /\ Located(q, h)'
    BY ContentLocated, ContentLocatedNext DEF AllLocated
  <2>2. CASE q = p /\ h = g
    BY <1>3, <1>4, <2>1, <2>2 DEF Located
  <2>3. CASE ~(q = p /\ h = g)
    <3>1. pte[q][h] # <<"ram", f>> /\ pte'[q][h] = pte[q][h]
      BY <1>3, <2>3 DEF PagingInv, Separate
    <3> QED
      BY <1>3, <1>4, <2>1, <2>3, <3>1, EntryOf DEF Located
  <2> QED
    BY <2>2, <2>3
<1> QED
  BY <1>2, <1>3, <1>5, <1>6, FlatAccess

\* An access that evicts another page is a read or a write of flat memory.
LEMMA FaultEvictFlat ==
  ASSUME PagingInv, NEW p \in Proc, NEW g \in Page, NEW a \in Accesses(p, g),
         FaultEvict(p, g, a)
  PROVE  Flat!FlatNext
<1>1. PICK w \in Page, f \in Frame, s \in Slot, v \in Value :
        FrameChanged(p, g, a, w, f, s, v)
  BY FaultEvictFacts
<1>2. PICK c : c = ContentAfter(a, v)
  OBVIOUS
<1>3. /\ v = SwappedIn(p, g, ram[f]) /\ last' = Outcome(a, v)
      /\ ram' = [ram EXCEPT ![f] = c] /\ swp' = [swp EXCEPT ![s] = ram[f]]
      /\ w # g /\ pte[p][w] = <<"ram", f>>
      /\ s \in ToSet(swp_free)
      /\ \A q \in Proc, h \in Page :
           pte'[q][h] = IF q = p /\ h = g THEN <<"ram", f>>
                        ELSE IF q = p /\ h = w THEN <<"swap", s>> ELSE pte[q][h]
      /\ ~Present(p, g)
  BY <1>1, <1>2 DEF FrameChanged, FaultEvict
<1>4. /\ \A x \in Frame : ram'[x] = IF x = f THEN c ELSE ram[x]
      /\ \A x \in Slot : swp'[x] = IF x = s THEN ram[f] ELSE swp[x]
  BY <1>3 DEF PagingInv, PagingTypeOK
<1>5. Content(p, g) \in {Fresh, v}
  BY <1>3, SwappedInContent
<1>6. ASSUME NEW q \in Proc, NEW h \in Page
      PROVE  Content(q, h)' = IF q = p /\ h = g THEN c ELSE Content(q, h)
  <2>1. Located(q, h) /\ Located(q, h)'
    BY ContentLocated, ContentLocatedNext DEF AllLocated
  <2>2. CASE q = p /\ h = g
    BY <1>3, <1>4, <2>1, <2>2 DEF Located
  <2>3. CASE q = p /\ h = w
    BY <1>3, <1>4, <2>1, <2>3 DEF Located
  <2>4. CASE ~(q = p /\ h = g) /\ ~(q = p /\ h = w)
    <3>1. /\ pte[q][h] # <<"ram", f>> /\ pte[q][h] # <<"swap", s>>
          /\ pte'[q][h] = pte[q][h]
      <4>1. pte[q][h] # <<"ram", f>>
        BY <1>3, <2>4, RamEntry DEF PagingInv, Distinct
      <4>2. pte[q][h] # <<"swap", s>>
        BY <1>3 DEF PagingInv, Separate
      <4> QED
        BY <1>3, <2>4, <4>1, <4>2
    <3> QED
      BY <1>4, <2>1, <2>4, <3>1, EntryOf DEF Located
  <2> QED
    BY <2>2, <2>3, <2>4
<1> QED
  BY <1>2, <1>3, <1>5, <1>6, FlatAccess

\* A fault that fails changes no contents.
LEMMA FailFlat ==
  ASSUME NEW p \in Proc, NEW g \in Page, NEW a \in Accesses(p, g),
         FaultNoVictim(p, g, a) \/ FaultNoSlot(p, g, a)
  PROVE  Flat!FlatNext
<1>1. last' = Failure(a) /\ UNCHANGED <<pte, ram, swp>>
  BY DEF FaultNoVictim, FaultNoSlot
<1>2. last' = <<"fail", p, g>>
  <2>1. Zero \in Value
    BY PagingAssumption
  <2> QED
    BY <1>1, <2>1, AccessForms
<1>3. Mem' = Mem
  BY <1>1 DEF Mem, Content, Present, Swapped
<1>4. Flat!FlatFail(p, g)
  BY <1>2, <1>3 DEF Flat!FlatFail, Mem
<1> QED
  BY <1>4 DEF Flat!FlatNext

\* An extension changes the contents of no page that has any.
LEMMA ExtendFlat ==
  ASSUME PagingInv, PagingInv', NEW p \in Proc, NEW n \in 1 .. NumPages,
         Extend(p, n) \/ ExtendUnmapped(p, n)
  PROVE  Flat!FlatNext
<1>1. last' = <<"alloc", p>> /\ UNCHANGED <<ram, swp>>
  BY DEF Extend, ExtendUnmapped
<1>2. Mem' \in [Proc -> [Page -> Value \cup {Fresh}]]
  BY ContentTypeNext DEF MemTyped
<1>3. ASSUME NEW q \in Proc, NEW h \in Page, Content(q, h)' # Content(q, h)
      PROVE  q = p /\ Content(q, h) = Fresh
  <2>1. CASE pte'[q][h] = pte[q][h]
    BY <1>1, <1>3, <2>1 DEF Content, Present, Swapped
  <2>2. CASE Extend(p, n) /\ pte'[q][h] # pte[q][h]
    <3>1. q = p /\ pte[q][h] = Absent
      BY <2>2, ExtendEntries
    <3> QED
      BY <3>1, ContentLocated DEF AllLocated, Located
  <2> QED
    BY <2>1, <2>2 DEF ExtendUnmapped
<1>4. Flat!FlatPopulate(p)
  <2>1. \A q \in Proc, h \in Page :
          Mem'[q][h] # Mem[q][h] => q = p /\ Mem[q][h] = Fresh
    BY <1>3 DEF Mem
  <2> QED
    BY <1>1, <1>2, <2>1 DEF Flat!FlatPopulate, Mem
<1> QED
  BY <1>4 DEF Flat!FlatNext

\* Whatever is evicted, swapped in, mapped or refused, a read returns what was
\* last written to its page, by the process itself.
THEOREM PagingImplementsFlatMemory == PagingSpec => ImplementsFlatMemory
<1>1. PagingInit => Flat!FlatInit
  <2> SUFFICES ASSUME PagingInit PROVE Flat!FlatInit
    OBVIOUS
  <2>1. \A p \in Proc, g \in Page : pte[p][g] = Absent
    BY DEF PagingInit
  <2>2. \A p \in Proc, g \in Page : Content(p, g) = Fresh
    BY <2>1, ContentLocated DEF AllLocated, Located
  <2> QED
    BY <2>2 DEF Flat!FlatInit, PagingInit
<1>2. PagingInv /\ PagingInv' /\ [PagingNext]_pagingVars => [Flat!FlatNext]_(Flat!flatVars)
  <2> SUFFICES ASSUME PagingInv, PagingInv', [PagingNext]_pagingVars
               PROVE  [Flat!FlatNext]_(Flat!flatVars)
    OBVIOUS
  <2>1. CASE PagingNext
    <3>1. PICK p \in Proc : \/ Access(p)
                            \/ \E n \in 1 .. NumPages : Extend(p, n) \/ ExtendUnmapped(p, n)
      BY <2>1 DEF PagingNext
    <3>2. CASE Access(p)
      <4>1. PICK g \in Page : \E a \in Accesses(p, g) :
              \/ Hit(p, g, a) \/ FaultFree(p, g, a) \/ FaultEvict(p, g, a)
              \/ FaultNoVictim(p, g, a) \/ FaultNoSlot(p, g, a)
        BY <3>2, AccessPage
      <4>2. Flat!FlatNext
        BY <4>1, HitFlat, FaultFreeFlat, FaultEvictFlat, FailFlat
      <4> QED
        BY <4>2
    <3>3. CASE \E n \in 1 .. NumPages : Extend(p, n) \/ ExtendUnmapped(p, n)
      <4>1. Flat!FlatNext
        BY <3>3, ExtendFlat
      <4> QED
        BY <4>1
    <3> QED
      BY <3>1, <3>2, <3>3
  <2>2. CASE UNCHANGED pagingVars
    BY <2>2 DEF pagingVars, Flat!flatVars, Content, Present, Swapped
  <2> QED
    BY <2>1, <2>2
<1> QED
  BY <1>1, <1>2, AlwaysPagingInv, PTL DEF PagingSpec, ImplementsFlatMemory, Flat!FlatSpec
=============================================================================
