----------------------------- MODULE ListLemmas -----------------------------
(***************************************************************************)
(* What the list operations that several models share return.              *)
(***************************************************************************)
EXTENDS Naturals, Sequences, SequencesExt, SequenceTheorems, TLAPS

\* Taking entry n out of a list keeps the others in order: the shift loop of
\* dequeue and purgequeue, and the removal of a free region.
LEMMA RemoveAtProperties ==
  ASSUME NEW S, NEW s \in Seq(S), NEW n \in 1 .. Len(s)
  PROVE  /\ RemoveAt(s, n) \in Seq(S)
         /\ Len(RemoveAt(s, n)) = Len(s) - 1
         /\ \A j \in 1 .. Len(s) - 1 :
              RemoveAt(s, n)[j] = IF j < n THEN s[j] ELSE s[j + 1]
<1> DEFINE a == SubSeq(s, 1, n - 1)
           b == SubSeq(s, n + 1, Len(s))
<1>1. Len(s) \in Nat /\ n \in Nat /\ \A j \in 1 .. Len(s) : s[j] \in S
  BY LenProperties, ElementOfSeq
<1>2. /\ a \in Seq(S)
      /\ Len(a) = n - 1
      /\ \A j \in 1 .. n - 1 : a[j] = s[j]
  <2>1. \A j \in 1 .. n - 1 : s[j] \in S
    BY <1>1
  <2>2. /\ a \in Seq(S)
        /\ Len(a) = IF 1 <= n - 1 THEN n - 1 - 1 + 1 ELSE 0
        /\ \A j \in 1 .. n - 1 - 1 + 1 : a[j] = s[1 + j - 1]
    BY <1>1, <2>1, SubSeqProperties
  <2> QED
    BY <1>1, <2>2
<1>3. /\ b \in Seq(S)
      /\ Len(b) = Len(s) - n
      /\ \A j \in 1 .. Len(s) - n : b[j] = s[n + j]
  <2>1. \A j \in n + 1 .. Len(s) : s[j] \in S
    BY <1>1
  <2>2. /\ b \in Seq(S)
        /\ Len(b) = IF n + 1 <= Len(s) THEN Len(s) - (n + 1) + 1 ELSE 0
        /\ \A j \in 1 .. Len(s) - (n + 1) + 1 : b[j] = s[(n + 1) + j - 1]
    BY <1>1, <2>1, SubSeqProperties
  <2> QED
    BY <1>1, <2>2
<1>4. RemoveAt(s, n) = a \o b
  BY DEF RemoveAt
<1>5. /\ a \o b \in Seq(S)
      /\ Len(a \o b) = Len(a) + Len(b)
      /\ \A j \in 1 .. Len(a) + Len(b) :
           (a \o b)[j] = IF j <= Len(a) THEN a[j] ELSE b[j - Len(a)]
  BY <1>2, <1>3, ConcatProperties
<1> HIDE DEF a, b
<1>6. ASSUME NEW j \in 1 .. Len(s) - 1
      PROVE  (a \o b)[j] = IF j < n THEN s[j] ELSE s[j + 1]
  <2>1. CASE j < n
    BY <1>1, <1>2, <1>3, <1>5, <2>1
  <2>2. CASE ~(j < n)
    <3>1. (a \o b)[j] = b[j - (n - 1)]
      BY <1>1, <1>2, <1>3, <1>5, <2>2
    <3>2. j - (n - 1) \in 1 .. Len(s) - n
      BY <1>1, <2>2
    <3>3. b[j - (n - 1)] = s[n + (j - (n - 1))]
      BY <1>3, <3>2
    <3>4. n + (j - (n - 1)) = j + 1
      BY <1>1
    <3> QED
      BY <2>2, <3>1, <3>3, <3>4
  <2> QED
    BY <2>1, <2>2
<1> QED
  BY <1>1, <1>2, <1>3, <1>4, <1>5, <1>6

\* A new node in front of a list: enlist_vm_freerg_list.
LEMMA PrependProperties ==
  ASSUME NEW S, NEW s \in Seq(S), NEW e \in S
  PROVE  /\ <<e>> \o s \in Seq(S)
         /\ Len(<<e>> \o s) = Len(s) + 1
         /\ \A j \in 1 .. Len(s) + 1 :
              (<<e>> \o s)[j] = IF j = 1 THEN e ELSE s[j - 1]
<1>1. <<e>> \in Seq(S) /\ Len(<<e>>) = 1 /\ <<e>>[1] = e
  OBVIOUS
<1>2. Len(s) \in Nat
  BY LenProperties
<1>3. /\ <<e>> \o s \in Seq(S)
      /\ Len(<<e>> \o s) = Len(<<e>>) + Len(s)
      /\ \A j \in 1 .. Len(<<e>>) + Len(s) :
           (<<e>> \o s)[j] = IF j <= Len(<<e>>) THEN <<e>>[j] ELSE s[j - Len(<<e>>)]
  BY <1>1, ConcatProperties
<1> QED
  BY <1>1, <1>2, <1>3

-----------------------------------------------------------------------------
(* The same of the set of the entries, and of a list without duplicates. *)

\* Taking the head of a list: MEMPHY_get_freefp.
LEMMA HeadTailFacts ==
  ASSUME NEW S, NEW s \in Seq(S), s # <<>>
  PROVE  /\ Head(s) \in S /\ Tail(s) \in Seq(S)
         /\ ToSet(s) = ToSet(Tail(s)) \cup {Head(s)}
         /\ IsInjective(s) => IsInjective(Tail(s)) /\ Head(s) \notin ToSet(Tail(s))
<1>1. /\ Len(s) \in Nat /\ Len(s) >= 1 /\ DOMAIN s = 1 .. Len(s)
      /\ Head(s) = s[1] /\ s[1] \in S
      /\ Tail(s) \in Seq(S) /\ Len(Tail(s)) = Len(s) - 1
      /\ DOMAIN Tail(s) = 1 .. Len(s) - 1
      /\ \A i \in 1 .. Len(s) - 1 : Tail(s)[i] = s[i + 1]
  BY HeadTailProperties, EmptySeq, LenProperties
<1>2. ToSet(s) = ToSet(Tail(s)) \cup {Head(s)}
  <2>1. ASSUME NEW i \in DOMAIN s
        PROVE  s[i] = Head(s) \/ (i - 1 \in DOMAIN Tail(s) /\ Tail(s)[i - 1] = s[i])
    <3>1. CASE i = 1
      BY <1>1, <3>1
    <3>2. CASE i # 1
      BY <1>1, <2>1, <3>2
    <3> QED
      BY <3>1, <3>2
  <2>2. ASSUME NEW i \in DOMAIN Tail(s) PROVE i + 1 \in DOMAIN s /\ Tail(s)[i] = s[i + 1]
    BY <1>1
  <2>3. 1 \in DOMAIN s /\ s[1] = Head(s)
    BY <1>1
  <2> QED
    BY <2>1, <2>2, <2>3 DEF ToSet
<1>3. ASSUME IsInjective(s) PROVE IsInjective(Tail(s)) /\ Head(s) \notin ToSet(Tail(s))
  <2>1. ASSUME NEW i \in 1 .. Len(s), NEW j \in 1 .. Len(s), s[i] = s[j] PROVE i = j
    BY <1>1, <1>3, <2>1 DEF IsInjective
  <2>2. ASSUME NEW i \in DOMAIN Tail(s), NEW j \in DOMAIN Tail(s), Tail(s)[i] = Tail(s)[j]
        PROVE  i = j
    <3>1. i + 1 \in 1 .. Len(s) /\ j + 1 \in 1 .. Len(s) /\ s[i + 1] = s[j + 1]
      BY <1>1, <2>2
    <3>2. i + 1 = j + 1
      BY <2>1, <3>1
    <3> QED
      BY <1>1, <3>2
  <2>3. ASSUME NEW i \in DOMAIN Tail(s) PROVE Tail(s)[i] # Head(s)
    <3>1. i + 1 \in 1 .. Len(s) /\ 1 \in 1 .. Len(s) /\ i + 1 # 1
      BY <1>1
    <3> QED
      BY <1>1, <2>1, <3>1
  <2> QED
    BY <2>2, <2>3 DEF IsInjective, ToSet
<1> QED
  BY <1>1, <1>2, <1>3

\* A new node in front: MEMPHY_put_freefp.
LEMMA PrependFacts ==
  ASSUME NEW S, NEW s \in Seq(S), NEW e \in S
  PROVE  /\ <<e>> \o s \in Seq(S)
         /\ ToSet(<<e>> \o s) = ToSet(s) \cup {e}
         /\ IsInjective(s) /\ e \notin ToSet(s) => IsInjective(<<e>> \o s)
<1> DEFINE t == <<e>> \o s
<1>1. /\ t \in Seq(S) /\ Len(s) \in Nat
      /\ DOMAIN t = 1 .. Len(s) + 1 /\ DOMAIN s = 1 .. Len(s)
      /\ \A j \in 1 .. Len(s) + 1 : t[j] = IF j = 1 THEN e ELSE s[j - 1]
  BY PrependProperties, LenProperties
<1> HIDE DEF t
<1>2. ASSUME NEW j \in DOMAIN t
      PROVE  \/ j = 1 /\ t[j] = e
             \/ j # 1 /\ j - 1 \in DOMAIN s /\ t[j] = s[j - 1]
  BY <1>1
<1>3. ASSUME NEW i \in DOMAIN s PROVE i + 1 \in DOMAIN t /\ t[i + 1] = s[i]
  BY <1>1
<1>4. 1 \in DOMAIN t /\ t[1] = e
  BY <1>1
<1>5. ToSet(t) = ToSet(s) \cup {e}
  BY <1>2, <1>3, <1>4 DEF ToSet
<1>6. ASSUME IsInjective(s), e \notin ToSet(s) PROVE IsInjective(t)
  <2> SUFFICES ASSUME NEW i \in DOMAIN t, NEW j \in DOMAIN t, t[i] = t[j] PROVE i = j
    BY DEF IsInjective
  <2>1. i # 1 /\ j # 1 => i - 1 = j - 1
    BY <1>2, <1>6 DEF IsInjective
  <2>2. i = 1 <=> j = 1
    BY <1>2, <1>6 DEF ToSet
  <2> QED
    BY <1>1, <2>1, <2>2
<1> QED
  BY <1>1, <1>5, <1>6 DEF t

\* A new node at the end: enlist_pgn_node.
LEMMA AppendFacts ==
  ASSUME NEW S, NEW s \in Seq(S), NEW e \in S
  PROVE  /\ Append(s, e) \in Seq(S) /\ Append(s, e) # <<>>
         /\ ToSet(Append(s, e)) = ToSet(s) \cup {e}
         /\ IsInjective(s) /\ e \notin ToSet(s) => IsInjective(Append(s, e))
<1> DEFINE t == Append(s, e)
<1>1. /\ t \in Seq(S) /\ Len(s) \in Nat /\ Len(t) = Len(s) + 1
      /\ DOMAIN t = 1 .. Len(s) + 1 /\ DOMAIN s = 1 .. Len(s)
      /\ \A j \in 1 .. Len(s) : t[j] = s[j]
      /\ t[Len(s) + 1] = e
  BY AppendProperties, LenProperties
<1>2. t # <<>>
  BY <1>1, EmptySeq
<1> HIDE DEF t
<1>3. ASSUME NEW j \in DOMAIN t
      PROVE  \/ j = Len(s) + 1 /\ t[j] = e
             \/ j # Len(s) + 1 /\ j \in DOMAIN s /\ t[j] = s[j]
  BY <1>1
<1>4. ASSUME NEW i \in DOMAIN s PROVE i \in DOMAIN t /\ t[i] = s[i]
  BY <1>1
<1>5. Len(s) + 1 \in DOMAIN t
  BY <1>1
<1>6. ToSet(t) = ToSet(s) \cup {e}
  BY <1>1, <1>3, <1>4, <1>5 DEF ToSet
<1>7. ASSUME IsInjective(s), e \notin ToSet(s) PROVE IsInjective(t)
  <2> SUFFICES ASSUME NEW i \in DOMAIN t, NEW j \in DOMAIN t, t[i] = t[j] PROVE i = j
    BY DEF IsInjective
  <2> QED
    BY <1>3, <1>7 DEF IsInjective, ToSet
<1> QED
  BY <1>1, <1>2, <1>6, <1>7 DEF t

LEMMA EmptyFacts == ToSet(<<>>) = {} /\ IsInjective(<<>>) /\ \A S : <<>> \in Seq(S)
BY DEF ToSet, IsInjective

\* Dropping the last node: find_victim_page.
LEMMA FrontFacts ==
  ASSUME NEW S, NEW s \in Seq(S), s # <<>>
  PROVE  /\ Last(s) \in S /\ Front(s) \in Seq(S)
         /\ ToSet(s) = ToSet(Front(s)) \cup {Last(s)}
         /\ IsInjective(s) => IsInjective(Front(s)) /\ Last(s) \notin ToSet(Front(s))
<1> DEFINE t == Front(s)
<1>1. /\ Len(s) \in Nat /\ Len(s) >= 1 /\ DOMAIN s = 1 .. Len(s)
      /\ Last(s) = s[Len(s)] /\ s[Len(s)] \in S
  BY EmptySeq, LenProperties, ElementOfSeq DEF Last
<1>2. /\ t \in Seq(S) /\ DOMAIN t = 1 .. Len(s) - 1
      /\ \A i \in 1 .. Len(s) - 1 : t[i] = s[i]
  <2>1. t = SubSeq(s, 1, Len(s) - 1)
    BY DEF Front
  <2>2. \A i \in 1 .. Len(s) - 1 : s[i] \in S
    BY <1>1, ElementOfSeq
  <2> QED
    BY <1>1, <2>1, <2>2, SubSeqProperties, LenProperties
<1> HIDE DEF t
<1>3. ASSUME NEW j \in DOMAIN s
      PROVE  j = Len(s) \/ (j # Len(s) /\ j \in DOMAIN t /\ t[j] = s[j])
  BY <1>1, <1>2
<1>4. ASSUME NEW i \in DOMAIN t PROVE i \in DOMAIN s /\ i # Len(s) /\ t[i] = s[i]
  BY <1>1, <1>2
<1>5. Len(s) \in DOMAIN s
  BY <1>1
<1>6. ToSet(s) = ToSet(t) \cup {Last(s)}
  BY <1>1, <1>3, <1>4, <1>5 DEF ToSet
<1>7. IsInjective(s) => IsInjective(t) /\ Last(s) \notin ToSet(t)
  BY <1>1, <1>4, <1>5 DEF ToSet, IsInjective
<1> QED
  BY <1>1, <1>2, <1>6, <1>7 DEF t

\* Turning a list round.
LEMMA ReverseFacts ==
  ASSUME NEW S, NEW s \in Seq(S)
  PROVE  /\ Reverse(s) \in Seq(S)
         /\ ToSet(Reverse(s)) = ToSet(s)
         /\ IsInjective(s) => IsInjective(Reverse(s))
<1> DEFINE t == Reverse(s)
<1>1. /\ Len(s) \in Nat /\ DOMAIN s = 1 .. Len(s)
      /\ \A i \in 1 .. Len(s) : s[i] \in S
  BY LenProperties, ElementOfSeq
<1>2. t = [i \in 1 .. Len(s) |-> s[Len(s) - i + 1]]
  BY DEF Reverse
<1>3. \A i \in 1 .. Len(s) : Len(s) - i + 1 \in 1 .. Len(s)
  BY <1>1
<1>4. t \in Seq(S) /\ DOMAIN t = DOMAIN s
  BY <1>1, <1>2, <1>3
<1> HIDE DEF t
<1>5. ASSUME NEW i \in DOMAIN t
      PROVE  Len(s) - i + 1 \in DOMAIN s /\ t[i] = s[Len(s) - i + 1]
  BY <1>1, <1>2, <1>3
<1>6. ASSUME NEW i \in DOMAIN s
      PROVE  Len(s) - i + 1 \in DOMAIN t /\ t[Len(s) - i + 1] = s[i]
  <2>1. Len(s) - (Len(s) - i + 1) + 1 = i
    BY <1>1
  <2> QED
    BY <1>1, <1>2, <1>3, <2>1
<1>7. ToSet(t) = ToSet(s)
  BY <1>5, <1>6 DEF ToSet
<1>8. ASSUME IsInjective(s) PROVE IsInjective(t)
  <2> SUFFICES ASSUME NEW i \in DOMAIN t, NEW j \in DOMAIN t, t[i] = t[j] PROVE i = j
    BY DEF IsInjective
  <2>1. Len(s) - i + 1 = Len(s) - j + 1
    BY <1>5, <1>8 DEF IsInjective
  <2> QED
    BY <1>1, <1>4, <2>1
<1> QED
  BY <1>4, <1>7, <1>8 DEF t

\* A list before another one with other entries.
LEMMA ConcatFacts ==
  ASSUME NEW S, NEW s \in Seq(S), NEW t \in Seq(S)
  PROVE  /\ s \o t \in Seq(S)
         /\ ToSet(s \o t) = ToSet(s) \cup ToSet(t)
         /\ IsInjective(s) /\ IsInjective(t) /\ ToSet(s) \cap ToSet(t) = {} =>
              IsInjective(s \o t)
<1> DEFINE u == s \o t
<1>1. /\ u \in Seq(S) /\ Len(s) \in Nat /\ Len(t) \in Nat
      /\ DOMAIN s = 1 .. Len(s) /\ DOMAIN t = 1 .. Len(t)
      /\ DOMAIN u = 1 .. Len(s) + Len(t)
      /\ \A j \in 1 .. Len(s) + Len(t) :
           u[j] = IF j <= Len(s) THEN s[j] ELSE t[j - Len(s)]
  BY ConcatProperties, LenProperties
<1> HIDE DEF u
<1>2. ASSUME NEW j \in DOMAIN u
      PROVE  \/ j <= Len(s) /\ j \in DOMAIN s /\ u[j] = s[j]
             \/ ~(j <= Len(s)) /\ j - Len(s) \in DOMAIN t /\ u[j] = t[j - Len(s)]
  BY <1>1
<1>3. ASSUME NEW j \in DOMAIN s PROVE j \in DOMAIN u /\ u[j] = s[j]
  BY <1>1
<1>4. ASSUME NEW j \in DOMAIN t
      PROVE  j + Len(s) \in DOMAIN u /\ u[j + Len(s)] = t[j]
  <2>1. ~(j + Len(s) <= Len(s)) /\ (j + Len(s)) - Len(s) = j
    BY <1>1
  <2> QED
    BY <1>1, <2>1
<1>5. ToSet(u) = ToSet(s) \cup ToSet(t)
  BY <1>2, <1>3, <1>4 DEF ToSet
<1>6. ASSUME IsInjective(s), IsInjective(t), ToSet(s) \cap ToSet(t) = {}
      PROVE  IsInjective(u)
  <2> SUFFICES ASSUME NEW i \in DOMAIN u, NEW j \in DOMAIN u, u[i] = u[j] PROVE i = j
    BY DEF IsInjective
  <2>1. i <= Len(s) <=> j <= Len(s)
    BY <1>2, <1>6 DEF ToSet
  <2>2. CASE i <= Len(s) /\ j <= Len(s)
    BY <1>2, <1>6, <2>2 DEF IsInjective
  <2>3. CASE ~(i <= Len(s)) /\ ~(j <= Len(s))
    <3>1. i - Len(s) = j - Len(s)
      BY <1>2, <1>6, <2>3 DEF IsInjective
    <3> QED
      BY <1>1, <3>1
  <2> QED
    BY <2>1, <2>2, <2>3
<1> QED
  BY <1>1, <1>5, <1>6 DEF u

\* The first n entries of a list and the rest of it.
LEMMA SplitFacts ==
  ASSUME NEW S, NEW s \in Seq(S), NEW n \in Nat, n <= Len(s)
  PROVE  /\ SubSeq(s, n + 1, Len(s)) \in Seq(S)
         /\ ToSet(s) = ToSet(SubSeq(s, n + 1, Len(s))) \cup {s[k] : k \in 1 .. n}
         /\ IsInjective(s) =>
              /\ IsInjective(SubSeq(s, n + 1, Len(s)))
              /\ \A k \in 1 .. n : s[k] \notin ToSet(SubSeq(s, n + 1, Len(s)))
<1> DEFINE t == SubSeq(s, n + 1, Len(s))
<1>1. /\ Len(s) \in Nat /\ DOMAIN s = 1 .. Len(s)
      /\ \A i \in 1 .. Len(s) : s[i] \in S
  BY LenProperties, ElementOfSeq
<1>2. /\ t \in Seq(S) /\ DOMAIN t = 1 .. Len(s) - n
      /\ \A i \in 1 .. Len(s) - n : t[i] = s[n + i]
  <2>1. \A i \in n + 1 .. Len(s) : s[i] \in S
    BY <1>1
  <2>2. /\ t \in Seq(S)
        /\ Len(t) = IF n + 1 <= Len(s) THEN Len(s) - (n + 1) + 1 ELSE 0
        /\ \A j \in 1 .. Len(s) - (n + 1) + 1 : t[j] = s[(n + 1) + j - 1]
    BY <1>1, <2>1, SubSeqProperties
  <2> HIDE DEF t
  <2>3. Len(t) = Len(s) - n
    <3>1. CASE n + 1 <= Len(s)
      BY <1>1, <2>2, <3>1
    <3>2. CASE ~(n + 1 <= Len(s))
      <4>1. n = Len(s)
        <5>1. Len(s) \in Nat /\ n <= Len(s)
          BY <1>1
        <5>2. \A m \in Nat : n <= m /\ ~(n + 1 <= m) => n = m
          OBVIOUS
        <5> QED
          BY <3>2, <5>1, <5>2
      <4> QED
        BY <1>1, <2>2, <3>2, <4>1
    <3> QED
      BY <3>1, <3>2
  <2>5. DOMAIN t = 1 .. Len(t)
    BY <2>2, LenProperties
  <2>4. \A j \in 1 .. Len(s) - n : (n + 1) + j - 1 = n + j /\ (Len(s) - (n + 1)) + 1 = Len(s) - n
    BY <1>1
  <2> QED
    BY <1>1, <2>2, <2>3, <2>4, <2>5
<1> HIDE DEF t
<1>3. ASSUME NEW i \in DOMAIN t PROVE n + i \in DOMAIN s /\ n + i \notin 1 .. n /\ t[i] = s[n + i]
  BY <1>1, <1>2
<1>4. ASSUME NEW i \in DOMAIN s
      PROVE  i \in 1 .. n \/ (i - n \in DOMAIN t /\ t[i - n] = s[i])
  <2>1. n + (i - n) = i
    BY <1>1
  <2> QED
    BY <1>1, <1>2, <2>1
<1>5. \A k \in 1 .. n : k \in DOMAIN s
  BY <1>1
<1>6. ToSet(s) = ToSet(t) \cup {s[k] : k \in 1 .. n}
  BY <1>3, <1>4, <1>5 DEF ToSet
<1>7. ASSUME IsInjective(s)
      PROVE  IsInjective(t) /\ \A k \in 1 .. n : s[k] \notin ToSet(t)
  <2>1. ASSUME NEW i \in DOMAIN t, NEW j \in DOMAIN t, t[i] = t[j] PROVE i = j
    <3>1. n + i = n + j
      BY <1>3, <1>7, <2>1 DEF IsInjective
    <3> QED
      BY <1>2, <3>1
  <2>2. \A k \in 1 .. n : s[k] \notin ToSet(t)
    BY <1>3, <1>5, <1>7 DEF IsInjective, ToSet
  <2> QED
    BY <2>1, <2>2 DEF IsInjective
<1> QED
  BY <1>2, <1>6, <1>7 DEF t
=============================================================================
