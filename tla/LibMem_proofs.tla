---------------------------- MODULE LibMem_proofs ----------------------------
(***************************************************************************)
(* Proofs about the regions of a process and the memory instructions, for   *)
(* every number of registers, every alignment and every bound of the area,  *)
(* any values and any sizes and offsets of copies.                          *)
(***************************************************************************)
EXTENDS LibMem, ListLemmas

-----------------------------------------------------------------------------
(* The regions by themselves: theorems of Vma. *)

\* Rounding up to a multiple of Align never asks for less.
LEMMA AlignSizeBound ==
  ASSUME NEW size \in Nat
  PROVE  AlignSize(size) \in Nat /\ size <= AlignSize(size)
<1> DEFINE n == size + Align - 1
           q == n \div Align
<1>1. Align \in Nat \ {0}
  BY VmaAssumption
<1>2. n \in Nat
  BY <1>1
<1> HIDE DEF n
<1>3. n % Align \in 0 .. Align - 1 /\ n = Align * q + (n % Align) /\ q \in Int
  BY <1>1, <1>2
<1>4. q >= 0
  BY <1>1, <1>2, <1>3
<1> HIDE DEF q
<1>5. q * Align \in Nat /\ q * Align = Align * q
  BY <1>1, <1>3, <1>4
<1>6. size <= q * Align
  BY <1>1, <1>3, <1>5 DEF n
<1>7. AlignSize(size) = q * Align
  BY DEF AlignSize, n, q
<1> QED
  BY <1>5, <1>6, <1>7

(* Facts about regions. *)

\* Parts of disjoint regions are disjoint.
LEMMA DisjointShrinks ==
  ASSUME NEW a, NEW b, NEW c, NEW d,
         Disjoint(a, b), Bytes(c) \subseteq Bytes(a), Bytes(d) \subseteq Bytes(b)
  PROVE  Disjoint(c, d) /\ Disjoint(d, c)
BY DEF Disjoint

\* A register without a region holds no address.
LEMMA NoRegionFacts ==
  /\ NoRegion \in Region
  /\ Bytes(NoRegion) = {}
  /\ NoRegion[2] = 0
BY VmaAssumption DEF NoRegion, Bytes, Region

\* A region above the end of the area meets none inside it.
LEMMA AboveIsDisjoint ==
  ASSUME NEW rg \in Region, NEW new \in Region, rg[2] <= new[1]
  PROVE  Disjoint(rg, new) /\ Disjoint(new, rg)
BY VmaAssumption DEF Region, Bytes, Disjoint

-----------------------------------------------------------------------------
(* What get_free_vmrg_area leaves of the free list. *)

\* The node it cut, or the node that replaced it, and all others come from
\* different nodes of the old list, of which they keep at most the bytes; what
\* is left of node k is none of what was given away.
LEMMA CutProperties ==
  ASSUME VmaTypeOK,
         NEW k \in DOMAIN vm_freerg_list, NEW size \in 1 .. MaxSize, Fits(k, size)
  PROVE  /\ Cut(k, size) \in Seq(Region)
         /\ \E from \in [DOMAIN Cut(k, size) -> DOMAIN vm_freerg_list] :
              /\ \A i, j \in DOMAIN Cut(k, size) : i # j => from[i] # from[j]
              /\ \A j \in DOMAIN Cut(k, size) :
                   /\ Bytes(Cut(k, size)[j]) \subseteq Bytes(vm_freerg_list[from[j]])
                   /\ Cut(k, size)[j][2] <= vm_freerg_list[from[j]][2]
                   /\ from[j] = k =>
                        Disjoint(<<vm_freerg_list[k][1], vm_freerg_list[k][1] + size>>,
                                 Cut(k, size)[j])
<1> DEFINE F == vm_freerg_list
           start == F[k][1]
           end == F[k][2]
           C == Cut(k, size)
<1>1. /\ F \in Seq(Region) /\ Len(F) \in Nat /\ DOMAIN F = 1 .. Len(F)
      /\ \A j \in DOMAIN F : F[j] \in Region
  BY DEF VmaTypeOK
<1>2. /\ start \in 0 .. MaxBrk /\ end \in 0 .. MaxBrk /\ start + size <= end
      /\ size \in Nat /\ size >= 1 /\ MaxBrk \in Nat
  BY <1>1, VmaAssumption DEF Fits, Region
<1>3. \A j \in DOMAIN F : F[j][1] \in Nat /\ F[j][2] \in Nat
  BY <1>1, VmaAssumption DEF Region
<1>4. CASE start + size < end \/ ~(k < Len(F))
  <2> DEFINE left == IF start + size < end THEN <<start + size, end>> ELSE <<end, end>>
  <2>1. left \in Region /\ left[2] = end
    BY <1>2 DEF Region
  <2>2. Bytes(left) \subseteq Bytes(F[k]) /\ Disjoint(<<start, start + size>>, left)
    BY <1>2, <1>4 DEF Bytes, Disjoint
  <2>3. C = [F EXCEPT ![k] = left]
    BY <1>4 DEF Cut
  <2> HIDE DEF left, C
  <2>4. /\ DOMAIN C = DOMAIN F /\ C \in Seq(Region)
        /\ C[k] = left /\ \A j \in DOMAIN F \ {k} : C[j] = F[j]
    BY <1>1, <2>1, <2>3
  <2> DEFINE from == [j \in DOMAIN C |-> j]
  <2>5. from \in [DOMAIN C -> DOMAIN F] /\ \A j \in DOMAIN C : from[j] = j
    BY <2>4
  <2> HIDE DEF from
  <2>6. ASSUME NEW j \in DOMAIN C
        PROVE  /\ Bytes(C[j]) \subseteq Bytes(F[from[j]])
               /\ C[j][2] <= F[from[j]][2]
               /\ from[j] = k => Disjoint(<<start, start + size>>, C[j])
    <3>1. CASE j = k
      BY <1>2, <2>1, <2>2, <2>4, <2>5, <3>1
    <3>2. CASE j # k
      BY <1>3, <2>4, <2>5, <3>2
    <3> QED
      BY <3>1, <3>2
  <2>7. \A i, j \in DOMAIN C : i # j => from[i] # from[j]
    BY <2>5
  <2>8. \E f \in [DOMAIN C -> DOMAIN F] :
          /\ \A i, j \in DOMAIN C : i # j => f[i] # f[j]
          /\ \A j \in DOMAIN C :
               /\ Bytes(C[j]) \subseteq Bytes(F[f[j]])
               /\ C[j][2] <= F[f[j]][2]
               /\ f[j] = k => Disjoint(<<start, start + size>>, C[j])
    <3> from \in [DOMAIN C -> DOMAIN F]
      BY <2>5
    <3> WITNESS from \in [DOMAIN C -> DOMAIN F]
    <3> QED
      BY <2>6, <2>7
  <2> QED
    BY <2>4, <2>8, Zenon DEF C
<1>5. CASE ~(start + size < end) /\ k < Len(F)
  <2>1. C = RemoveAt(F, k)
    BY <1>5 DEF Cut
  <2>2. /\ C \in Seq(Region) /\ Len(C) = Len(F) - 1
        /\ \A j \in 1 .. Len(F) - 1 : C[j] = IF j < k THEN F[j] ELSE F[j + 1]
    BY <1>1, <2>1, RemoveAtProperties
  <2> HIDE DEF C
  <2>3. DOMAIN C = 1 .. Len(F) - 1
    BY <2>2
  <2> DEFINE from == [j \in DOMAIN C |-> IF j < k THEN j ELSE j + 1]
  <2>4. /\ from \in [DOMAIN C -> DOMAIN F]
        /\ \A j \in DOMAIN C : from[j] # k /\ C[j] = F[from[j]]
        /\ \A i, j \in DOMAIN C : i # j => from[i] # from[j]
    BY <1>1, <2>2, <2>3
  <2> HIDE DEF from
  <2>5. \A j \in DOMAIN C : F[from[j]][2] \in Nat
    BY <1>3, <2>4
  <2>6. \A j \in DOMAIN C : C[j][2] <= F[from[j]][2]
    BY <2>4, <2>5
  <2>7. \E f \in [DOMAIN C -> DOMAIN F] :
          /\ \A i, j \in DOMAIN C : i # j => f[i] # f[j]
          /\ \A j \in DOMAIN C :
               /\ Bytes(C[j]) \subseteq Bytes(F[f[j]])
               /\ C[j][2] <= F[f[j]][2]
               /\ f[j] = k => Disjoint(<<start, start + size>>, C[j])
    <3> from \in [DOMAIN C -> DOMAIN F]
      BY <2>4
    <3> WITNESS from \in [DOMAIN C -> DOMAIN F]
    <3> QED
      BY <2>4, <2>6, Zenon
  <2> QED
    BY <2>2, <2>7, Zenon DEF C
<1> QED
  BY <1>4, <1>5

-----------------------------------------------------------------------------
VmaInv == VmaTypeOK /\ RegionsDisjoint

\* At first no region holds an address.
LEMMA InitInv == VmaInit => VmaInv
<1> SUFFICES ASSUME VmaInit PROVE VmaInv
  OBVIOUS
<1>1. vm_freerg_list \in Seq(Region) /\ DOMAIN vm_freerg_list = {1} /\ vm_freerg_list[1] = NoRegion
  BY NoRegionFacts DEF VmaInit
<1>2. VmaTypeOK
  BY <1>1, NoRegionFacts, VmaAssumption DEF VmaInit, VmaTypeOK
<1>3. RegionsDisjoint
  BY <1>1, NoRegionFacts DEF VmaInit, RegionsDisjoint, Disjoint
<1> QED
  BY <1>2, <1>3 DEF VmaInv

\* The first size bytes of a free node go to register r.
LEMMA AllocReuseInv ==
  ASSUME VmaInv, NEW r \in Reg, NEW size \in 1 .. MaxSize, AllocReuse(r, size)
  PROVE  VmaInv'
<1> DEFINE F == vm_freerg_list
           T == symrgtbl
<1>1. PICK k \in DOMAIN F :
        /\ Fits(k, size)
        /\ symrgtbl' = [T EXCEPT ![r] = <<F[k][1], F[k][1] + size>>]
        /\ vm_freerg_list' = Cut(k, size)
        /\ sbrk' = sbrk
  BY DEF AllocReuse
<1> DEFINE taken == <<F[k][1], F[k][1] + size>>
<1>2. /\ sbrk \in 0 .. MaxBrk /\ T \in [Reg -> Region]
      /\ F \in Seq(Region) /\ F[k] \in Region
  BY DEF VmaInv, VmaTypeOK
<1>3. taken \in Region /\ Bytes(taken) \subseteq Bytes(F[k]) /\ taken[2] <= F[k][2]
  <2>1. PICK s \in 0 .. MaxBrk, e \in 0 .. MaxBrk : F[k] = <<s, e>>
    BY <1>2 DEF Region
  <2>2. s + size <= e /\ taken = <<s, s + size>> /\ size \in Nat /\ MaxBrk \in Nat
    BY <1>1, <2>1, VmaAssumption DEF Fits
  <2> QED
    BY <2>1, <2>2 DEF Region, Bytes
<1>4. PICK from \in [DOMAIN Cut(k, size) -> DOMAIN F] :
        /\ \A i, j \in DOMAIN Cut(k, size) : i # j => from[i] # from[j]
        /\ \A j \in DOMAIN Cut(k, size) :
             /\ Bytes(Cut(k, size)[j]) \subseteq Bytes(F[from[j]])
             /\ Cut(k, size)[j][2] <= F[from[j]][2]
             /\ from[j] = k => Disjoint(taken, Cut(k, size)[j])
  BY <1>1, CutProperties DEF VmaInv
<1> DEFINE G == vm_freerg_list'
           U == symrgtbl'
<1>5. G \in Seq(Region)
  BY <1>1, CutProperties DEF VmaInv
<1> HIDE DEF taken
<1>6. /\ U \in [Reg -> Region] /\ U[r] = taken
      /\ \A s \in Reg : s # r => U[s] = T[s]
  BY <1>1, <1>2, <1>3 DEF taken
<1>7. VmaTypeOK'
  BY <1>1, <1>2, <1>5, <1>6 DEF VmaTypeOK
<1>8. /\ \A p, q \in Reg : p # q => Disjoint(T[p], T[q])
      /\ \A i, j \in DOMAIN F : i # j => Disjoint(F[i], F[j])
      /\ \A p \in Reg, j \in DOMAIN F : Disjoint(T[p], F[j])
      /\ \A p \in Reg : T[p][2] <= sbrk
      /\ \A j \in DOMAIN F : F[j][2] <= sbrk
  BY DEF VmaInv, RegionsDisjoint
<1>9. /\ \A i, j \in DOMAIN G : i # j => from[i] # from[j]
      /\ \A j \in DOMAIN G : /\ from[j] \in DOMAIN F
                             /\ Bytes(G[j]) \subseteq Bytes(F[from[j]])
                             /\ G[j][2] <= F[from[j]][2]
                             /\ from[j] = k => Disjoint(taken, G[j])
  BY <1>1, <1>4
<1>10. ASSUME NEW p \in Reg, NEW q \in Reg, p # q
       PROVE  Disjoint(U[p], U[q])
  <2>1. CASE p # r /\ q # r
    BY <1>6, <1>8, <1>10, <2>1
  <2>2. CASE p = r
    BY <1>3, <1>6, <1>8, <1>10, <2>2, DisjointShrinks
  <2>3. CASE q = r
    BY <1>3, <1>6, <1>8, <1>10, <2>3, DisjointShrinks
  <2> QED
    BY <2>1, <2>2, <2>3
<1>11. ASSUME NEW i \in DOMAIN G, NEW j \in DOMAIN G, i # j
       PROVE  Disjoint(G[i], G[j])
  BY <1>8, <1>9, <1>11, DisjointShrinks
<1>12. ASSUME NEW p \in Reg, NEW j \in DOMAIN G
       PROVE  Disjoint(U[p], G[j])
  <2>1. CASE p # r
    BY <1>6, <1>8, <1>9, <2>1, DisjointShrinks
  <2>2. CASE p = r /\ from[j] = k
    BY <1>6, <1>9, <2>2
  <2>3. CASE p = r /\ from[j] # k
    <3>1. Disjoint(F[k], F[from[j]])
      BY <1>8, <1>9, <2>3
    <3> QED
      BY <1>3, <1>6, <1>9, <2>3, <3>1, DisjointShrinks
  <2> QED
    BY <2>1, <2>2, <2>3
<1>13. ASSUME NEW p \in Reg PROVE U[p][2] <= sbrk'
  <2>1. F[k][2] \in Nat /\ sbrk \in Nat /\ taken[2] \in Nat /\ F[k][2] <= sbrk
    BY <1>2, <1>3, <1>8, VmaAssumption DEF Region
  <2> QED
    BY <1>1, <1>3, <1>6, <1>8, <2>1
<1>14. ASSUME NEW j \in DOMAIN G PROVE G[j][2] <= sbrk'
  <2>1. /\ G[j][2] \in Nat /\ F[from[j]][2] \in Nat /\ sbrk \in Nat
    <3>1. G[j] \in Region /\ F[from[j]] \in Region
      BY <1>2, <1>5, <1>9
    <3> QED
      BY <1>2, <3>1, VmaAssumption, SMTT(30) DEF Region
  <2>2. G[j][2] <= F[from[j]][2] /\ F[from[j]][2] <= sbrk
    BY <1>8, <1>9
  <2> QED
    BY <1>1, <2>1, <2>2
<1>15. RegionsDisjoint'
  BY <1>10, <1>11, <1>12, <1>13, <1>14 DEF RegionsDisjoint, Disjoint, Bytes
<1> QED
  BY <1>7, <1>15 DEF VmaInv

\* An extension: what it adds to the free list lies above the size bytes that
\* were asked for, and those above everything else.
LEMMA IncProperties ==
  ASSUME VmaInv, NEW size \in 1 .. MaxSize, IncVmaLimit(size)
  PROVE  /\ sbrk' \in 0 .. MaxBrk /\ sbrk + size <= sbrk'
         /\ vm_freerg_list' \in Seq(Region)
         /\ \A j \in DOMAIN vm_freerg_list' :
              /\ vm_freerg_list'[j][2] <= sbrk'
              /\ \/ \E i \in DOMAIN vm_freerg_list : vm_freerg_list'[j] = vm_freerg_list[i]
                 \/ sbrk + size <= vm_freerg_list'[j][1]
         /\ \A i, j \in DOMAIN vm_freerg_list' :
              i # j => Disjoint(vm_freerg_list'[i], vm_freerg_list'[j])
<1> DEFINE F == vm_freerg_list
           G == vm_freerg_list'
           a == AlignSize(size)
           rest == <<sbrk + size, sbrk + a>>
<1>1. /\ MaxBrk \in Nat /\ sbrk \in 0 .. MaxBrk /\ F \in Seq(Region)
      /\ size \in Nat /\ size >= 1 /\ a \in Nat /\ size <= a
  BY VmaAssumption, AlignSizeBound DEF VmaInv, VmaTypeOK
<1>2. sbrk' = sbrk + a /\ sbrk + a <= MaxBrk /\ G = Leftover(size) \o F
  BY DEF IncVmaLimit
<1> HIDE DEF a
<1>3. sbrk' \in 0 .. MaxBrk /\ sbrk + size <= sbrk' /\ sbrk <= sbrk'
  BY <1>1, <1>2
<1>4. Len(F) \in Nat /\ DOMAIN F = 1 .. Len(F) /\ \A i \in DOMAIN F : F[i] \in Region
  BY <1>1
<1>5. \A i \in DOMAIN F : F[i][2] <= sbrk /\ F[i][2] \in Nat
  BY <1>4, VmaAssumption DEF VmaInv, RegionsDisjoint, Region
<1>6. \A i, j \in DOMAIN F : i # j => Disjoint(F[i], F[j])
  BY DEF VmaInv, RegionsDisjoint
<1>7. CASE size < a
  <2>1. G = <<rest>> \o F
    BY <1>2, <1>7 DEF Leftover, a
  <2>2. rest \in Region /\ rest[1] = sbrk + size /\ rest[2] = sbrk'
    BY <1>1, <1>2, <1>7 DEF Region
  <2> HIDE DEF rest
  <2>3. /\ G \in Seq(Region) /\ Len(G) = Len(F) + 1
        /\ \A j \in 1 .. Len(F) + 1 : G[j] = IF j = 1 THEN rest ELSE F[j - 1]
    BY <1>1, <2>1, <2>2, PrependProperties
  <2>4. DOMAIN G = 1 .. Len(F) + 1
    BY <2>3
  <2>5. G[1] = rest /\ \A j \in DOMAIN G \ {1} : j - 1 \in DOMAIN F /\ G[j] = F[j - 1]
    BY <1>4, <2>3, <2>4
  <2>6. ASSUME NEW j \in DOMAIN G
        PROVE  /\ G[j][2] <= sbrk'
               /\ \/ \E i \in DOMAIN F : G[j] = F[i]
                  \/ sbrk + size <= G[j][1]
    <3>1. CASE j = 1
      BY <1>1, <1>3, <2>2, <2>5, <3>1
    <3>2. CASE j # 1
      <4>1. G[j] = F[j - 1] /\ j - 1 \in DOMAIN F
        BY <2>5, <3>2
      <4>2. F[j - 1][2] <= sbrk /\ F[j - 1][2] \in Nat
        BY <1>5, <4>1
      <4> QED
        BY <1>1, <1>3, <4>1, <4>2
    <3> QED
      BY <3>1, <3>2
  <2>7. \A i \in DOMAIN F : Disjoint(F[i], rest) /\ Disjoint(rest, F[i])
    <3> TAKE i \in DOMAIN F
    <3>1. F[i] \in Region /\ F[i][2] <= rest[1]
      BY <1>1, <1>4, <1>5, <2>2
    <3> QED
      BY <2>2, <3>1, AboveIsDisjoint
  <2>8. ASSUME NEW i \in DOMAIN G, NEW j \in DOMAIN G, i # j
        PROVE  Disjoint(G[i], G[j])
    <3>1. CASE i = 1
      BY <2>5, <2>7, <2>8, <3>1
    <3>2. CASE j = 1
      BY <2>5, <2>7, <2>8, <3>2
    <3>3. CASE i # 1 /\ j # 1
      <4>1. i - 1 # j - 1
        BY <1>4, <2>4, <2>8
      <4> QED
        BY <1>6, <2>5, <3>3, <4>1
    <3> QED
      BY <3>1, <3>2, <3>3
  <2> QED
    BY <1>3, <2>3, <2>6, <2>8
<1>8. CASE ~(size < a)
  <2>1. G = F
    <3>1. G = << >> \o F
      BY <1>2, <1>8 DEF Leftover, a
    <3> QED
      BY <1>1, <3>1, ConcatEmptySeq
  <2>2. \A j \in DOMAIN F : F[j][2] <= sbrk'
    BY <1>1, <1>3, <1>5
  <2> QED
    BY <1>1, <1>3, <1>6, <2>1, <2>2
<1> QED
  BY <1>7, <1>8

\* An extension that a program asks for adds a free region above all others.
LEMMA GrowInv ==
  ASSUME VmaInv, NEW size \in 1 .. MaxSize, Grow(size)
  PROVE  VmaInv'
<1> DEFINE F == vm_freerg_list
           G == vm_freerg_list'
           T == symrgtbl
<1>1. IncVmaLimit(size) /\ symrgtbl' = T
  BY DEF Grow
<1>2. /\ sbrk' \in 0 .. MaxBrk /\ sbrk + size <= sbrk'
      /\ G \in Seq(Region)
      /\ \A j \in DOMAIN G : G[j][2] <= sbrk'
      /\ \A j \in DOMAIN G : \/ \E i \in DOMAIN F : G[j] = F[i]
                             \/ sbrk + size <= G[j][1]
      /\ \A i, j \in DOMAIN G : i # j => Disjoint(G[i], G[j])
  BY <1>1, IncProperties
<1>3. /\ sbrk \in Nat /\ size \in Nat /\ size >= 1 /\ MaxBrk \in Nat
      /\ T \in [Reg -> Region]
  BY VmaAssumption DEF VmaInv, VmaTypeOK
<1>4. /\ \A p, q \in Reg : p # q => Disjoint(T[p], T[q])
      /\ \A p \in Reg, j \in DOMAIN F : Disjoint(T[p], F[j])
      /\ \A p \in Reg : T[p][2] <= sbrk
  BY DEF VmaInv, RegionsDisjoint
<1>5. VmaTypeOK'
  BY <1>1, <1>2, <1>3 DEF VmaTypeOK
<1>6. ASSUME NEW p \in Reg
      PROVE  T[p][2] <= sbrk' /\ \A j \in DOMAIN G : Disjoint(T[p], G[j])
  <2>1. T[p] \in Region /\ T[p][2] \in Nat /\ T[p][2] <= sbrk
    BY <1>3, <1>4 DEF Region
  <2>2. ASSUME NEW j \in DOMAIN G, sbrk + size <= G[j][1]
        PROVE  Disjoint(T[p], G[j])
    <3>1. G[j] \in Region /\ G[j][1] \in Nat
      BY <1>2, <1>3 DEF Region
    <3>2. T[p][2] <= G[j][1]
      BY <1>3, <2>1, <2>2, <3>1
    <3> QED
      BY <2>1, <3>1, <3>2, AboveIsDisjoint
  <2> QED
    BY <1>2, <1>3, <1>4, <2>1, <2>2
<1>7. RegionsDisjoint'
  BY <1>1, <1>2, <1>4, <1>6 DEF RegionsDisjoint, Disjoint, Bytes
<1> QED
  BY <1>5, <1>7 DEF VmaInv

\* The register gets the first size bytes of the extension.
LEMMA AllocExtendInv ==
  ASSUME VmaInv, NEW r \in Reg, NEW size \in 1 .. MaxSize, AllocExtend(r, size)
  PROVE  VmaInv'
<1> DEFINE F == vm_freerg_list
           G == vm_freerg_list'
           T == symrgtbl
           U == symrgtbl'
           new == <<sbrk, sbrk + size>>
<1>1. IncVmaLimit(size) /\ symrgtbl' = [T EXCEPT ![r] = new]
  BY DEF AllocExtend
<1>2. /\ sbrk' \in 0 .. MaxBrk /\ sbrk + size <= sbrk'
      /\ G \in Seq(Region)
      /\ \A j \in DOMAIN G : G[j][2] <= sbrk'
      /\ \A j \in DOMAIN G : \/ \E i \in DOMAIN F : G[j] = F[i]
                             \/ sbrk + size <= G[j][1]
      /\ \A i, j \in DOMAIN G : i # j => Disjoint(G[i], G[j])
  BY <1>1, IncProperties
<1>3. /\ sbrk \in Nat /\ size \in Nat /\ size >= 1 /\ MaxBrk \in Nat
      /\ T \in [Reg -> Region] /\ F \in Seq(Region)
  BY VmaAssumption DEF VmaInv, VmaTypeOK
<1>4. /\ \A p, q \in Reg : p # q => Disjoint(T[p], T[q])
      /\ \A p \in Reg, j \in DOMAIN F : Disjoint(T[p], F[j])
      /\ \A p \in Reg : T[p][2] <= sbrk
      /\ \A j \in DOMAIN F : F[j][2] <= sbrk
  BY DEF VmaInv, RegionsDisjoint
<1>5. new \in Region /\ new[1] = sbrk /\ new[2] = sbrk + size
  BY <1>2, <1>3 DEF Region
<1> HIDE DEF new
<1>6. U \in [Reg -> Region] /\ U[r] = new /\ \A p \in Reg : p # r => U[p] = T[p]
  BY <1>1, <1>3, <1>5
<1>7. VmaTypeOK'
  BY <1>2, <1>6 DEF VmaTypeOK
<1>8. ASSUME NEW p \in Reg
      PROVE  /\ T[p][2] <= sbrk'
             /\ Disjoint(T[p], new) /\ Disjoint(new, T[p])
             /\ \A j \in DOMAIN G : Disjoint(T[p], G[j])
  <2>1. T[p] \in Region /\ T[p][2] \in Nat /\ T[p][2] <= sbrk
    BY <1>3, <1>4 DEF Region
  <2>2. ASSUME NEW j \in DOMAIN G, sbrk + size <= G[j][1]
        PROVE  Disjoint(T[p], G[j])
    <3>1. G[j] \in Region /\ G[j][1] \in Nat
      BY <1>2, <1>3 DEF Region
    <3>2. T[p][2] <= G[j][1]
      BY <1>3, <2>1, <2>2, <3>1
    <3> QED
      BY <2>1, <3>1, <3>2, AboveIsDisjoint
  <2>3. Disjoint(T[p], new) /\ Disjoint(new, T[p])
    BY <1>5, <2>1, AboveIsDisjoint
  <2> QED
    BY <1>2, <1>3, <1>4, <2>1, <2>2, <2>3
<1>9. ASSUME NEW j \in DOMAIN G
      PROVE  Disjoint(new, G[j])
  <2>1. G[j] \in Region
    BY <1>2
  <2>2. CASE \E i \in DOMAIN F : G[j] = F[i]
    <3>1. G[j][2] <= new[1]
      BY <1>4, <1>5, <2>2
    <3> QED
      BY <1>5, <2>1, <3>1, AboveIsDisjoint
  <2>3. CASE sbrk + size <= G[j][1]
    BY <1>5, <2>1, <2>3, AboveIsDisjoint
  <2> QED
    BY <1>2, <2>2, <2>3
<1>10. ASSUME NEW p \in Reg, NEW q \in Reg, p # q
       PROVE  Disjoint(U[p], U[q])
  BY <1>4, <1>6, <1>8, <1>10
<1>11. ASSUME NEW p \in Reg
       PROVE  U[p][2] <= sbrk' /\ \A j \in DOMAIN G : Disjoint(U[p], G[j])
  <2>1. CASE p = r
    BY <1>2, <1>5, <1>6, <1>9, <2>1
  <2>2. CASE p # r
    BY <1>6, <1>8, <2>2
  <2> QED
    BY <2>1, <2>2
<1>12. RegionsDisjoint'
  BY <1>2, <1>10, <1>11 DEF RegionsDisjoint, Disjoint, Bytes
<1> QED
  BY <1>7, <1>12 DEF VmaInv

\* The region of the register becomes the first node of the free list.
LEMMA FreeInv ==
  ASSUME VmaInv, NEW r \in Reg, Free(r)
  PROVE  VmaInv'
<1> DEFINE F == vm_freerg_list
           G == vm_freerg_list'
           T == symrgtbl
           U == symrgtbl'
<1>1. G = <<T[r]>> \o F /\ U = [T EXCEPT ![r] = NoRegion] /\ sbrk' = sbrk
  BY DEF Free
<1>2. sbrk \in 0 .. MaxBrk /\ T \in [Reg -> Region] /\ F \in Seq(Region)
  BY DEF VmaInv, VmaTypeOK
<1>3. /\ G \in Seq(Region) /\ Len(G) = Len(F) + 1
      /\ \A j \in 1 .. Len(F) + 1 : G[j] = IF j = 1 THEN T[r] ELSE F[j - 1]
  BY <1>1, <1>2, PrependProperties
<1>4. DOMAIN G = 1 .. Len(F) + 1 /\ Len(F) \in Nat /\ DOMAIN F = 1 .. Len(F)
  BY <1>2, <1>3
<1>5. G[1] = T[r] /\ \A j \in DOMAIN G \ {1} : j - 1 \in DOMAIN F /\ G[j] = F[j - 1]
  BY <1>3, <1>4
<1>6. /\ U \in [Reg -> Region] /\ U[r] = NoRegion
      /\ \A p \in Reg : p # r => U[p] = T[p]
  BY <1>1, <1>2, NoRegionFacts
<1>7. VmaTypeOK'
  BY <1>1, <1>2, <1>3, <1>6 DEF VmaTypeOK
<1>8. /\ \A p, q \in Reg : p # q => Disjoint(T[p], T[q])
      /\ \A i, j \in DOMAIN F : i # j => Disjoint(F[i], F[j])
      /\ \A p \in Reg, j \in DOMAIN F : Disjoint(T[p], F[j]) /\ Disjoint(F[j], T[p])
      /\ \A p \in Reg : T[p][2] <= sbrk
      /\ \A j \in DOMAIN F : F[j][2] <= sbrk
  BY DEF VmaInv, RegionsDisjoint, Disjoint
<1>9. ASSUME NEW x PROVE Disjoint(NoRegion, x) /\ Disjoint(x, NoRegion)
  BY NoRegionFacts DEF Disjoint
<1>10. ASSUME NEW p \in Reg, NEW q \in Reg, p # q
       PROVE  Disjoint(U[p], U[q])
  BY <1>6, <1>8, <1>9, <1>10
<1>11. ASSUME NEW i \in DOMAIN G, NEW j \in DOMAIN G, i # j
       PROVE  Disjoint(G[i], G[j])
  <2>1. CASE i = 1
    BY <1>5, <1>8, <1>11, <2>1
  <2>2. CASE j = 1
    BY <1>5, <1>8, <1>11, <2>2
  <2>3. CASE i # 1 /\ j # 1
    <3>1. i - 1 # j - 1
      BY <1>4, <1>11
    <3> QED
      BY <1>5, <1>8, <2>3, <3>1
  <2> QED
    BY <2>1, <2>2, <2>3
<1>12. ASSUME NEW p \in Reg, NEW j \in DOMAIN G
       PROVE  Disjoint(U[p], G[j])
  <2>1. CASE p = r
    BY <1>6, <1>9, <2>1
  <2>2. CASE p # r /\ j = 1
    BY <1>5, <1>6, <1>8, <2>2
  <2>3. CASE p # r /\ j # 1
    BY <1>5, <1>6, <1>8, <2>3
  <2> QED
    BY <2>1, <2>2, <2>3
<1>13. \A p \in Reg : U[p][2] <= sbrk
  BY <1>2, <1>6, <1>8, NoRegionFacts
<1>14. \A j \in DOMAIN G : G[j][2] <= sbrk
  BY <1>5, <1>8
<1>15. RegionsDisjoint'
  BY <1>1, <1>10, <1>11, <1>12, <1>13, <1>14 DEF RegionsDisjoint, Disjoint, Bytes
<1> QED
  BY <1>7, <1>15 DEF VmaInv

\* alloc, free and the extension keep all regions apart.
LEMMA NextInv == VmaInv /\ [VmaNext]_vmaVars => VmaInv'
<1> SUFFICES ASSUME VmaInv, [VmaNext]_vmaVars PROVE VmaInv'
  OBVIOUS
<1>1. CASE UNCHANGED vmaVars
  BY <1>1 DEF VmaInv, VmaTypeOK, RegionsDisjoint, Disjoint, Bytes, vmaVars
<1>2. ASSUME NEW r \in Reg, Free(r) PROVE VmaInv'
  BY <1>2, FreeInv
<1>3. ASSUME NEW r \in Reg, NEW size \in 1 .. MaxSize, AllocReuse(r, size) PROVE VmaInv'
  BY <1>3, AllocReuseInv
<1>4. ASSUME NEW r \in Reg, NEW size \in 1 .. MaxSize, AllocExtend(r, size) PROVE VmaInv'
  BY <1>4, AllocExtendInv
<1>5. ASSUME NEW size \in 1 .. MaxSize, Grow(size) PROVE VmaInv'
  BY <1>5, GrowInv
<1> QED
  BY <1>1, <1>2, <1>3, <1>4, <1>5 DEF VmaNext

-----------------------------------------------------------------------------
\* The types and the ownership of addresses together are inductive.
THEOREM AlwaysVmaInv == VmaSpec => []VmaInv
BY InitInv, NextInv, PTL DEF VmaSpec

\* A region never ends before it starts or beyond the bound of the area, in
\* whatever order a program allocates, frees and grows.
THEOREM AlwaysVmaTypeOK == VmaSpec => []VmaTypeOK
<1>1. VmaInv => VmaTypeOK
  BY DEF VmaInv
<1> QED
  BY <1>1, AlwaysVmaInv, PTL

\* Two variables never share an address, and no address of a variable is free.
THEOREM AlwaysRegionsDisjoint == VmaSpec => []RegionsDisjoint
<1>1. VmaInv => RegionsDisjoint
  BY DEF VmaInv
<1> QED
  BY <1>1, AlwaysVmaInv, PTL

-----------------------------------------------------------------------------
(* Address space that is lost. *)

\* An address of a free region stays in the free list or is given away.
LEMMA CutKeeps ==
  ASSUME VmaTypeOK,
         NEW k \in DOMAIN vm_freerg_list, NEW size \in 1 .. MaxSize, Fits(k, size),
         NEW b \in Nat, NEW j \in DOMAIN vm_freerg_list, b \in Bytes(vm_freerg_list[j])
  PROVE  \/ b \in Bytes(<<vm_freerg_list[k][1], vm_freerg_list[k][1] + size>>)
         \/ \E i \in DOMAIN Cut(k, size) : b \in Bytes(Cut(k, size)[i])
<1> DEFINE F == vm_freerg_list
           start == F[k][1]
           end == F[k][2]
           C == Cut(k, size)
<1>1. /\ F \in Seq(Region) /\ Len(F) \in Nat /\ DOMAIN F = 1 .. Len(F)
      /\ F[k] \in Region
  BY DEF VmaTypeOK
<1>2. start \in Nat /\ end \in Nat /\ start + size <= end /\ size \in Nat
  BY <1>1, VmaAssumption DEF Fits, Region
<1>3. CASE start + size < end \/ ~(k < Len(F))
  <2> DEFINE left == IF start + size < end THEN <<start + size, end>> ELSE <<end, end>>
  <2>1. C = [F EXCEPT ![k] = left]
    BY <1>3 DEF Cut
  <2>2. DOMAIN C = DOMAIN F /\ C[k] = left /\ \A i \in DOMAIN F \ {k} : C[i] = F[i]
    BY <1>1, <2>1
  <2>3. b \in Bytes(F[k]) => b \in Bytes(<<start, start + size>>) \/ b \in Bytes(left)
    BY <1>2, <1>3 DEF Bytes
  <2> HIDE DEF left, C
  <2>4. CASE j = k
    BY <2>2, <2>3, <2>4 DEF C
  <2>5. CASE j # k
    BY <2>2, <2>5 DEF C
  <2> QED
    BY <2>4, <2>5
<1>4. CASE ~(start + size < end) /\ k < Len(F)
  <2>1. C = RemoveAt(F, k)
    BY <1>4 DEF Cut
  <2>2. /\ C \in Seq(Region) /\ Len(C) = Len(F) - 1
        /\ \A i \in 1 .. Len(F) - 1 : C[i] = IF i < k THEN F[i] ELSE F[i + 1]
    BY <1>1, <2>1, RemoveAtProperties
  <2> HIDE DEF C
  <2>3. DOMAIN C = 1 .. Len(F) - 1
    BY <2>2
  <2>4. CASE j = k
    <3>1. b \in Bytes(<<start, start + size>>)
      BY <1>2, <1>4, <2>4 DEF Bytes
    <3> QED
      BY <3>1
  <2>5. CASE j < k
    BY <1>1, <1>4, <2>2, <2>3, <2>5 DEF C
  <2>6. CASE j > k
    <3>1. j - 1 \in 1 .. Len(F) - 1 /\ ~(j - 1 < k) /\ (j - 1) + 1 = j
      BY <1>1, <2>6
    <3>2. C[j - 1] = F[j] /\ j - 1 \in DOMAIN C
      BY <2>2, <2>3, <3>1
    <3> QED
      BY <3>2 DEF C
  <2> QED
    BY <1>1, <2>4, <2>5, <2>6
<1> QED
  BY <1>3, <1>4

\* A node in front of the free list leaves the others in it.
LEMMA PrependKeeps ==
  ASSUME VmaTypeOK, NEW x \in Region, vm_freerg_list' = <<x>> \o vm_freerg_list
  PROVE  /\ \E n \in DOMAIN vm_freerg_list' : vm_freerg_list'[n] = x
         /\ \A k \in DOMAIN vm_freerg_list : \E n \in DOMAIN vm_freerg_list' :
              vm_freerg_list'[n] = vm_freerg_list[k]
<1> DEFINE s == vm_freerg_list
           t == vm_freerg_list'
<1>1. s \in Seq(Region) /\ Len(s) \in Nat /\ DOMAIN s = 1 .. Len(s)
  BY DEF VmaTypeOK
<1>2. /\ t \in Seq(Region) /\ Len(t) = Len(s) + 1
      /\ \A n \in 1 .. Len(s) + 1 : t[n] = IF n = 1 THEN x ELSE s[n - 1]
  BY <1>1, PrependProperties
<1>3. DOMAIN t = 1 .. Len(s) + 1
  BY <1>2
<1>4. 1 \in DOMAIN t /\ t[1] = x
  BY <1>1, <1>2, <1>3
<1>5. \A k \in DOMAIN s : k + 1 \in DOMAIN t /\ t[k + 1] = s[k]
  BY <1>1, <1>2, <1>3
<1> QED
  BY <1>4, <1>5

\* An extension leaves every free region in the free list.
LEMMA IncKeeps ==
  ASSUME VmaInv, NEW size \in 1 .. MaxSize, IncVmaLimit(size),
         NEW k \in DOMAIN vm_freerg_list
  PROVE  \E j \in DOMAIN vm_freerg_list' : vm_freerg_list'[j] = vm_freerg_list[k]
<1> DEFINE F == vm_freerg_list
           a == AlignSize(size)
           rest == <<sbrk + size, sbrk + a>>
<1>1. /\ MaxBrk \in Nat /\ sbrk \in 0 .. MaxBrk /\ F \in Seq(Region)
      /\ size \in Nat /\ a \in Nat /\ sbrk + a <= MaxBrk
  BY VmaAssumption, AlignSizeBound DEF VmaInv, VmaTypeOK, IncVmaLimit
<1>2. vm_freerg_list' = Leftover(size) \o F
  BY DEF IncVmaLimit
<1>3. CASE size < a
  <2>1. rest \in Region
    BY <1>1, <1>3 DEF Region
  <2>2. vm_freerg_list' = <<rest>> \o F
    BY <1>2, <1>3 DEF Leftover
  <2> HIDE DEF rest
  <2> QED
    BY <2>1, <2>2, PrependKeeps DEF VmaInv
<1>4. CASE ~(size < a)
  <2>1. vm_freerg_list' = << >> \o F
    BY <1>2, <1>4 DEF Leftover
  <2>2. vm_freerg_list' = F
    BY <1>1, <2>1, ConcatEmptySeq
  <2> QED
    BY <2>2
<1> QED
  BY <1>3, <1>4

\* A register that gets a region of at least one address.
LEMMA OverwriteLoses ==
  ASSUME VmaTypeOK, NEW r \in Reg, NEW rg, rg # NoRegion,
         symrgtbl' = [symrgtbl EXCEPT ![r] = rg],
         NEW b, ~Owned(b)', NEW s \in Reg, b \in Bytes(symrgtbl[s])
  PROVE  \E q \in Reg : b \in Bytes(symrgtbl[q]) /\ symrgtbl'[q] \notin {symrgtbl[q], NoRegion}
<1>1. symrgtbl'[r] = rg /\ \A q \in Reg : q # r => symrgtbl'[q] = symrgtbl[q]
  BY DEF VmaTypeOK
<1>2. symrgtbl'[s] # symrgtbl[s]
  BY DEF Owned, Bytes
<1> QED
  BY <1>1, <1>2

\* A program loses address space only by an alloc into a register that still
\* has a region, for every alignment and in every order of its calls.
THEOREM AlwaysLostOnlyByOverwrite == VmaSpec => LostOnlyByOverwrite
<1> DEFINE Loses(b) ==
      \E r \in Reg : b \in Bytes(symrgtbl[r]) /\ symrgtbl'[r] \notin {symrgtbl[r], NoRegion}
    A == \A b \in 0 .. MaxBrk - 1 : Owned(b) /\ ~Owned(b)' => Loses(b)
<1>1. ASSUME VmaInv, [VmaNext]_vmaVars PROVE [A]_vmaVars
  <2> SUFFICES ASSUME VmaNext, NEW b \in Nat, Owned(b), ~Owned(b)' PROVE Loses(b)
    BY <1>1, VmaAssumption
  <2>f. /\ symrgtbl \in [Reg -> Region] /\ vm_freerg_list \in Seq(Region)
        /\ sbrk \in Nat
    BY <1>1, VmaAssumption DEF VmaInv, VmaTypeOK
  <2>1. ASSUME NEW r \in Reg, Free(r) PROVE FALSE
    <3>1. symrgtbl[r] \in Region
      BY <2>f
    <3>f. vm_freerg_list' = <<symrgtbl[r]>> \o vm_freerg_list
      BY <2>1 DEF Free
    <3>2. /\ \E n \in DOMAIN vm_freerg_list' : vm_freerg_list'[n] = symrgtbl[r]
          /\ \A k \in DOMAIN vm_freerg_list : \E n \in DOMAIN vm_freerg_list' :
               vm_freerg_list'[n] = vm_freerg_list[k]
      BY <1>1, <3>f, <3>1, PrependKeeps DEF VmaInv
    <3>3. \A s \in Reg : s # r => symrgtbl'[s] = symrgtbl[s]
      BY <2>1, <2>f DEF Free
    <3> QED
      BY <3>2, <3>3 DEF Owned, Bytes
  <2>2. ASSUME NEW r \in Reg, NEW size \in 1 .. MaxSize, AllocReuse(r, size) PROVE Loses(b)
    <3>1. PICK k \in DOMAIN vm_freerg_list :
            /\ Fits(k, size)
            /\ symrgtbl' = [symrgtbl EXCEPT ![r] =
                 <<vm_freerg_list[k][1], vm_freerg_list[k][1] + size>>]
            /\ vm_freerg_list' = Cut(k, size)
      BY <2>2 DEF AllocReuse
    <3> DEFINE taken == <<vm_freerg_list[k][1], vm_freerg_list[k][1] + size>>
    <3>2. taken # NoRegion
      <4>1. vm_freerg_list[k][1] \in Nat
        BY <2>f, VmaAssumption DEF Region
      <4> QED
        BY <4>1, VmaAssumption DEF NoRegion
    <3>3. symrgtbl' = [symrgtbl EXCEPT ![r] = taken]
      BY <3>1
    <3>4. symrgtbl'[r] = taken
      BY <2>f, <3>3
    <3>5. ~ \E j \in DOMAIN vm_freerg_list : b \in Bytes(vm_freerg_list[j])
      <4> SUFFICES ASSUME NEW j \in DOMAIN vm_freerg_list, b \in Bytes(vm_freerg_list[j])
                   PROVE  FALSE
        OBVIOUS
      <4>1. \/ b \in Bytes(taken)
            \/ \E n \in DOMAIN Cut(k, size) : b \in Bytes(Cut(k, size)[n])
        BY <1>1, <3>1, CutKeeps DEF VmaInv
      <4> HIDE DEF taken
      <4> QED
        BY <3>1, <3>4, <4>1 DEF Owned, Bytes
    <3>6. PICK s \in Reg : b \in Bytes(symrgtbl[s])
      BY <3>5 DEF Owned
    <3> HIDE DEF taken
    <3> QED
      BY <1>1, <3>2, <3>3, <3>6, OverwriteLoses DEF VmaInv
  <2>3. ASSUME NEW r \in Reg, NEW size \in 1 .. MaxSize, AllocExtend(r, size) PROVE Loses(b)
    <3> DEFINE new == <<sbrk, sbrk + size>>
    <3>1. IncVmaLimit(size) /\ symrgtbl' = [symrgtbl EXCEPT ![r] = new]
      BY <2>3 DEF AllocExtend
    <3>2. new # NoRegion
      BY <2>f, VmaAssumption DEF NoRegion
    <3> HIDE DEF new
    <3>3. ~ \E j \in DOMAIN vm_freerg_list : b \in Bytes(vm_freerg_list[j])
      BY <1>1, <3>1, IncKeeps DEF Owned, Bytes
    <3>4. PICK s \in Reg : b \in Bytes(symrgtbl[s])
      BY <3>3 DEF Owned
    <3> QED
      BY <1>1, <3>1, <3>2, <3>4, OverwriteLoses DEF VmaInv
  <2>4. ASSUME NEW size \in 1 .. MaxSize, Grow(size) PROVE FALSE
    <3>1. /\ symrgtbl' = symrgtbl
          /\ \A k \in DOMAIN vm_freerg_list : \E n \in DOMAIN vm_freerg_list' :
               vm_freerg_list'[n] = vm_freerg_list[k]
      BY <1>1, <2>4, IncKeeps DEF Grow
    <3> QED
      BY <3>1 DEF Owned, Bytes
  <2> QED
    BY <2>1, <2>2, <2>3, <2>4 DEF VmaNext
<1> QED
  BY <1>1, AlwaysVmaInv, PTL DEF VmaSpec, LostOnlyByOverwrite

-----------------------------------------------------------------------------
(* The instructions do with the regions what Vma says. *)

\* Each memory instruction allocates, frees, extends the area or leaves the
\* regions alone.
LEMMA LibStepsVma == [LibNext]_libVars => [VmaNext]_vmaVars
<1> SUFFICES ASSUME [LibNext]_libVars PROVE [VmaNext]_vmaVars
  OBVIOUS
<1>1. ASSUME NEW r \in Reg, NEW size \in 1 .. MaxSize, LibAlloc(r, size)
      PROVE  VmaNext
  BY <1>1 DEF LibAlloc, VmaNext
<1>2. ASSUME NEW r \in Reg, LibFree(r) PROVE VmaNext
  BY <1>2 DEF LibFree, VmaNext
<1>3. ASSUME NEW size \in 1 .. MaxSize, LibGrow(size) PROVE VmaNext
  BY <1>3 DEF LibGrow, VmaNext
<1>4. ASSUME NEW r \in Reg, NEW k \in 0 .. MaxSize, NEW v \in Value,
             LibRead(r, k, v) \/ LibWrite(r, k, v)
      PROVE  UNCHANGED vmaVars
  BY <1>4 DEF LibRead, LibWrite
<1>5. ASSUME NEW dir \in {"from_user", "to_user"}, NEW src \in Reg, NEW dst \in Reg,
             NEW off \in Offsets, NEW n \in CopySizes, CopyBegin(dir, src, dst, off, n)
      PROVE  UNCHANGED vmaVars
  BY <1>5 DEF CopyBegin
<1>6. ASSUME NEW v \in Value, CopyRead(v) PROVE UNCHANGED vmaVars
  BY <1>6 DEF CopyRead
<1>7. CopyWrite \/ CopyFail \/ CopyEnd => UNCHANGED vmaVars
  BY DEF CopyWrite, CopyFail, CopyEnd
<1>8. UNCHANGED libVars => UNCHANGED vmaVars
  BY DEF libVars
<1> QED
  BY <1>1, <1>2, <1>3, <1>4, <1>5, <1>6, <1>7, <1>8 DEF LibNext

\* Whatever the memory instructions do, the regions behave as those of Vma.
THEOREM LibImplementsVma == LibSpec => VmaSpec
<1>1. LibInit => VmaInit
  BY DEF LibInit
<1> QED
  BY <1>1, LibStepsVma, PTL DEF LibSpec, VmaSpec

-----------------------------------------------------------------------------
(* The bytes a copy moves. *)

Content == Value \cup {Fresh}
Memory == [{Self} -> [0 .. MaxBrk -> Content]]
Copies == [pc : {"read", "write"}, dir : {"from_user", "to_user"}, src : Reg, dst : Reg,
           off : Nat, n : Nat, i : Nat, data : Content]

LibTypeOK ==
  /\ mem \in Memory /\ orig \in Memory
  /\ copy \in Copies \cup {NoCopy}

\* Byte From + j of the source goes to byte To + j of the destination.
From == IF copy.dir = "from_user" THEN copy.off ELSE 0
To == IF copy.dir = "from_user" THEN 0 ELSE copy.off

\* The copies that do not read what they have written.
Apart == copy.src # copy.dst \/ copy.dir = "from_user" \/ copy.off = 0

Moved(k) == k \in To .. To + copy.i - 1

Cell(m, r, k) == m[Self][Addr(r, k)]

DstExact == \A k \in Nat : InBounds(copy.dst, k) =>
  IF Moved(k)
  THEN Cell(orig, copy.src, From + k - To) \in {Fresh, Cell(mem, copy.dst, k)}
  ELSE Cell(orig, copy.dst, k) \in {Fresh, Cell(mem, copy.dst, k)}

SrcExact == \A k \in Nat : InBounds(copy.src, k) /\ ~(copy.src = copy.dst /\ Moved(k)) =>
  Cell(orig, copy.src, k) \in {Fresh, Cell(mem, copy.src, k)}

DataExact == copy.pc = "write" => Cell(orig, copy.src, From + copy.i) \in {Fresh, copy.data}

CopyInv == ~Idle /\ Apart => DstExact /\ SrcExact /\ DataExact

\* What waits to be written has been read.
DataRead == ~Idle /\ copy.pc = "write" => copy.data \in Value

LibInv == VmaInv /\ LibTypeOK /\ CopyInv /\ DataRead

\* A byte that passes the test of __read and __write is an address of the area
\* that belongs to the region.
LEMMA InBoundsFacts ==
  ASSUME VmaInv, NEW r \in Reg, NEW k \in Nat, InBounds(r, k)
  PROVE  Addr(r, k) \in 0 .. MaxBrk /\ Addr(r, k) \in Bytes(symrgtbl[r])
<1>1. symrgtbl[r] \in Region /\ MaxBrk \in Nat
  BY VmaAssumption DEF VmaInv, VmaTypeOK
<1> QED
  BY <1>1 DEF InBounds, Addr, Bytes, Region

\* Bytes of different registers have different addresses, as have different
\* bytes of one register.
LEMMA AddrInjective ==
  ASSUME VmaInv, NEW r \in Reg, NEW k \in Nat, InBounds(r, k),
         NEW s \in Reg, NEW j \in Nat, InBounds(s, j), Addr(r, k) = Addr(s, j)
  PROVE  r = s /\ k = j
<1>1. r = s
  BY InBoundsFacts DEF VmaInv, RegionsDisjoint, Disjoint
<1>2. symrgtbl[r] \in Region /\ MaxBrk \in Nat
  BY VmaAssumption DEF VmaInv, VmaTypeOK
<1> QED
  BY <1>1, <1>2 DEF Addr, Region

\* What a write or a first look does to the memory.
LEMMA StoreFacts ==
  ASSUME mem \in Memory, NEW a \in 0 .. MaxBrk, NEW v \in Content,
         mem' = [mem EXCEPT ![Self][a] = v]
  PROVE  /\ mem' \in Memory /\ mem'[Self][a] = v
         /\ \A b \in 0 .. MaxBrk : b # a => mem'[Self][b] = mem[Self][b]
BY DEF Memory

\* A read changes no byte that had been seen or written.
LEMMA ReadFacts ==
  ASSUME mem \in Memory, NEW a \in 0 .. MaxBrk, NEW v \in Value,
         Flat!Becomes(Self, a, v)
  PROVE  /\ mem' \in Memory /\ mem'[Self][a] = v
         /\ mem[Self][a] \in {Fresh, v}
         /\ \A b \in 0 .. MaxBrk : mem[Self][b] \in {Fresh, mem'[Self][b]}
<1>1. mem[Self][a] \in {Fresh, v} /\ mem' = [mem EXCEPT ![Self][a] = v]
  BY DEF Flat!Becomes
<1> QED
  BY <1>1, StoreFacts DEF Content

\* No copy is under way at first, and nothing has been written.
LEMMA LibInitInv == LibInit => LibInv
<1> SUFFICES ASSUME LibInit PROVE LibInv
  OBVIOUS
<1>1. VmaInv
  BY InitInv DEF LibInit
<1>2. mem \in Memory
  BY DEF LibInit, Flat!FlatInit, Memory, Content
<1> QED
  BY <1>1, <1>2 DEF LibInit, LibInv, LibTypeOK, CopyInv, DataRead, Idle

\* A copy starts with both of its ends checked and nothing moved.
LEMMA CopyBeginInv ==
  ASSUME LibInv, NEW dir \in {"from_user", "to_user"}, NEW src \in Reg, NEW dst \in Reg,
         NEW off \in Offsets, NEW n \in CopySizes, CopyBegin(dir, src, dst, off, n)
  PROVE  LibTypeOK' /\ CopyInv'
<1>1. mem \in Memory /\ mem' = mem /\ orig' = mem
  BY DEF LibInv, LibTypeOK, CopyBegin
<1>2. copy' = [pc |-> "read", dir |-> dir, src |-> src, dst |-> dst,
               off |-> off, n |-> n, i |-> 0, data |-> Fresh]
  BY DEF CopyBegin
<1>3. off \in Nat /\ n \in Nat
  BY LibMemAssumption
<1>4. copy' \in Copies
  BY <1>2, <1>3 DEF Copies, Content
<1>5. copy'.i = 0 /\ copy'.pc = "read" /\ (To \in Nat)'
  BY <1>2, <1>3 DEF To
<1>6. ASSUME NEW k \in Nat PROVE ~Moved(k)'
  <2>1. Moved(k)' <=> k \in To' .. To' + 0 - 1
    BY <1>5 DEF Moved
  <2>2. \A t \in Nat : k \notin t .. t + 0 - 1
    OBVIOUS
  <2> QED
    BY <1>5, <2>1, <2>2
<1>7. DstExact' /\ SrcExact' /\ DataExact'
  BY <1>1, <1>5, <1>6 DEF DstExact, SrcExact, DataExact, Cell, Addr
<1> QED
  BY <1>1, <1>4, <1>7 DEF LibTypeOK, CopyInv

\* The byte that a copy reads is the next one of its source.
LEMMA CopyReadInv ==
  ASSUME LibInv, NEW v \in Value, CopyRead(v)
  PROVE  LibTypeOK' /\ CopyInv'
<1> DEFINE a == Addr(copy.src, ReadAt(copy.i))
<1>1. /\ copy.pc = "read" /\ InBounds(copy.src, ReadAt(copy.i))
      /\ Flat!Becomes(Self, a, v)
      /\ copy' = [copy EXCEPT !.pc = "write", !.data = v]
      /\ symrgtbl' = symrgtbl /\ orig' = orig
  BY DEF CopyRead, vmaVars
<1>2. VmaInv /\ mem \in Memory /\ orig \in Memory /\ copy \in Copies
  BY <1>1 DEF LibInv, LibTypeOK, NoCopy
<1>3. /\ copy.src \in Reg /\ copy.dst \in Reg /\ copy.off \in Nat /\ copy.i \in Nat
      /\ copy.dir \in {"from_user", "to_user"}
  BY <1>2 DEF Copies
<1>4. From \in Nat /\ To \in Nat /\ ReadAt(copy.i) = From + copy.i /\ ReadAt(copy.i) \in Nat
  BY <1>3 DEF From, To, ReadAt
<1>5. a \in 0 .. MaxBrk
  BY <1>1, <1>2, <1>3, <1>4, InBoundsFacts
<1>6. /\ mem' \in Memory /\ mem'[Self][a] = v /\ mem[Self][a] \in {Fresh, v}
      /\ \A b \in 0 .. MaxBrk : mem[Self][b] \in {Fresh, mem'[Self][b]}
  BY <1>1, <1>2, <1>5, ReadFacts
<1>7. /\ copy' \in Copies /\ copy'.data = v
      /\ copy'.src = copy.src /\ copy'.dst = copy.dst /\ copy'.off = copy.off
      /\ copy'.dir = copy.dir /\ copy'.i = copy.i
  BY <1>1, <1>2 DEF Copies, Content
<1>8. LibTypeOK'
  BY <1>1, <1>2, <1>6, <1>7 DEF LibTypeOK
<1>9. From' = From /\ To' = To /\ Apart' = Apart
  BY <1>7 DEF From, To, Apart
<1>10. ASSUME Apart PROVE DstExact' /\ SrcExact' /\ DataExact'
  <2>1. DstExact /\ SrcExact
    BY <1>1, <1>10 DEF LibInv, CopyInv, Idle, NoCopy
  <2>2. ASSUME NEW k \in Nat
        PROVE  /\ Moved(k)' = Moved(k)
               /\ \A r \in Reg : /\ InBounds(r, k)' = InBounds(r, k)
                                 /\ Addr(r, k)' = Addr(r, k)
    BY <1>1, <1>7, <1>9 DEF Moved, InBounds, Addr
  <2>3. ASSUME NEW r \in Reg, NEW k \in Nat, InBounds(r, k)
        PROVE  Cell(mem, r, k) \in {Fresh, Cell(mem', r, k)}
    BY <1>2, <1>6, <2>3, InBoundsFacts DEF Cell
  <2>4. ASSUME NEW k \in Nat, InBounds(copy.dst, k)
        PROVE  IF Moved(k)
               THEN Cell(orig, copy.src, From + k - To) \in {Fresh, Cell(mem', copy.dst, k)}
               ELSE Cell(orig, copy.dst, k) \in {Fresh, Cell(mem', copy.dst, k)}
    <3>1. Cell(mem, copy.dst, k) \in {Fresh, Cell(mem', copy.dst, k)}
      BY <1>3, <2>3, <2>4
    <3>2. CASE Moved(k)
      <4>1. Cell(orig, copy.src, From + k - To) \in {Fresh, Cell(mem, copy.dst, k)}
        BY <2>1, <2>4, <3>2 DEF DstExact
      <4> QED
        BY <3>1, <3>2, <4>1
    <3>3. CASE ~Moved(k)
      <4>1. Cell(orig, copy.dst, k) \in {Fresh, Cell(mem, copy.dst, k)}
        BY <2>1, <2>4, <3>3 DEF DstExact
      <4> QED
        BY <3>1, <3>3, <4>1
    <3> QED
      BY <3>2, <3>3
  <2>5. ASSUME NEW k \in Nat, InBounds(copy.src, k), ~(copy.src = copy.dst /\ Moved(k))
        PROVE  Cell(orig, copy.src, k) \in {Fresh, Cell(mem', copy.src, k)}
    <3>1. Cell(mem, copy.src, k) \in {Fresh, Cell(mem', copy.src, k)}
      BY <1>3, <2>3, <2>5
    <3>2. Cell(orig, copy.src, k) \in {Fresh, Cell(mem, copy.src, k)}
      BY <2>1, <2>5 DEF SrcExact
    <3> QED
      BY <3>1, <3>2
  <2>6. DstExact'
    BY <1>1, <1>3, <1>7, <1>9, <2>2, <2>4 DEF DstExact, Cell, Addr
  <2>7. SrcExact'
    BY <1>1, <1>3, <1>7, <1>9, <2>2, <2>5 DEF SrcExact, Cell, Addr
  <2>8. Cell(orig, copy.src, From + copy.i) \in {Fresh, v}
    <3>1. copy.src = copy.dst => ~Moved(From + copy.i)
      BY <1>3, <1>10 DEF Moved, Apart, From, To
    <3>2. Cell(orig, copy.src, From + copy.i) \in {Fresh, Cell(mem, copy.src, From + copy.i)}
      BY <1>1, <1>4, <2>1, <3>1 DEF SrcExact
    <3>3. Cell(mem, copy.src, From + copy.i) \in {Fresh, v}
      BY <1>4, <1>6 DEF Cell
    <3> QED
      BY <3>2, <3>3
  <2>9. DataExact'
    BY <1>1, <1>7, <1>9, <2>8 DEF DataExact, Cell, Addr
  <2> QED
    BY <2>6, <2>7, <2>9
<1> QED
  BY <1>8, <1>9, <1>10 DEF CopyInv

\* The byte that a copy writes is the next one of its destination.
LEMMA CopyWriteInv ==
  ASSUME LibInv, CopyWrite
  PROVE  LibTypeOK' /\ CopyInv'
<1> DEFINE w == To + copy.i
           a == Addr(copy.dst, w)
<1>1. VmaInv /\ mem \in Memory /\ orig \in Memory /\ copy \in Copies
  BY DEF LibInv, LibTypeOK, CopyWrite, NoCopy
<1>2. /\ copy.src \in Reg /\ copy.dst \in Reg /\ copy.off \in Nat /\ copy.i \in Nat
      /\ copy.dir \in {"from_user", "to_user"} /\ copy.data \in Content
  BY <1>1 DEF Copies
<1>3. From \in Nat /\ To \in Nat /\ WriteAt(copy.i) = w /\ w \in Nat
  BY <1>2 DEF From, To, WriteAt
<1>4. /\ copy.pc = "write" /\ InBounds(copy.dst, w)
      /\ mem' = [mem EXCEPT ![Self][a] = copy.data]
      /\ copy' = [copy EXCEPT !.pc = "read", !.i = @ + 1, !.data = Fresh]
      /\ symrgtbl' = symrgtbl /\ orig' = orig
  BY <1>3 DEF CopyWrite, Flat!Stores, vmaVars
<1>5. a \in 0 .. MaxBrk
  BY <1>1, <1>2, <1>3, <1>4, InBoundsFacts
<1>6. /\ mem' \in Memory /\ mem'[Self][a] = copy.data
      /\ \A b \in 0 .. MaxBrk : b # a => mem'[Self][b] = mem[Self][b]
  BY <1>1, <1>2, <1>4, <1>5, StoreFacts
<1>7. /\ copy' \in Copies /\ copy'.pc = "read"
      /\ copy'.src = copy.src /\ copy'.dst = copy.dst /\ copy'.off = copy.off
      /\ copy'.dir = copy.dir /\ copy'.i = copy.i + 1
  <2>1. copy.i + 1 \in Nat /\ Fresh \in Content
    BY <1>2 DEF Content
  <2> QED
    BY <1>1, <1>4, <2>1 DEF Copies
<1>8. LibTypeOK'
  BY <1>1, <1>4, <1>6, <1>7 DEF LibTypeOK
<1>9. From' = From /\ To' = To /\ Apart' = Apart
  BY <1>7 DEF From, To, Apart
<1>10. ASSUME Apart PROVE DstExact' /\ SrcExact' /\ DataExact'
  <2>1. DstExact /\ SrcExact /\ DataExact
    BY <1>4, <1>10 DEF LibInv, CopyInv, Idle, NoCopy
  <2> HIDE DEF w, a
  <2>2. ASSUME NEW k \in Nat
        PROVE  /\ Moved(k)' <=> Moved(k) \/ k = w
               /\ \A r \in Reg : /\ InBounds(r, k)' = InBounds(r, k)
                                 /\ Addr(r, k)' = Addr(r, k)
    <3>1. Moved(k)' <=> k \in To .. To + (copy.i + 1) - 1
      BY <1>7, <1>9 DEF Moved
    <3>2. k \in To .. To + (copy.i + 1) - 1 <=> Moved(k) \/ k = w
      BY <1>2, <1>3 DEF Moved, w
    <3>3. \A r \in Reg : InBounds(r, k)' = InBounds(r, k) /\ Addr(r, k)' = Addr(r, k)
      BY <1>4 DEF InBounds, Addr
    <3> QED
      BY <3>1, <3>2, <3>3
  <2>3. ASSUME NEW r \in Reg, NEW k \in Nat, InBounds(r, k), ~(r = copy.dst /\ k = w)
        PROVE  Cell(mem', r, k) = Cell(mem, r, k)
    <3>1. Addr(r, k) # a
      BY <1>1, <1>2, <1>3, <1>4, <2>3, AddrInjective DEF a
    <3>2. Addr(r, k) \in 0 .. MaxBrk
      BY <1>1, <2>3, InBoundsFacts
    <3> QED
      BY <1>6, <3>1, <3>2 DEF Cell
  <2>4. Cell(mem', copy.dst, w) = copy.data
    BY <1>6 DEF Cell, a
  <2>5. ASSUME NEW k \in Nat, InBounds(copy.dst, k)
        PROVE  IF Moved(k) \/ k = w
               THEN Cell(orig, copy.src, From + k - To) \in {Fresh, Cell(mem', copy.dst, k)}
               ELSE Cell(orig, copy.dst, k) \in {Fresh, Cell(mem', copy.dst, k)}
    <3>1. CASE k = w
      <4>1. From + k - To = From + copy.i
        BY <1>2, <1>3, <3>1 DEF w
      <4>2. Cell(orig, copy.src, From + copy.i) \in {Fresh, copy.data}
        BY <1>4, <2>1 DEF DataExact
      <4> QED
        BY <2>4, <3>1, <4>1, <4>2
    <3>2. CASE k # w
      <4>1. Cell(mem', copy.dst, k) = Cell(mem, copy.dst, k)
        BY <1>2, <2>3, <2>5, <3>2
      <4>2. IF Moved(k)
            THEN Cell(orig, copy.src, From + k - To) \in {Fresh, Cell(mem, copy.dst, k)}
            ELSE Cell(orig, copy.dst, k) \in {Fresh, Cell(mem, copy.dst, k)}
        BY <2>1, <2>5 DEF DstExact
      <4> QED
        BY <3>2, <4>1, <4>2
    <3> QED
      BY <3>1, <3>2
  <2>6. ASSUME NEW k \in Nat, InBounds(copy.src, k),
               ~(copy.src = copy.dst /\ (Moved(k) \/ k = w))
        PROVE  Cell(orig, copy.src, k) \in {Fresh, Cell(mem', copy.src, k)}
    <3>1. Cell(mem', copy.src, k) = Cell(mem, copy.src, k)
      BY <1>2, <2>3, <2>6
    <3>2. Cell(orig, copy.src, k) \in {Fresh, Cell(mem, copy.src, k)}
      BY <2>1, <2>6 DEF SrcExact
    <3> QED
      BY <3>1, <3>2
  <2>7. DstExact'
    BY <1>2, <1>4, <1>7, <1>9, <2>2, <2>5 DEF DstExact, Cell, Addr
  <2>8. SrcExact'
    BY <1>2, <1>4, <1>7, <1>9, <2>2, <2>6 DEF SrcExact, Cell, Addr
  <2>9. DataExact'
    BY <1>7 DEF DataExact
  <2> QED
    BY <2>7, <2>8, <2>9
<1> QED
  BY <1>8, <1>9, <1>10 DEF CopyInv

\* Between copies only the memory changes, and copy stays as it is.
LEMMA AccessInv ==
  ASSUME LibInv, NEW r \in Reg, NEW k \in 0 .. MaxSize, NEW v \in Value,
         LibRead(r, k, v) \/ LibWrite(r, k, v)
  PROVE  LibTypeOK' /\ CopyInv'
<1>1. /\ VmaInv /\ mem \in Memory /\ orig \in Memory /\ copy = NoCopy
      /\ orig' = orig /\ copy' = NoCopy
  BY DEF LibInv, LibTypeOK, LibRead, LibWrite, Idle
<1>2. InBounds(r, k) /\ k \in Nat
  BY VmaAssumption DEF LibRead, LibWrite
<1>3. Addr(r, k) \in 0 .. MaxBrk
  BY <1>1, <1>2, InBoundsFacts
<1>4. mem' = [mem EXCEPT ![Self][Addr(r, k)] = v]
  BY DEF LibRead, LibWrite, Flat!Becomes, Flat!Stores
<1>5. mem' \in Memory
  BY <1>1, <1>3, <1>4, StoreFacts DEF Content
<1> QED
  BY <1>1, <1>5 DEF LibTypeOK, CopyInv, Idle

\* Data in memory stays of a kind that a read can return.
LEMMA DataReadInv ==
  ASSUME LibTypeOK, DataRead, [LibNext]_libVars
  PROVE  DataRead'
<1>1. ASSUME Idle, copy' = copy PROVE DataRead'
  BY <1>1 DEF DataRead, Idle
<1>2. ASSUME NEW r \in Reg, NEW size \in 1 .. MaxSize, LibAlloc(r, size)
      PROVE  DataRead'
  BY <1>1, <1>2 DEF LibAlloc
<1>3. ASSUME NEW r \in Reg, LibFree(r) PROVE DataRead'
  BY <1>1, <1>3 DEF LibFree
<1>4. ASSUME NEW size \in 1 .. MaxSize, LibGrow(size) PROVE DataRead'
  BY <1>1, <1>4 DEF LibGrow
<1>5. ASSUME NEW r \in Reg, NEW k \in 0 .. MaxSize, NEW v \in Value,
             LibRead(r, k, v) \/ LibWrite(r, k, v)
      PROVE  DataRead'
  BY <1>1, <1>5 DEF LibRead, LibWrite
<1>6. ASSUME NEW dir \in {"from_user", "to_user"}, NEW src \in Reg, NEW dst \in Reg,
             NEW off \in Offsets, NEW n \in CopySizes, CopyBegin(dir, src, dst, off, n)
      PROVE  DataRead'
  BY <1>6 DEF CopyBegin, DataRead
<1>7. ASSUME NEW v \in Value, CopyRead(v) PROVE DataRead'
  BY <1>7 DEF CopyRead, DataRead, LibTypeOK, Copies, NoCopy
<1>8. ASSUME CopyWrite PROVE DataRead'
  BY <1>8 DEF CopyWrite, DataRead, LibTypeOK, Copies, NoCopy
<1>9. ASSUME CopyFail \/ CopyEnd PROVE DataRead'
  BY <1>9 DEF CopyFail, CopyEnd, DataRead, Idle
<1>10. ASSUME UNCHANGED libVars PROVE DataRead'
  BY <1>10 DEF libVars, DataRead, Idle
<1> QED
  BY <1>2, <1>3, <1>4, <1>5, <1>6, <1>7, <1>8, <1>9, <1>10 DEF LibNext

\* The invariant of the copies is kept by every instruction and every byte.
LEMMA LibNextInv == LibInv /\ [LibNext]_libVars => LibInv'
<1> SUFFICES ASSUME LibInv, [LibNext]_libVars PROVE LibInv'
  OBVIOUS
<1>1. VmaInv'
  BY LibStepsVma, NextInv DEF LibInv
<1>2. LibTypeOK' /\ CopyInv'
  <2>1. ASSUME Idle, UNCHANGED <<mem, copy, orig>> PROVE LibTypeOK' /\ CopyInv'
    BY <2>1 DEF LibInv, LibTypeOK, CopyInv, Idle
  <2>2. ASSUME NEW r \in Reg, NEW size \in 1 .. MaxSize, LibAlloc(r, size)
        PROVE  LibTypeOK' /\ CopyInv'
    BY <2>1, <2>2 DEF LibAlloc
  <2>3. ASSUME NEW r \in Reg, LibFree(r) PROVE LibTypeOK' /\ CopyInv'
    BY <2>1, <2>3 DEF LibFree
  <2>4. ASSUME NEW size \in 1 .. MaxSize, LibGrow(size) PROVE LibTypeOK' /\ CopyInv'
    BY <2>1, <2>4 DEF LibGrow
  <2>5. ASSUME CopyFail \/ CopyEnd PROVE LibTypeOK' /\ CopyInv'
    BY <2>5 DEF CopyFail, CopyEnd, LibInv, LibTypeOK, CopyInv, Idle
  <2>6. ASSUME UNCHANGED libVars PROVE LibTypeOK' /\ CopyInv'
    BY <2>6 DEF libVars, vmaVars, LibInv, LibTypeOK, CopyInv, Idle, Apart, DstExact, SrcExact,
                DataExact, Cell, Addr, InBounds, Moved, From, To
  <2> QED
    BY <2>2, <2>3, <2>4, <2>5, <2>6, AccessInv, CopyBeginInv, CopyReadInv, CopyWriteInv
       DEF LibNext
<1>3. DataRead'
  BY DataReadInv DEF LibInv
<1> QED
  BY <1>1, <1>2, <1>3 DEF LibInv

\* The strengthening of CopyExact that every instruction keeps.
THEOREM AlwaysLibInv == LibSpec => []LibInv
BY LibInitInv, LibNextInv, PTL DEF LibSpec

\* A copy moves the bytes its source held when it began, and no others, also
\* when it fails half way and when both regions are one register's.
THEOREM AlwaysCopyExact == LibSpec => []CopyExact
<1>1. LibInv => CopyExact
  <2> SUFFICES ASSUME LibInv, ~Idle, Apart PROVE CopyExact
    BY DEF CopyExact, Apart
  <2>1. DstExact
    BY DEF LibInv, CopyInv
  <2>2. 0 .. MaxSize - 1 \subseteq Nat
    BY VmaAssumption
  <2>3. copy \in Copies /\ copy.dir \in {"from_user", "to_user"} /\ copy.off \in Nat
    BY DEF LibInv, LibTypeOK, Idle, Copies
  <2>4. To = copy.off - From
    BY <2>3 DEF To, From
  <2> QED
    BY <2>1, <2>2, <2>4 DEF CopyExact, DstExact, Moved, Cell, From
<1> QED
  BY <1>1, AlwaysLibInv, PTL

\* Two registers never share a byte, and no living region's bytes are free,
\* whatever the program reads, writes and copies in between.
THEOREM AlwaysLibDisjoint == LibSpec => []RegionsDisjoint
BY LibImplementsVma, AlwaysRegionsDisjoint, PTL

-----------------------------------------------------------------------------
(* The memory instructions implement a store of variables. *)

Size(r) == symrgtbl[r][2] - symrgtbl[r][1]

\* The refinement mapping of Store.
Val == [r \in Reg |-> [k \in 1 .. Size(r) |-> mem[Self][symrgtbl[r][1] + k - 1]]]

\* The steps of VarStore, in terms of Val.
LEMMA StoreNew ==
  ASSUME NEW r \in Reg, Val'[r] \in Seq(Content), Val'[r] # <<>>,
         Val' = [Val EXCEPT ![r] = Val'[r]]
  PROVE  Store!VarNext
<1>1. Store!New(r)
  BY DEF Store!New, Store!Byte, Content, Val, Size
<1> QED
  BY <1>1 DEF Store!VarNext

\* A register whose bytes go away is one that VarStore deletes.
LEMMA StoreDelete ==
  ASSUME NEW r \in Reg, Val[r] # <<>>, Val' = [Val EXCEPT ![r] = <<>>]
  PROVE  Store!VarNext
<1>1. Store!Delete(r)
  BY DEF Store!Delete, Val, Size
<1> QED
  BY <1>1 DEF Store!VarNext

\* A byte that changes is one that VarStore puts.
LEMMA StorePut ==
  ASSUME NEW r \in Reg, NEW k \in DOMAIN Val[r], NEW v, Val' = [Val EXCEPT ![r][k] = v]
  PROVE  /\ Store!Put(r, k, v)
         /\ v \in Value => Store!VarNext
<1>1. Store!Put(r, k, v)
  BY DEF Store!Put, Val, Size
<1>2. v \in Value => \E i \in DOMAIN Val[r], w \in Value : Store!Put(r, i, w)
  BY <1>1
<1> QED
  BY <1>1, <1>2 DEF Store!VarNext, Val, Size

\* The bounds of a register's region and its size.
LEMMA RegionFacts ==
  ASSUME VmaInv, NEW r \in Reg
  PROVE  /\ symrgtbl[r][1] \in Nat /\ symrgtbl[r][2] \in 0 .. MaxBrk
         /\ Size(r) \in Nat /\ symrgtbl[r][2] = symrgtbl[r][1] + Size(r)
<1>1. symrgtbl[r] \in Region /\ MaxBrk \in Nat
  BY VmaAssumption DEF VmaInv, VmaTypeOK
<1> QED
  BY <1>1 DEF Size, Region

ValOK == \A r \in Reg :
  /\ Val[r] = [k \in 1 .. Size(r) |-> mem[Self][symrgtbl[r][1] + k - 1]]
  /\ Val[r] \in Seq(Content)
  /\ Val[r] = <<>> <=> Size(r) = 0

\* The value of a register is the bytes of its region, in order.
LEMMA ValFacts == VmaInv /\ LibTypeOK => ValOK
<1> SUFFICES ASSUME VmaInv, LibTypeOK, NEW r \in Reg
             PROVE  /\ Val[r] = [k \in 1 .. Size(r) |-> mem[Self][symrgtbl[r][1] + k - 1]]
                    /\ Val[r] \in Seq(Content)
                    /\ Val[r] = <<>> <=> Size(r) = 0
  BY DEF ValOK
<1>1. /\ symrgtbl[r][1] \in Nat /\ symrgtbl[r][2] \in 0 .. MaxBrk
      /\ Size(r) \in Nat /\ symrgtbl[r][2] = symrgtbl[r][1] + Size(r)
  BY RegionFacts
<1>2. Val[r] = [k \in 1 .. Size(r) |-> mem[Self][symrgtbl[r][1] + k - 1]]
  BY DEF Val
<1>3. \A k \in 1 .. Size(r) : mem[Self][symrgtbl[r][1] + k - 1] \in Content
  BY <1>1, VmaAssumption DEF LibTypeOK, Memory
<1>4. Val[r] \in Seq(Content) /\ Len(Val[r]) = Size(r)
  BY <1>1, <1>2, <1>3
<1> QED
  BY <1>1, <1>2, <1>4

\* And so it is after a step.
LEMMA ValFactsNext == VmaInv' /\ LibTypeOK' => ValOK'
BY ValFacts, PTL

\* A byte of a register's region is stored, and a byte of its value is put.
StoredAt(r, k, v) == symrgtbl' = symrgtbl /\ mem' = [mem EXCEPT ![Self][Addr(r, k)] = v]
PutAt(r, k, v) == k \in DOMAIN Val[r] /\ Val' = [Val EXCEPT ![r][k] = v]

\* A byte of memory that is in a region is a byte of one variable.
LEMMA StoredIsPut ==
  ASSUME LibInv, NEW r \in Reg, NEW k \in Nat, InBounds(r, k), NEW v \in Content,
         StoredAt(r, k, v)
  PROVE  PutAt(r, k + 1, v)
<1>1. symrgtbl' = symrgtbl /\ mem' = [mem EXCEPT ![Self][Addr(r, k)] = v]
  BY DEF StoredAt
<1>2. VmaInv /\ LibTypeOK /\ mem \in Memory /\ ValOK
  BY ValFacts DEF LibInv, LibTypeOK
<1>3. Addr(r, k) \in 0 .. MaxBrk
  BY <1>2, InBoundsFacts
<1>4. /\ mem'[Self][Addr(r, k)] = v
      /\ \A b \in 0 .. MaxBrk : b # Addr(r, k) => mem'[Self][b] = mem[Self][b]
  BY <1>1, <1>2, <1>3, StoreFacts
<1>5. k + 1 \in 1 .. Size(r) /\ symrgtbl[r][1] + (k + 1) - 1 = Addr(r, k)
  BY <1>2, RegionFacts DEF InBounds, Addr
<1>6. k + 1 \in DOMAIN Val[r]
  <2>1. Val[r] = [i \in 1 .. Size(r) |-> mem[Self][symrgtbl[r][1] + i - 1]]
    BY <1>2 DEF ValOK
  <2> QED
    BY <1>5, <2>1
<1>7. Val' = [s \in Reg |-> [j \in 1 .. Size(s) |-> mem'[Self][symrgtbl[s][1] + j - 1]]]
  BY <1>1 DEF Val, Size
<1>8. ASSUME NEW s \in Reg, NEW j \in 1 .. Size(s), ~(s = r /\ j = k + 1)
      PROVE  mem'[Self][symrgtbl[s][1] + j - 1] = mem[Self][symrgtbl[s][1] + j - 1]
  <2>1. /\ j - 1 \in Nat /\ InBounds(s, j - 1) /\ (j - 1 = k => j = k + 1)
        /\ symrgtbl[s][1] + j - 1 = Addr(s, j - 1)
    BY <1>2, RegionFacts DEF InBounds, Addr
  <2>2. Addr(s, j - 1) # Addr(r, k)
    BY <1>2, <1>8, <2>1, AddrInjective
  <2> QED
    BY <1>2, <1>4, <2>1, <2>2, InBoundsFacts
<1>9. ASSUME NEW s \in Reg PROVE Val'[s] = [Val EXCEPT ![r][k + 1] = v][s]
  <2>1. CASE s # r
    <3>1. Val'[s] = Val[s]
      BY <1>2, <1>7, <1>8, <2>1 DEF ValOK
    <3> QED
      BY <2>1, <3>1 DEF Val
  <2>2. CASE s = r
    <3>1. Val'[r] = [j \in 1 .. Size(r) |-> mem'[Self][symrgtbl[r][1] + j - 1]]
      BY <1>7
    <3>2. ASSUME NEW j \in 1 .. Size(r)
          PROVE  mem'[Self][symrgtbl[r][1] + j - 1] = [Val[r] EXCEPT ![k + 1] = v][j]
      <4>1. Val[r] = [i \in 1 .. Size(r) |-> mem[Self][symrgtbl[r][1] + i - 1]]
        BY <1>2 DEF ValOK
      <4>2. CASE j = k + 1
        BY <1>4, <1>5, <4>1, <4>2
      <4>3. CASE j # k + 1
        BY <1>8, <4>1, <4>3
      <4> QED
        BY <4>2, <4>3
    <3>3. Val'[r] = [Val[r] EXCEPT ![k + 1] = v]
      BY <1>2, <3>1, <3>2 DEF ValOK
    <3> QED
      BY <2>2, <3>3 DEF Val
  <2> QED
    BY <2>1, <2>2
<1> QED
  BY <1>6, <1>7, <1>9 DEF Val, PutAt

\* An allocation gives one register other bytes, none of them none.
LEMMA AllocStores ==
  ASSUME LibInv, VmaInv', LibTypeOK', mem' = mem, NEW r \in Reg, NEW rg,
         symrgtbl' = [symrgtbl EXCEPT ![r] = rg], rg[1] # rg[2]
  PROVE  Store!VarNext
<1>1. symrgtbl \in [Reg -> Region] /\ ValOK'
  BY ValFactsNext DEF LibInv, VmaInv, VmaTypeOK
<1>2. symrgtbl'[r] = rg /\ \A s \in Reg : s # r => symrgtbl'[s] = symrgtbl[s]
  BY <1>1
<1>3. Val'[r] \in Seq(Content) /\ (Val'[r] = <<>> <=> Size(r)' = 0)
  BY <1>1 DEF ValOK
<1>4. Size(r)' # 0
  <2>1. rg[1] \in Nat /\ rg[2] \in Nat
    <3>1. symrgtbl'[r] \in Region
      BY DEF VmaInv, VmaTypeOK
    <3> QED
      BY <1>2, <3>1, VmaAssumption DEF Region
  <2>2. Size(r)' = symrgtbl'[r][2] - symrgtbl'[r][1]
    BY DEF Size
  <2> QED
    BY <1>2, <2>1, <2>2
<1>5. Val' = [Val EXCEPT ![r] = Val'[r]]
  <2>1. ASSUME NEW s \in Reg, s # r PROVE Val'[s] = Val[s]
    BY <1>2, <2>1 DEF Val, Size
  <2>2. Val = [s \in Reg |-> Val[s]] /\ Val' = [s \in Reg |-> Val'[s]]
    BY DEF Val
  <2> HIDE DEF Val
  <2> QED
    BY <2>1, <2>2
<1> QED
  BY <1>3, <1>4, <1>5, StoreNew

\* Every instruction does to the variables what VarStore allows, or nothing.
LEMMA LibStepsStore ==
  ASSUME LibInv, LibInv', [LibNext]_libVars
  PROVE  Store!VarNext \/ Val' = Val
<1>1. VmaInv /\ LibTypeOK /\ mem \in Memory /\ symrgtbl \in [Reg -> Region]
  BY DEF LibInv, LibTypeOK, VmaInv, VmaTypeOK
<1>2. ASSUME symrgtbl' = symrgtbl, mem' = mem PROVE Val' = Val
  BY <1>2 DEF Val, Size
<1>3. ASSUME NEW r \in Reg, NEW size \in 1 .. MaxSize, LibAlloc(r, size)
      PROVE  Store!VarNext
  <2>1. size \in Nat /\ size # 0
    BY VmaAssumption
  <2>2. ASSUME NEW a \in Nat, symrgtbl' = [symrgtbl EXCEPT ![r] = <<a, a + size>>]
        PROVE  Store!VarNext
    <3> DEFINE rg == <<a, a + size>>
    <3>1. VmaInv' /\ LibTypeOK' /\ mem' = mem
      BY <1>3 DEF LibAlloc, LibInv
    <3>2. rg[1] # rg[2]
      BY <2>1
    <3>3. symrgtbl' = [symrgtbl EXCEPT ![r] = rg]
      BY <2>2
    <3> HIDE DEF rg
    <3> QED
      BY <3>1, <3>2, <3>3, AllocStores
  <2>3. CASE AllocReuse(r, size)
    <3>1. PICK k \in DOMAIN vm_freerg_list :
            symrgtbl' = [symrgtbl EXCEPT ![r] = <<vm_freerg_list[k][1],
                                                  vm_freerg_list[k][1] + size>>]
      BY <2>3 DEF AllocReuse
    <3>2. vm_freerg_list[k][1] \in Nat
      BY <1>1, VmaAssumption DEF VmaInv, VmaTypeOK, Region
    <3> QED
      BY <2>2, <3>1, <3>2
  <2>4. CASE AllocExtend(r, size)
    <3>1. sbrk \in Nat
      BY <1>1, VmaAssumption DEF VmaInv, VmaTypeOK
    <3> QED
      BY <2>2, <2>4, <3>1 DEF AllocExtend
  <2> QED
    BY <1>3, <2>3, <2>4 DEF LibAlloc
<1>4. ASSUME NEW r \in Reg, LibFree(r) PROVE Store!VarNext \/ Val' = Val
  <2>1. /\ symrgtbl[r] # NoRegion /\ mem' = mem
        /\ symrgtbl' = [symrgtbl EXCEPT ![r] = NoRegion]
    BY <1>4 DEF LibFree, Free
  <2>2. Val'[r] = <<>>
    <3>1. VmaInv' /\ LibTypeOK'
      BY DEF LibInv
    <3>2. Size(r)' = 0
      BY <1>1, <2>1 DEF Size, NoRegion
    <3> QED
      BY <3>1, <3>2, ValFactsNext DEF ValOK
  <2>3. Val' = [Val EXCEPT ![r] = <<>>]
    BY <1>1, <2>1, <2>2 DEF Val, Size
  <2>4. CASE Val[r] # <<>>
    BY <2>3, <2>4, StoreDelete
  <2>5. CASE Val[r] = <<>>
    BY <2>3, <2>5 DEF Val
  <2> QED
    BY <2>4, <2>5
<1>5. ASSUME NEW size \in 1 .. MaxSize, LibGrow(size) PROVE Val' = Val
  BY <1>2, <1>5 DEF LibGrow, Grow
<1>6. ASSUME NEW r \in Reg, NEW k \in Nat, InBounds(r, k), NEW v \in Value,
             symrgtbl' = symrgtbl,
             Flat!Becomes(Self, Addr(r, k), v) \/ Flat!Stores(Self, Addr(r, k), v)
      PROVE  Store!VarNext
  <2>1. StoredAt(r, k, v) /\ v \in Content
    BY <1>6 DEF StoredAt, Flat!Becomes, Flat!Stores, Content
  <2>2. PutAt(r, k + 1, v)
    BY <1>6, <2>1, StoredIsPut
  <2> QED
    BY <2>2, StorePut DEF PutAt
<1>7. ASSUME NEW r \in Reg, NEW k \in 0 .. MaxSize, NEW v \in Value,
             LibRead(r, k, v) \/ LibWrite(r, k, v)
      PROVE  Store!VarNext
  BY <1>6, <1>7, VmaAssumption DEF LibRead, LibWrite, vmaVars
<1>8. ASSUME NEW dir \in {"from_user", "to_user"}, NEW src \in Reg, NEW dst \in Reg,
             NEW off \in Offsets, NEW n \in CopySizes, CopyBegin(dir, src, dst, off, n)
      PROVE  Val' = Val
  BY <1>2, <1>8 DEF CopyBegin, vmaVars
<1>9. ASSUME NEW v \in Value, CopyRead(v) PROVE Store!VarNext
  <2>1. copy.src \in Reg /\ ReadAt(copy.i) \in Nat
    BY <1>1, <1>9 DEF CopyRead, LibTypeOK, Copies, NoCopy, ReadAt
  <2> QED
    BY <1>6, <1>9, <2>1 DEF CopyRead, vmaVars
<1>10. ASSUME CopyWrite PROVE Store!VarNext
  <2>1. copy.dst \in Reg /\ WriteAt(copy.i) \in Nat /\ copy.data \in Value
    BY <1>1, <1>10 DEF CopyWrite, LibInv, LibTypeOK, DataRead, Idle, Copies, NoCopy, WriteAt
  <2> QED
    BY <1>6, <1>10, <2>1 DEF CopyWrite, vmaVars
<1>11. ASSUME CopyFail \/ CopyEnd PROVE Val' = Val
  BY <1>2, <1>11 DEF CopyFail, CopyEnd, vmaVars
<1>12. ASSUME UNCHANGED libVars PROVE Val' = Val
  BY <1>2, <1>12 DEF libVars, vmaVars
<1> QED
  BY <1>3, <1>4, <1>5, <1>7, <1>8, <1>9, <1>10, <1>11, <1>12 DEF LibNext

\* What is written reaches the bytes of the register it is written through.
LEMMA WritesAsAsked ==
  ASSUME LibInv
  PROVE  AsAsked
<1>1. VmaInv /\ LibTypeOK
  BY DEF LibInv
<1>2. ASSUME NEW r \in Reg, NEW k \in 0 .. MaxSize, NEW v \in Value, LibWrite(r, k, v)
      PROVE  Store!Put(r, k + 1, v)
  <2>1. InBounds(r, k) /\ k \in Nat /\ v \in Content /\ StoredAt(r, k, v)
    BY <1>2, VmaAssumption DEF LibWrite, Flat!Stores, vmaVars, Content, StoredAt
  <2>2. PutAt(r, k + 1, v)
    BY <2>1, StoredIsPut
  <2> QED
    BY <2>2, StorePut DEF PutAt
<1>3. ASSUME CopyWrite PROVE Store!Put(copy.dst, WriteAt(copy.i) + 1, copy.data)
  <2>1. copy.dst \in Reg /\ WriteAt(copy.i) \in Nat /\ copy.data \in Content
    BY <1>1, <1>3 DEF CopyWrite, LibTypeOK, Copies, NoCopy, WriteAt
  <2>2. /\ InBounds(copy.dst, WriteAt(copy.i))
        /\ StoredAt(copy.dst, WriteAt(copy.i), copy.data)
    BY <1>3 DEF CopyWrite, Flat!Stores, vmaVars, StoredAt
  <2>3. PutAt(copy.dst, WriteAt(copy.i) + 1, copy.data)
    BY <2>1, <2>2, StoredIsPut
  <2> QED
    BY <2>3 DEF PutAt, Store!Put, Val, Size
<1> QED
  BY <1>2, <1>3 DEF AsAsked

\* The memory of a process gives every register bytes of its own, which hold
\* what was last put into them: LibMem refines VarStore.
THEOREM LibImplementsVarStore == LibSpec => ImplementsVarStore
<1>1. LibInit => Store!VarInit
  <2> SUFFICES ASSUME LibInit PROVE Store!VarInit
    OBVIOUS
  <2>1. VmaInv /\ LibTypeOK
    BY LibInitInv DEF LibInv
  <2>2. \A r \in Reg : Size(r) = 0
    BY DEF LibInit, VmaInit, NoRegion, Size
  <2>3. \A r \in Reg : Val[r] = <<>>
    BY <2>1, <2>2, ValFacts DEF ValOK
  <2>4. Val = [r \in Reg |-> <<>>]
    BY <2>3 DEF Val
  <2> QED
    BY <2>4 DEF Store!VarInit, Val, Size
<1>2. LibInv /\ LibInv' /\ [LibNext]_libVars => [Store!VarNext]_Val
  BY LibStepsStore
<1>3. LibInv /\ [LibNext]_libVars => [AsAsked]_libVars
  BY WritesAsAsked
<1> QED
  BY <1>1, <1>2, <1>3, LibInitInv, LibNextInv, PTL
     DEF LibSpec, ImplementsVarStore, Store!VarSpec, Val, Size
=============================================================================
