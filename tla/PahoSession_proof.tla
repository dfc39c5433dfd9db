-------------------------- MODULE PahoSession_proof --------------------------
(***************************************************************************)
(* Proofs about the message flows of the Paho client, for every window,    *)
(* every number of publications, faults and restarts: no publication with  *)
(* QoS 2 arrives twice, waitForCompletion tells the truth, and the broker  *)
(* first receives the publications in the order of the publish calls.      *)
(***************************************************************************)
EXTENDS PahoSession, FiniteSetTheorems, SequenceTheorems, WellFoundedInduction, TLAPS
-----------------------------------------------------------------------------
(* Lists and the sets of their elements.                                   *)

LEMMA ElemsOf ==
  ASSUME NEW S, NEW s \in Seq(S)
  PROVE  /\ DOMAIN s = 1 .. Len(s) /\ Len(s) \in Nat /\ Elems(s) \subseteq S
         /\ \A i \in DOMAIN s : s[i] \in Elems(s)
         /\ \A x \in Elems(s) : \E i \in DOMAIN s : s[i] = x
  BY DEF Elems

LEMMA ElemsEmpty == Elems(<<>>) = {}
  BY DEF Elems

LEMMA ElemsAppend ==
  ASSUME NEW S, NEW s \in Seq(S), NEW x \in S
  PROVE  Append(s, x) \in Seq(S) /\ Elems(Append(s, x)) = Elems(s) \cup {x}
<1>1. /\ Append(s, x) \in Seq(S) /\ Len(Append(s, x)) = Len(s) + 1 /\ Len(s) \in Nat
      /\ DOMAIN s = 1 .. Len(s) /\ DOMAIN Append(s, x) = 1 .. Len(s) + 1
      /\ \A i \in 1 .. Len(s) : Append(s, x)[i] = s[i]
      /\ Append(s, x)[Len(s) + 1] = x
  OBVIOUS
<1>2. \A i \in 1 .. Len(s) + 1 : i \in 1 .. Len(s) \/ i = Len(s) + 1
  BY <1>1
<1>3. \A i \in 1 .. Len(s) : i \in 1 .. Len(s) + 1
  BY <1>1
<1>4. Len(s) + 1 \in 1 .. Len(s) + 1
  BY <1>1
<1> QED BY <1>1, <1>2, <1>3, <1>4 DEF Elems

LEMMA ElemsTail ==
  ASSUME NEW S, NEW s \in Seq(S), s # <<>>
  PROVE  /\ Head(s) \in S /\ Tail(s) \in Seq(S)
         /\ Elems(s) = {Head(s)} \cup Elems(Tail(s))
<1>1. /\ Tail(s) \in Seq(S) /\ Head(s) = s[1] /\ Len(s) \in Nat /\ Len(s) > 0
      /\ DOMAIN s = 1 .. Len(s) /\ DOMAIN Tail(s) = 1 .. Len(s) - 1
      /\ \A i \in 1 .. Len(s) - 1 : Tail(s)[i] = s[i + 1]
      /\ Head(s) \in S
  OBVIOUS
<1>2. \A i \in 1 .. Len(s) : i = 1 \/ (i - 1 \in 1 .. Len(s) - 1 /\ s[i] = Tail(s)[i - 1])
  BY <1>1
<1>3. \A i \in 1 .. Len(s) - 1 : i + 1 \in 1 .. Len(s) /\ 1 \in 1 .. Len(s)
  BY <1>1
<1>4. 1 \in 1 .. Len(s)
  BY <1>1
<1>5. ASSUME NEW x \in Elems(s) PROVE x \in {Head(s)} \cup Elems(Tail(s))
  <2>1. PICK i \in 1 .. Len(s) : x = s[i]
    BY <1>1 DEF Elems
  <2> QED BY <1>1, <1>2, <2>1 DEF Elems
<1>6. ASSUME NEW x \in Elems(Tail(s)) PROVE x \in Elems(s)
  <2>1. PICK i \in 1 .. Len(s) - 1 : x = Tail(s)[i]
    BY <1>1 DEF Elems
  <2>2. x = s[i + 1] /\ i + 1 \in 1 .. Len(s)
    BY <1>1, <1>3, <2>1
  <2> QED BY <1>1, <2>2 DEF Elems
<1>7. Head(s) \in Elems(s)
  BY <1>1, <1>4 DEF Elems
<1> QED BY <1>1, <1>5, <1>6, <1>7

\* The list without its i-th element.
Cut(s, i) == SubSeq(s, 1, i - 1) \o SubSeq(s, i + 1, Len(s))

LEMMA CutElems ==
  ASSUME NEW S, NEW s \in Seq(S), NEW i \in DOMAIN s
  PROVE  /\ Cut(s, i) \in Seq(S) /\ Len(Cut(s, i)) = Len(s) - 1
         /\ \A k \in 1 .. Len(s) - 1 : k < i => Cut(s, i)[k] = s[k]
         /\ \A k \in 1 .. Len(s) - 1 : k >= i => Cut(s, i)[k] = s[k + 1]
<1>1. i \in 1 .. Len(s) /\ Len(s) \in Nat
  OBVIOUS
<1>0. PICK t : t = Cut(s, i)
  OBVIOUS
<1>2. PICK u : u = SubSeq(s, 1, i - 1)
  OBVIOUS
<1>3. PICK v : v = SubSeq(s, i + 1, Len(s))
  OBVIOUS
<1>4. u \in Seq(S) /\ Len(u) = i - 1 /\ \A k \in 1 .. i - 1 : u[k] = s[k]
  BY <1>1, <1>2
<1>5. v \in Seq(S) /\ Len(v) = Len(s) - i /\ \A k \in 1 .. Len(s) - i : v[k] = s[i + k]
  BY <1>1, <1>3
<1>6. t = u \o v
  BY <1>0, <1>2, <1>3 DEF Cut
<1>7. /\ t \in Seq(S) /\ Len(t) = Len(u) + Len(v)
      /\ \A k \in 1 .. Len(u) + Len(v) : t[k] = IF k <= Len(u) THEN u[k] ELSE v[k - Len(u)]
  <2>1. u \in Seq(S) /\ v \in Seq(S)
    BY <1>4, <1>5
  <2> HIDE <1>1, <1>2, <1>3, <1>4, <1>5
  <2> QED BY <1>6, <2>1, ConcatProperties, Zenon
<1>8. \A k \in 1 .. Len(s) - 1 : k < i => t[k] = s[k]
  <2> SUFFICES ASSUME NEW k \in 1 .. Len(s) - 1, k < i PROVE t[k] = s[k]
    OBVIOUS
  <2>1. k \in 1 .. Len(u) + Len(v) /\ k <= Len(u) /\ k \in 1 .. i - 1
    BY <1>1, <1>4, <1>5
  <2>2. t[k] = u[k]
    BY <1>7, <2>1, Zenon
  <2> QED BY <1>4, <2>1, <2>2
<1>9. \A k \in 1 .. Len(s) - 1 : k >= i => t[k] = s[k + 1]
  <2> SUFFICES ASSUME NEW k \in 1 .. Len(s) - 1, k >= i PROVE t[k] = s[k + 1]
    OBVIOUS
  <2>1. Len(u) = i - 1 /\ k \in 1 .. Len(u) + Len(v) /\ ~(k <= Len(u))
    BY <1>1, <1>4, <1>5
  <2>2. k - (i - 1) \in 1 .. Len(s) - i /\ i + (k - (i - 1)) = k + 1
    BY <1>1
  <2>3. t[k] = v[k - Len(u)]
    BY <1>7, <2>1, Zenon
  <2>4. v[k - (i - 1)] = s[i + (k - (i - 1))]
    BY <1>5, <2>2
  <2> QED BY <2>1, <2>2, <2>3, <2>4
<1>10. Len(t) = Len(s) - 1
  <2>1. Len(t) = Len(u) + Len(v) /\ Len(u) = i - 1 /\ Len(v) = Len(s) - i
    BY <1>4, <1>5, <1>7, Zenon
  <2> QED BY <1>1, <2>1
<1> QED BY <1>0, <1>7, <1>8, <1>9, <1>10

\* No two entries of a list have the same identifier.
Unique(msgs) == \A i, j \in DOMAIN msgs : msgs[i].id = msgs[j].id => i = j

LEMMA UniqueElems ==
  ASSUME NEW S, NEW s \in Seq(S), Unique(s), NEW x \in Elems(s), NEW y \in Elems(s), x.id = y.id
  PROVE  x = y
  BY DEF Elems, Unique

LEMMA IdsElems ==
  ASSUME NEW S, NEW s \in Seq(S)
  PROVE  Ids(s) = {x.id : x \in Elems(s)}
  BY DEF Elems, Ids

LEMMA UniqueAppend ==
  ASSUME NEW S, NEW s \in Seq(S), NEW x \in S, Unique(s), x.id \notin Ids(s)
  PROVE  Unique(Append(s, x))
<1>1. /\ Len(s) \in Nat /\ DOMAIN s = 1 .. Len(s) /\ DOMAIN Append(s, x) = 1 .. Len(s) + 1
      /\ \A i \in 1 .. Len(s) : Append(s, x)[i] = s[i]
      /\ Append(s, x)[Len(s) + 1] = x
  OBVIOUS
<1>2. \A i \in 1 .. Len(s) : s[i].id # x.id
  BY <1>1 DEF Ids
<1> QED BY <1>1, <1>2 DEF Unique

\* ListFindItem and ListRemove take out the entry with the identifier.
LEMMA WithoutElems ==
  ASSUME NEW S, NEW s \in Seq(S), Unique(s), NEW id
  PROVE  /\ Without(s, id) \in Seq(S) /\ Unique(Without(s, id))
         /\ Elems(Without(s, id)) = {x \in Elems(s) : x.id # id}
<1>0. DOMAIN s = 1 .. Len(s) /\ Len(s) \in Nat
  OBVIOUS
<1>1. CASE id \notin Ids(s)
  <2>1. Without(s, id) = s
    BY <1>1 DEF Without
  <2>2. \A x \in Elems(s) : x.id # id
    BY <1>1 DEF Elems, Ids
  <2> QED BY <2>1, <2>2
<1>2. CASE id \in Ids(s)
  <2>1. PICK i : i = CHOOSE k \in DOMAIN s : s[k].id = id
    OBVIOUS
  <2>2. i \in DOMAIN s /\ s[i].id = id
    BY <1>2, <2>1 DEF Ids
  <2>3. PICK t : t = Cut(s, i)
    OBVIOUS
  <2>4. Without(s, id) = t
    BY <1>2, <2>1, <2>3 DEF Without, Cut
  <2>5. /\ t \in Seq(S) /\ Len(t) = Len(s) - 1
        /\ \A k \in 1 .. Len(s) - 1 : k < i => t[k] = s[k]
        /\ \A k \in 1 .. Len(s) - 1 : k >= i => t[k] = s[k + 1]
    <3>1. /\ Cut(s, i) \in Seq(S) /\ Len(Cut(s, i)) = Len(s) - 1
          /\ \A k \in 1 .. Len(s) - 1 : k < i => Cut(s, i)[k] = s[k]
          /\ \A k \in 1 .. Len(s) - 1 : k >= i => Cut(s, i)[k] = s[k + 1]
      BY <2>2, CutElems
    <3> QED BY <2>3, <3>1
  <2>6. DOMAIN t = 1 .. Len(s) - 1
    BY <2>5
  <2>7. Unique(t)
    <3> SUFFICES ASSUME NEW k \in 1 .. Len(s) - 1, NEW l \in 1 .. Len(s) - 1, t[k].id = t[l].id
                 PROVE  k = l
      BY <2>6 DEF Unique
    <3>1. PICK kk \in DOMAIN s : kk = (IF k < i THEN k ELSE k + 1) /\ t[k] = s[kk]
      BY <1>0, <2>2, <2>5
    <3>2. PICK ll \in DOMAIN s : ll = (IF l < i THEN l ELSE l + 1) /\ t[l] = s[ll]
      BY <1>0, <2>2, <2>5
    <3>3. kk = ll
      BY <3>1, <3>2 DEF Unique
    <3> QED BY <1>0, <2>2, <3>1, <3>2, <3>3
  <2>8. ASSUME NEW x \in Elems(t) PROVE x \in Elems(s) /\ x.id # id
    <3>1. PICK k \in 1 .. Len(s) - 1 : x = t[k]
      BY <2>6 DEF Elems
    <3>2. PICK kk \in DOMAIN s : kk = (IF k < i THEN k ELSE k + 1)
      BY <1>0, <2>2
    <3>3. x = s[kk] /\ kk # i
      BY <1>0, <2>2, <2>5, <3>1, <3>2
    <3> QED BY <2>2, <3>3 DEF Elems, Unique
  <2>9. ASSUME NEW x \in Elems(s), x.id # id PROVE x \in Elems(t)
    <3>1. PICK kk \in DOMAIN s : x = s[kk]
      BY DEF Elems
    <3>2. kk # i
      BY <2>2, <2>9, <3>1
    <3>3. PICK k \in 1 .. Len(s) - 1 : kk = (IF k < i THEN k ELSE k + 1)
      <4>1. CASE kk < i
        BY <1>0, <2>2, <4>1
      <4>2. CASE kk > i
        <5>1. kk - 1 \in 1 .. Len(s) - 1 /\ kk = (IF kk - 1 < i THEN kk - 1 ELSE (kk - 1) + 1)
          BY <1>0, <2>2, <4>2
        <5> QED BY <5>1
      <4> QED BY <1>0, <2>2, <3>2, <4>1, <4>2
    <3>4. x = t[k]
      BY <1>0, <2>2, <2>5, <3>1, <3>3
    <3> QED BY <2>6, <3>4 DEF Elems
  <2> QED BY <2>4, <2>5, <2>7, <2>8, <2>9
<1> QED BY <1>1, <1>2
-----------------------------------------------------------------------------
(* What restorePackets builds from the store: a list of the same entries.  *)

LEMMA LeastNat ==
  ASSUME NEW T, T \subseteq Nat, T # {}
  PROVE  \E x \in T : \A y \in T : x <= y
<1>1. IsWellFoundedOn(OpToRel(<, Nat), Nat)
  BY NatLessThanWellFounded
<1>2. PICK R : R = OpToRel(<, Nat)
  OBVIOUS
<1>3. PICK x \in T : \A y \in T : ~(<<y, x>> \in R)
  BY <1>1, <1>2, WFMin
<1>4. R = {ss \in Nat \X Nat : ss[1] < ss[2]}
  BY <1>2 DEF OpToRel
<1>5. ASSUME NEW y \in T PROVE x <= y
  <2>1. x \in Nat /\ y \in Nat
    OBVIOUS
  <2>2. y < x => <<y, x>> \in R
    BY <1>4, <2>1
  <2> QED BY <1>3, <2>1, <2>2
<1> QED BY <1>5

LEMMA ElemsFinite ==
  ASSUME NEW S, NEW s \in Seq(S)
  PROVE  IsFiniteSet(Elems(s))
<1>1. DOMAIN s = 1 .. Len(s) /\ Len(s) \in Nat /\ s \in [1 .. Len(s) -> Elems(s)]
  BY DEF Elems
<1>2. s \in Surjection(1 .. Len(s), Elems(s))
  BY <1>1 DEF Surjection, Elems
<1>3. IsFiniteSet(1 .. Len(s))
  BY <1>1, FS_Interval
<1> QED BY <1>2, <1>3, FS_Surjection

\* A finite set of entries with different identifiers can be put in order.
LEMMA OrderExists ==
  ASSUME NEW S, IsFiniteSet(S), \A x \in S : x.id \in Nat,
         \A x, y \in S : x.id = y.id => x = y
  PROVE  \E f \in [1 .. Cardinality(S) -> S] :
           \A i, j \in 1 .. Cardinality(S) : i < j => f[i].id < f[j].id
<1> DEFINE Upto(x) == {y \in S : y.id <= x.id}
           n == Cardinality(S)
           rank == [x \in S |-> Cardinality(Upto(x))]
<1>1. n \in Nat
  BY FS_CardinalityType
<1>2. ASSUME NEW x \in S PROVE IsFiniteSet(Upto(x)) /\ rank[x] \in 1 .. n
  <2>1. Upto(x) \in SUBSET S /\ x \in Upto(x)
    OBVIOUS
  <2>2. IsFiniteSet(Upto(x)) /\ Cardinality(Upto(x)) <= n
    BY <2>1, FS_Subset
  <2>3. Cardinality(Upto(x)) \in Nat /\ (Cardinality(Upto(x)) = 0 <=> Upto(x) = {})
    BY <2>2, FS_CardinalityType, FS_EmptySet
  <2> HIDE DEF Upto
  <2> QED BY <1>1, <2>1, <2>2, <2>3
<1>3. ASSUME NEW x \in S, NEW y \in S, x.id < y.id PROVE rank[x] < rank[y]
  <2>1. Upto(x) \in SUBSET Upto(y) /\ y \notin Upto(x) /\ y \in Upto(y)
    BY <1>3
  <2>2. IsFiniteSet(Upto(y))
    BY <1>2
  <2>3. Cardinality(Upto(x)) <= Cardinality(Upto(y)) /\ Cardinality(Upto(x)) # Cardinality(Upto(y))
    <3> HIDE DEF Upto
    <3> QED BY <2>1, <2>2, FS_Subset
  <2>4. rank[x] \in 1 .. n /\ rank[y] \in 1 .. n
    BY <1>2
  <2> HIDE DEF Upto
  <2> QED BY <1>1, <2>3, <2>4
<1> HIDE DEF Upto, n
<1>4. rank \in [S -> 1 .. n] /\ \A x, y \in S : rank[x] = rank[y] => x = y
  <2>1. rank \in [S -> 1 .. n]
    BY <1>2
  <2>2. ASSUME NEW x \in S, NEW y \in S, x # y PROVE rank[x] # rank[y]
    <3>1. x.id < y.id \/ y.id < x.id
      BY <2>2
    <3>2. rank[x] \in Int /\ rank[y] \in Int
      BY <1>1, <1>2
    <3> HIDE DEF rank
    <3> QED BY <1>3, <3>1, <3>2
  <2> QED BY <2>1, <2>2
<1> HIDE DEF rank
<1>5. rank \in Injection(S, 1 .. n)
  BY <1>4 DEF Injection, IsInjective
<1>6. IsFiniteSet(1 .. n) /\ Cardinality(1 .. n) = n
  BY <1>1, FS_Interval
<1>7. rank \in Surjection(S, 1 .. n)
  BY <1>5, <1>6, FS_Injection DEF n
<1>8. \A i \in 1 .. n : \E x \in S : rank[x] = i
  BY <1>7 DEF Surjection
<1> DEFINE f == [i \in 1 .. n |-> CHOOSE x \in S : rank[x] = i]
<1>9. ASSUME NEW i \in 1 .. n PROVE f[i] \in S /\ rank[f[i]] = i
  BY <1>8
<1>10. ASSUME NEW i \in 1 .. n, NEW j \in 1 .. n, i < j PROVE f[i].id < f[j].id
  <2>1. f[i] \in S /\ f[j] \in S /\ rank[f[i]] = i /\ rank[f[j]] = j
    BY <1>9
  <2> HIDE DEF f
  <2>2. ~(f[j].id < f[i].id) /\ f[i] # f[j]
    <3>1. f[j].id < f[i].id => j < i
      BY <1>3, <2>1
    <3> QED BY <1>1, <1>10, <2>1, <3>1
  <2>3. f[i].id \in Nat /\ f[j].id \in Nat /\ f[i].id # f[j].id
    BY <2>1, <2>2
  <2> QED BY <2>2, <2>3
<1>11. f \in [1 .. n -> S]
  BY <1>9
<1> HIDE DEF f
<1> QED BY <1>10, <1>11 DEF n

LEMMA InOrderElems ==
  ASSUME NEW S, IsFiniteSet(S), \A x \in S : x.id \in Nat,
         \A x, y \in S : x.id = y.id => x = y
  PROVE  /\ InOrder(S) \in Seq(S) /\ Elems(InOrder(S)) = S /\ Unique(InOrder(S))
         /\ \A i, j \in DOMAIN InOrder(S) : i < j => InOrder(S)[i].id < InOrder(S)[j].id
<1> DEFINE n == Cardinality(S)
<1>1. n \in Nat
  BY FS_CardinalityType
<1>2. PICK f : f = InOrder(S)
  OBVIOUS
<1>3. f \in [1 .. n -> S] /\ \A i, j \in 1 .. n : i < j => f[i].id < f[j].id
  BY <1>2, OrderExists DEF InOrder
<1>4. \A i, j \in 1 .. n : f[i].id = f[j].id => i = j
  <2> SUFFICES ASSUME NEW i \in 1 .. n, NEW j \in 1 .. n, i # j PROVE f[i].id # f[j].id
    OBVIOUS
  <2>1. i < j \/ j < i
    BY <1>1
  <2>2. f[i].id \in Nat /\ f[j].id \in Nat
    BY <1>3
  <2> QED BY <1>3, <2>1, <2>2
<1>5. IsFiniteSet(1 .. n) /\ Cardinality(1 .. n) = n
  BY <1>1, FS_Interval
<1>6. f \in Injection(1 .. n, S)
  BY <1>3, <1>4 DEF Injection, IsInjective
<1>7. f \in Surjection(1 .. n, S)
  BY <1>5, <1>6, FS_Injection
<1>8. \A x \in S : \E i \in 1 .. n : f[i] = x
  BY <1>7 DEF Surjection
<1>9. f \in Seq(S) /\ DOMAIN f = 1 .. n
  BY <1>1, <1>3
<1> HIDE DEF n
<1>10. Elems(f) = S
  BY <1>3, <1>8, <1>9 DEF Elems
<1> QED BY <1>2, <1>3, <1>4, <1>9, <1>10 DEF Unique

\* The gap in front of the i-th identifier; the first one follows the last, around the end.
GapAt(s, i) == IF i = 1 THEN MAX_MSG_ID - s[Len(s)].id + s[1].id ELSE s[i].id - s[i - 1].id
Widest(s, i) ==
  \A j \in DOMAIN s : GapAt(s, j) < GapAt(s, i) \/ (GapAt(s, j) = GapAt(s, i) /\ i <= j)

LEMMA GapType ==
  ASSUME NEW S, NEW s \in Seq(S), \A x \in S : x.id \in Nat, NEW i \in DOMAIN s
  PROVE  GapAt(s, i) \in Int
<1>1. i \in 1 .. Len(s) /\ Len(s) \in Nat /\ MAX_MSG_ID \in Nat
  BY WindowAssumption
<1>2. \A k \in 1 .. Len(s) : s[k].id \in Nat
  OBVIOUS
<1>3. CASE i = 1
  <2>1. s[1].id \in Nat /\ s[Len(s)].id \in Nat
    BY <1>1, <1>2, <1>3
  <2> QED BY <1>1, <1>3, <2>1 DEF GapAt
<1>4. CASE i # 1
  <2>1. s[i].id \in Nat /\ s[i - 1].id \in Nat
    BY <1>1, <1>2, <1>4
  <2> QED BY <1>4, <2>1 DEF GapAt
<1> QED BY <1>3, <1>4

\* There is a widest gap: by induction on the length of the list that is searched.
LEMMA WidestExists ==
  ASSUME NEW S, NEW s \in Seq(S), \A x \in S : x.id \in Nat, s # <<>>
  PROVE  \E i \in DOMAIN s : Widest(s, i)
<1> DEFINE n == Len(s)
           D(k) == \E i \in 1 .. k : \A j \in 1 .. k :
                     GapAt(s, j) < GapAt(s, i) \/ (GapAt(s, j) = GapAt(s, i) /\ i <= j)
<1>1. n \in Nat /\ n >= 1 /\ DOMAIN s = 1 .. n
  OBVIOUS
<1>2. \A i \in 1 .. n : GapAt(s, i) \in Int
  BY <1>1, GapType
<1>3. D(1)
  BY <1>1, <1>2
<1>4. ASSUME NEW k \in 1 .. n - 1, D(k) PROVE D(k + 1)
  <2>1. PICK i \in 1 .. k : \A j \in 1 .. k :
          GapAt(s, j) < GapAt(s, i) \/ (GapAt(s, j) = GapAt(s, i) /\ i <= j)
    BY <1>4
  <2>2. /\ i \in 1 .. n /\ k + 1 \in 1 .. n /\ i \in 1 .. k + 1 /\ k + 1 \in 1 .. k + 1
        /\ \A j \in 1 .. k + 1 : (j \in 1 .. k \/ j = k + 1) /\ j \in 1 .. n
    BY <1>1
  <2>3. CASE GapAt(s, k + 1) <= GapAt(s, i)
    <3>1. \A j \in 1 .. k + 1 :
            GapAt(s, j) < GapAt(s, i) \/ (GapAt(s, j) = GapAt(s, i) /\ i <= j)
      <4> SUFFICES ASSUME NEW j \in 1 .. k + 1
                   PROVE  GapAt(s, j) < GapAt(s, i) \/ (GapAt(s, j) = GapAt(s, i) /\ i <= j)
        OBVIOUS
      <4>1. CASE j \in 1 .. k
        BY <2>1, <4>1
      <4>2. CASE j = k + 1
        BY <1>2, <2>2, <2>3, <4>2
      <4> QED BY <2>2, <4>1, <4>2
    <3> QED BY <2>2, <3>1
  <2>4. CASE GapAt(s, i) < GapAt(s, k + 1)
    <3>1. \A j \in 1 .. k + 1 :
            \/ GapAt(s, j) < GapAt(s, k + 1)
            \/ GapAt(s, j) = GapAt(s, k + 1) /\ k + 1 <= j
      <4> SUFFICES ASSUME NEW j \in 1 .. k + 1
                   PROVE  \/ GapAt(s, j) < GapAt(s, k + 1)
                          \/ GapAt(s, j) = GapAt(s, k + 1) /\ k + 1 <= j
        OBVIOUS
      <4>1. CASE j \in 1 .. k
        <5>1. GapAt(s, j) <= GapAt(s, i)
          BY <1>2, <2>1, <2>2, <4>1
        <5> QED BY <1>2, <2>2, <2>4, <5>1
      <4>2. CASE j = k + 1
        BY <2>2, <4>2
      <4> QED BY <2>2, <4>1, <4>2
    <3> QED BY <2>2, <3>1
  <2> QED BY <1>2, <2>2, <2>3, <2>4
<1>5. D(n)
  <2> HIDE DEF D
  <2> SUFFICES ASSUME ~D(n) PROVE FALSE
    OBVIOUS
  <2> DEFINE T == {k \in 1 .. n : ~D(k)}
  <2>1. T \subseteq Nat /\ T # {}
    BY <1>1
  <2>2. PICK k \in T : \A y \in T : k <= y
    <3> HIDE DEF T
    <3> QED BY <2>1, LeastNat
  <2>3. k # 1 /\ k \in 1 .. n
    BY <1>3
  <2>4. k - 1 \in 1 .. n - 1 /\ k - 1 \in 1 .. n /\ (k - 1) + 1 = k
    BY <1>1, <2>3
  <2>5. D(k - 1)
    BY <1>1, <2>2, <2>4
  <2>6. D((k - 1) + 1)
    BY <1>4, <2>4, <2>5
  <2> QED BY <2>4, <2>6
<1> QED BY <1>1, <1>5 DEF Widest

\* wrapMsgID turns the list around; nothing is lost or doubled.
LEMMA WrapElems ==
  ASSUME NEW S, NEW s \in Seq(S), \A x \in S : x.id \in Nat, s # <<>>
  PROVE  \E f \in DOMAIN s :
           /\ Widest(s, f)
           /\ MQTTPersistence_wrapMsgID(s) \in Seq(S)
           /\ Len(MQTTPersistence_wrapMsgID(s)) = Len(s)
           /\ \A k \in 1 .. Len(s) : k <= Len(s) - f + 1
                => MQTTPersistence_wrapMsgID(s)[k] = s[k + f - 1]
           /\ \A k \in 1 .. Len(s) : k > Len(s) - f + 1
                => MQTTPersistence_wrapMsgID(s)[k] = s[k - (Len(s) - f + 1)]
<1>1. PICK f : f = CHOOSE i \in DOMAIN s : Widest(s, i)
  OBVIOUS
<1>2. f \in DOMAIN s /\ Widest(s, f)
  BY <1>1, WidestExists
<1>3. f \in 1 .. Len(s) /\ Len(s) \in Nat
  BY <1>2
<1>4. PICK u : u = SubSeq(s, f, Len(s))
  OBVIOUS
<1>5. PICK v : v = SubSeq(s, 1, f - 1)
  OBVIOUS
<1>6. u \in Seq(S) /\ Len(u) = Len(s) - f + 1 /\ \A k \in 1 .. Len(s) - f + 1 : u[k] = s[k + f - 1]
  BY <1>3, <1>4
<1>7. v \in Seq(S) /\ Len(v) = f - 1 /\ \A k \in 1 .. f - 1 : v[k] = s[k]
  BY <1>3, <1>5
<1>8. MQTTPersistence_wrapMsgID(s) = u \o v
  BY <1>1, <1>4, <1>5 DEF MQTTPersistence_wrapMsgID, Widest, GapAt
<1>9. /\ u \o v \in Seq(S) /\ Len(u \o v) = Len(u) + Len(v)
      /\ \A k \in 1 .. Len(u) + Len(v) : (u \o v)[k] = IF k <= Len(u) THEN u[k] ELSE v[k - Len(u)]
  BY <1>6, <1>7, ConcatProperties
<1>10. PICK w : w = u \o v
  OBVIOUS
<1>11. /\ w \in Seq(S) /\ Len(w) = Len(u) + Len(v)
       /\ \A k \in 1 .. Len(u) + Len(v) : w[k] = IF k <= Len(u) THEN u[k] ELSE v[k - Len(u)]
  BY <1>9, <1>10, Zenon
<1>12. Len(u) = Len(s) - f + 1 /\ Len(v) = f - 1
  BY <1>6, <1>7
<1>13. Len(w) = Len(s) /\ Len(u) + Len(v) = Len(s)
  BY <1>3, <1>11, <1>12
<1>14. \A k \in 1 .. Len(s) : k <= Len(s) - f + 1 => w[k] = s[k + f - 1]
  <2> SUFFICES ASSUME NEW k \in 1 .. Len(s), k <= Len(s) - f + 1 PROVE w[k] = s[k + f - 1]
    OBVIOUS
  <2>1. k \in 1 .. Len(u) + Len(v) /\ k <= Len(u) /\ k \in 1 .. Len(s) - f + 1
    BY <1>3, <1>12, <1>13
  <2>2. w[k] = u[k]
    BY <1>11, <2>1, Zenon
  <2> QED BY <1>6, <2>1, <2>2
<1>15. \A k \in 1 .. Len(s) : k > Len(s) - f + 1 => w[k] = s[k - (Len(s) - f + 1)]
  <2> SUFFICES ASSUME NEW k \in 1 .. Len(s), k > Len(s) - f + 1
               PROVE  w[k] = s[k - (Len(s) - f + 1)]
    OBVIOUS
  <2>1. /\ k \in 1 .. Len(u) + Len(v) /\ ~(k <= Len(u)) /\ Len(u) = Len(s) - f + 1
        /\ k - (Len(s) - f + 1) \in 1 .. f - 1
    BY <1>3, <1>12, <1>13
  <2>2. w[k] = v[k - Len(u)]
    BY <1>11, <2>1, Zenon
  <2> QED BY <1>7, <2>1, <2>2
<1>16. MQTTPersistence_wrapMsgID(s) = w
  BY <1>8, <1>10
<1> QED BY <1>2, <1>11, <1>13, <1>14, <1>15, <1>16

LEMMA WrapSame ==
  ASSUME NEW S, NEW s \in Seq(S), \A x \in S : x.id \in Nat, Unique(s)
  PROVE  /\ MQTTPersistence_wrapMsgID(s) \in Seq(S) /\ Unique(MQTTPersistence_wrapMsgID(s))
         /\ Elems(MQTTPersistence_wrapMsgID(s)) = Elems(s)
<1>1. CASE s = <<>>
  BY <1>1 DEF MQTTPersistence_wrapMsgID
<1>2. CASE s # <<>>
  <2>1. PICK w : w = MQTTPersistence_wrapMsgID(s)
    OBVIOUS
  <2>2. PICK f \in DOMAIN s :
          /\ w \in Seq(S) /\ Len(w) = Len(s)
          /\ \A k \in 1 .. Len(s) : k <= Len(s) - f + 1 => w[k] = s[k + f - 1]
          /\ \A k \in 1 .. Len(s) : k > Len(s) - f + 1 => w[k] = s[k - (Len(s) - f + 1)]
    BY <1>2, <2>1, WrapElems
  <2>3. /\ Len(s) \in Nat /\ f \in 1 .. Len(s) /\ DOMAIN s = 1 .. Len(s) /\ DOMAIN w = 1 .. Len(s)
    BY <2>2
  \* the place in s of what is at k in w
  <2> DEFINE from(k) == IF k <= Len(s) - f + 1 THEN k + f - 1 ELSE k - (Len(s) - f + 1)
  <2>4. ASSUME NEW k \in 1 .. Len(s) PROVE from(k) \in 1 .. Len(s) /\ w[k] = s[from(k)]
    <3>1. from(k) \in 1 .. Len(s)
      BY <2>3
    <3>2. CASE k <= Len(s) - f + 1
      BY <2>2, <3>1, <3>2
    <3>3. CASE k > Len(s) - f + 1
      BY <2>2, <2>3, <3>1, <3>3
    <3> QED BY <2>3, <3>1, <3>2, <3>3
  <2>5. ASSUME NEW k \in 1 .. Len(s), NEW l \in 1 .. Len(s), from(k) = from(l) PROVE k = l
    BY <2>3, <2>5
  <2>6. ASSUME NEW i \in 1 .. Len(s) PROVE \E k \in 1 .. Len(s) : from(k) = i
    <3>1. CASE i >= f
      <4>1. i - f + 1 \in 1 .. Len(s) /\ from(i - f + 1) = i
        BY <2>3, <3>1
      <4> QED BY <4>1
    <3>2. CASE i < f
      <4>1. PICK k \in 1 .. Len(s) : k = i + (Len(s) - f + 1)
        BY <2>3, <3>2
      <4>2. ~(k <= Len(s) - f + 1) /\ k - (Len(s) - f + 1) = i
        BY <2>3, <4>1
      <4> QED BY <4>2
    <3> QED BY <2>3, <3>1, <3>2
  <2> HIDE DEF from
  <2>7. Unique(w)
    <3> SUFFICES ASSUME NEW k \in 1 .. Len(s), NEW l \in 1 .. Len(s), w[k].id = w[l].id
                 PROVE  k = l
      BY <2>3 DEF Unique
    <3>1. from(k) = from(l)
      BY <2>3, <2>4, SMTT(30) DEF Unique
    <3> QED BY <2>5, <3>1
  <2>8. ASSUME NEW x \in Elems(w) PROVE x \in Elems(s)
    <3>1. PICK k \in 1 .. Len(s) : x = w[k]
      BY <2>3 DEF Elems
    <3> QED BY <2>3, <2>4, <3>1 DEF Elems
  <2>9. ASSUME NEW x \in Elems(s) PROVE x \in Elems(w)
    <3>1. PICK i \in 1 .. Len(s) : x = s[i]
      BY <2>3 DEF Elems
    <3>2. PICK k \in 1 .. Len(s) : from(k) = i
      BY <2>6
    <3> QED BY <2>3, <2>4, <3>1, <3>2 DEF Elems
  <2> QED BY <2>1, <2>2, <2>7, <2>8, <2>9
<1> QED BY <1>1, <1>2
-----------------------------------------------------------------------------
(* Types, and the store as the image of the lists.                         *)

Id == 1 .. MAX_MSG_ID
PacketTypes == {"PUBLISH", "PUBACK", "PUBREC", "PUBREL", "PUBCOMP"}
Packet == [t : PacketTypes, id : Nat, m : Nat, qos : Nat, dup : BOOLEAN]
Sent == [id : Nat, m : Nat, qos : {1, 2}]
Entry == [id : Nat, m : Nat, qos : {1, 2}, next : {"PUBACK", "PUBREC", "PUBCOMP"}]
Inbound == [id : Nat, m : Nat]

ClientType ==
  /\ connected \in BOOLEAN /\ msgID \in 0 .. MAX_MSG_ID
  /\ outboundMsgs \in Seq(Entry) /\ inboundMsgs \in Seq(Inbound) /\ messageQueue \in Seq(Nat)
  /\ calling \in Nat /\ freed \in BOOLEAN /\ releasing \in Inbound
StoreType ==
  store \in [sent : SUBSET Sent, rel : SUBSET Nat, rcvd : SUBSET Inbound, queue : Seq(Nat)]
AppType ==
  /\ pc \in {"idle", "publish", "wait"}
  /\ work \in [m : Nat, qos : {0, 1, 2}, id : Nat, conn : Nat]
  /\ tokens \subseteq [m : Nat, id : Nat, conn : Nat]
  /\ pc = "publish" => work.qos # 0 /\ work.m = published + 1
NetType ==
  /\ link \in BOOLEAN /\ toBroker \in Seq(Packet) /\ toClient \in Seq(Packet)
  /\ ~link => toBroker = <<>> /\ toClient = <<>>
  /\ link => connected
PeerType ==
  /\ broker \in [in : SUBSET Nat, out : Seq(Entry)]
  /\ received \in Seq(Nat) /\ delivered \in Seq(Nat)
  /\ published \in Nat /\ sentQos \in Seq({1, 2}) /\ Len(sentQos) = published
  /\ offered \in Seq({1, 2})
  /\ mode \in Modes /\ conn \in Nat

Types == ClientType /\ StoreType /\ AppType /\ NetType /\ PeerType

\* The lists of the client and of the broker's session have each identifier once.
Lists == Unique(outboundMsgs) /\ Unique(inboundMsgs) /\ Unique(broker.out)

\* What is stored is what is listed: this is what a restart relies on.
Mirror ==
  IF mode.persist
  THEN /\ store.sent = {[id |-> x.id, m |-> x.m, qos |-> x.qos] : x \in Elems(outboundMsgs)}
       /\ store.rel = {x.id : x \in {y \in Elems(outboundMsgs) : y.next = "PUBCOMP"}}
       /\ store.rcvd = Elems(inboundMsgs)
       /\ store.queue = messageQueue
  ELSE store = EmptyStore

\* An entry's QoS and the packet it waits for.
Waits(msgs) ==
  \A x \in Elems(msgs) : x.next \in IF x.qos = 2 THEN {"PUBREC", "PUBCOMP"} ELSE {"PUBACK"}
-----------------------------------------------------------------------------
(* One direction of publishing: a carries the packets of the publisher, b  *)
(* the answers, msgs is the publisher's list of open publications.         *)

Requests == {"PUBLISH", "PUBREL"}
Answers == {"PUBACK", "PUBREC", "PUBCOMP"}

\* s has one packet with a type of T for each identifier at most.
Single(s, T) ==
  \A i, j \in DOMAIN s : s[i].t \in T /\ s[j].t \in T /\ s[i].id = s[j].id => i = j

\* At most one packet is on the way for a publication, it is one of a listed
\* publication, and the one that its state says.
Exchange(a, b, msgs) ==
  /\ Single(a, Requests) /\ Single(b, Answers)
  /\ \A p \in Elems(a), q \in Elems(b) : p.t \in Requests /\ q.t \in Answers => p.id # q.id
  /\ \A p \in Elems(a) : p.t = "PUBLISH" =>
       \E x \in Elems(msgs) : x.id = p.id /\ x.m = p.m /\ x.qos = p.qos /\ x.next # "PUBCOMP"
  /\ \A p \in Elems(a) : p.t = "PUBREL" => \E x \in Elems(msgs) : x.id = p.id /\ x.next = "PUBCOMP"
  /\ \A q \in Elems(b) : q.t \in Answers => \E x \in Elems(msgs) : x.id = q.id /\ x.next = q.t
  /\ Unique(msgs) /\ Waits(msgs)

LEMMA SingleTail ==
  ASSUME NEW s \in Seq(Packet), NEW T, Single(s, T), s # <<>>
  PROVE  /\ Single(Tail(s), T)
         /\ Head(s).t \in T => \A p \in Elems(Tail(s)) : p.t \in T => p.id # Head(s).id
<1>1. /\ Tail(s) \in Seq(Packet) /\ Head(s) = s[1] /\ Len(s) \in Nat /\ Len(s) > 0
      /\ DOMAIN s = 1 .. Len(s) /\ DOMAIN Tail(s) = 1 .. Len(s) - 1
      /\ \A i \in 1 .. Len(s) - 1 : Tail(s)[i] = s[i + 1]
  OBVIOUS
<1>2. \A i \in 1 .. Len(s) - 1 : i + 1 \in 1 .. Len(s) /\ i + 1 # 1
  BY <1>1
<1>3. 1 \in 1 .. Len(s)
  BY <1>1
<1>4. Single(Tail(s), T)
  <2> SUFFICES ASSUME NEW i \in 1 .. Len(s) - 1, NEW j \in 1 .. Len(s) - 1,
                      Tail(s)[i].t \in T, Tail(s)[j].t \in T, Tail(s)[i].id = Tail(s)[j].id
               PROVE  i = j
    BY <1>1 DEF Single
  <2>1. i + 1 = j + 1
    BY <1>1, <1>2 DEF Single
  <2> QED BY <1>1, <2>1
<1>5. ASSUME Head(s).t \in T, NEW p \in Elems(Tail(s)), p.t \in T PROVE p.id # Head(s).id
  <2>1. PICK i \in 1 .. Len(s) - 1 : p = Tail(s)[i]
    BY <1>1 DEF Elems
  <2>2. p = s[i + 1] /\ i + 1 \in 1 .. Len(s) /\ i + 1 # 1
    BY <1>1, <1>2, <2>1
  <2> QED BY <1>1, <1>3, <1>5, <2>2 DEF Single
<1> QED BY <1>4, <1>5

LEMMA SingleAppend ==
  ASSUME NEW s \in Seq(Packet), NEW T, Single(s, T), NEW p \in Packet,
         p.t \in T => \A q \in Elems(s) : q.t \in T => q.id # p.id
  PROVE  Single(Append(s, p), T)
<1>1. /\ Len(s) \in Nat /\ DOMAIN s = 1 .. Len(s) /\ DOMAIN Append(s, p) = 1 .. Len(s) + 1
      /\ \A i \in 1 .. Len(s) : Append(s, p)[i] = s[i]
      /\ Append(s, p)[Len(s) + 1] = p
  OBVIOUS
<1>2. \A i \in 1 .. Len(s) : s[i] \in Elems(s)
  BY <1>1 DEF Elems
<1> SUFFICES ASSUME NEW i \in 1 .. Len(s) + 1, NEW j \in 1 .. Len(s) + 1,
                    Append(s, p)[i].t \in T, Append(s, p)[j].t \in T,
                    Append(s, p)[i].id = Append(s, p)[j].id
             PROVE  i = j
  BY <1>1 DEF Single
<1>3. (i \in 1 .. Len(s) \/ i = Len(s) + 1) /\ (j \in 1 .. Len(s) \/ j = Len(s) + 1)
  BY <1>1
<1>4. CASE i \in 1 .. Len(s) /\ j \in 1 .. Len(s)
  BY <1>1, <1>4 DEF Single
<1>5. CASE i \in 1 .. Len(s) /\ j = Len(s) + 1
  BY <1>1, <1>2, <1>5
<1>6. CASE i = Len(s) + 1 /\ j \in 1 .. Len(s)
  BY <1>1, <1>2, <1>6
<1> QED BY <1>3, <1>4, <1>5, <1>6

LEMMA SingleEmpty == \A T : Single(<<>>, T)
  BY DEF Single

\* Packets leave at the front.
LEMMA DropRequest ==
  ASSUME NEW a \in Seq(Packet), NEW b \in Seq(Packet), NEW msgs \in Seq(Entry),
         Exchange(a, b, msgs), a # <<>>
  PROVE  /\ Exchange(Tail(a), b, msgs)
         /\ Head(a).t \in Requests =>
              /\ \A p \in Elems(Tail(a)) : p.t \in Requests => p.id # Head(a).id
              /\ \A q \in Elems(b) : q.t \in Answers => q.id # Head(a).id
<1>1. Head(a) \in Elems(a) /\ Elems(Tail(a)) \subseteq Elems(a)
  BY ElemsTail
<1>2. Single(a, Requests)
  BY DEF Exchange
<1>3. Single(Tail(a), Requests)
  BY <1>2, SingleTail
<1>4. Head(a).t \in Requests => \A p \in Elems(Tail(a)) : p.t \in Requests => p.id # Head(a).id
  BY <1>2, SingleTail
<1>5. Exchange(Tail(a), b, msgs)
  BY <1>1, <1>3 DEF Exchange
<1>6. \A q \in Elems(b) : Head(a).t \in Requests /\ q.t \in Answers => q.id # Head(a).id
  BY <1>1 DEF Exchange
<1> QED BY <1>4, <1>5, <1>6

LEMMA DropAnswer ==
  ASSUME NEW a \in Seq(Packet), NEW b \in Seq(Packet), NEW msgs \in Seq(Entry),
         Exchange(a, b, msgs), b # <<>>
  PROVE  /\ Exchange(a, Tail(b), msgs)
         /\ Head(b).t \in Answers =>
              /\ \A q \in Elems(Tail(b)) : q.t \in Answers => q.id # Head(b).id
              /\ \A p \in Elems(a) : p.t \in Requests => p.id # Head(b).id
<1>1. Head(b) \in Elems(b) /\ Elems(Tail(b)) \subseteq Elems(b)
  BY ElemsTail
<1>2. Single(b, Answers)
  BY DEF Exchange
<1>3. Single(Tail(b), Answers)
  BY <1>2, SingleTail
<1>4. Head(b).t \in Answers => \A q \in Elems(Tail(b)) : q.t \in Answers => q.id # Head(b).id
  BY <1>2, SingleTail
<1>5. Exchange(a, Tail(b), msgs)
  BY <1>1, <1>3 DEF Exchange
<1>6. \A p \in Elems(a) : Head(b).t \in Answers /\ p.t \in Requests => p.id # Head(b).id
  BY <1>1 DEF Exchange
<1> QED BY <1>4, <1>5, <1>6

\* Packets of the other direction share the connection.
LEMMA AddOther ==
  ASSUME NEW a \in Seq(Packet), NEW b \in Seq(Packet), NEW msgs \in Seq(Entry),
         Exchange(a, b, msgs), NEW p \in Packet
  PROVE  /\ p.t \notin Requests => Exchange(Append(a, p), b, msgs)
         /\ p.t \notin Answers => Exchange(a, Append(b, p), msgs)
<1>1. ASSUME p.t \notin Requests PROVE Exchange(Append(a, p), b, msgs)
  <2>1. Single(Append(a, p), Requests)
    BY <1>1, SingleAppend DEF Exchange
  <2>2. Elems(Append(a, p)) = Elems(a) \cup {p}
    BY ElemsAppend
  <2>3. p.t # "PUBLISH" /\ p.t # "PUBREL"
    BY <1>1 DEF Requests
  <2> QED BY <1>1, <2>1, <2>2, <2>3 DEF Exchange
<1>2. ASSUME p.t \notin Answers PROVE Exchange(a, Append(b, p), msgs)
  <2>1. Single(Append(b, p), Answers)
    BY <1>2, SingleAppend DEF Exchange
  <2>2. Elems(Append(b, p)) = Elems(b) \cup {p}
    BY ElemsAppend
  <2> QED BY <1>2, <2>1, <2>2 DEF Exchange
<1> QED BY <1>1, <1>2

\* A request and an answer may be added for a listed publication with nothing on the way.
Quiet(a, b, id) ==
  /\ \A p \in Elems(a) : p.t \in Requests => p.id # id
  /\ \A q \in Elems(b) : q.t \in Answers => q.id # id

LEMMA AddRequest ==
  ASSUME NEW a \in Seq(Packet), NEW b \in Seq(Packet), NEW msgs \in Seq(Entry),
         Exchange(a, b, msgs), NEW p \in Packet, Quiet(a, b, p.id),
         \/ p.t = "PUBLISH" /\ \E x \in Elems(msgs) :
              x.id = p.id /\ x.m = p.m /\ x.qos = p.qos /\ x.next # "PUBCOMP"
         \/ p.t = "PUBREL" /\ \E x \in Elems(msgs) : x.id = p.id /\ x.next = "PUBCOMP"
  PROVE  Exchange(Append(a, p), b, msgs)
<1>1. Single(Append(a, p), Requests)
  BY SingleAppend DEF Exchange, Quiet
<1>2. Elems(Append(a, p)) = Elems(a) \cup {p}
  BY ElemsAppend
<1> QED BY <1>1, <1>2 DEF Exchange, Quiet

LEMMA AddAnswer ==
  ASSUME NEW a \in Seq(Packet), NEW b \in Seq(Packet), NEW msgs \in Seq(Entry),
         Exchange(a, b, msgs), NEW q \in Packet, Quiet(a, b, q.id),
         \E x \in Elems(msgs) : x.id = q.id /\ x.next = q.t
  PROVE  Exchange(a, Append(b, q), msgs)
<1>1. Single(Append(b, q), Answers)
  BY SingleAppend DEF Exchange, Quiet
<1>2. Elems(Append(b, q)) = Elems(b) \cup {q}
  BY ElemsAppend
<1> QED BY <1>1, <1>2 DEF Exchange, Quiet

\* The list grows, loses an entry, or one of its entries takes the next step.
LEMMA ListGrows ==
  ASSUME NEW a \in Seq(Packet), NEW b \in Seq(Packet), NEW msgs \in Seq(Entry),
         Exchange(a, b, msgs), NEW x \in Entry, x.id \notin Ids(msgs),
         x.next \in IF x.qos = 2 THEN {"PUBREC", "PUBCOMP"} ELSE {"PUBACK"}
  PROVE  Exchange(a, b, Append(msgs, x)) /\ Quiet(a, b, x.id)
<1>1. Elems(Append(msgs, x)) = Elems(msgs) \cup {x}
  BY ElemsAppend
<1>2. Unique(Append(msgs, x))
  BY UniqueAppend DEF Exchange
<1>3. \A y \in Elems(msgs) : y.id # x.id
  BY IdsElems
<1>4. Quiet(a, b, x.id)
  BY <1>3 DEF Exchange, Quiet, Requests
<1>5. Waits(Append(msgs, x))
  BY <1>1 DEF Exchange, Waits
<1> QED BY <1>1, <1>2, <1>4, <1>5 DEF Exchange

LEMMA ListLoses ==
  ASSUME NEW a \in Seq(Packet), NEW b \in Seq(Packet), NEW msgs \in Seq(Entry),
         Exchange(a, b, msgs), NEW id, Quiet(a, b, id)
  PROVE  Exchange(a, b, Without(msgs, id))
<1>1. /\ Unique(Without(msgs, id))
      /\ Elems(Without(msgs, id)) = {x \in Elems(msgs) : x.id # id}
  BY WithoutElems DEF Exchange
<1>2. Waits(Without(msgs, id))
  BY <1>1 DEF Exchange, Waits
<1> QED BY <1>1, <1>2 DEF Exchange, Quiet, Requests

Confirm(msgs, id) ==
  [i \in DOMAIN msgs |-> IF msgs[i].id = id THEN [msgs[i] EXCEPT !.next = "PUBCOMP"] ELSE msgs[i]]

LEMMA ConfirmElems ==
  ASSUME NEW msgs \in Seq(Entry), NEW id
  PROVE  /\ Confirm(msgs, id) \in Seq(Entry)
         /\ \A x \in Elems(msgs) : x.id # id => x \in Elems(Confirm(msgs, id))
         /\ \A x \in Elems(msgs) : x.id = id => [x EXCEPT !.next = "PUBCOMP"] \in Elems(Confirm(msgs, id))
         /\ \A y \in Elems(Confirm(msgs, id)) : \E x \in Elems(msgs) :
              y = IF x.id = id THEN [x EXCEPT !.next = "PUBCOMP"] ELSE x
         /\ Unique(msgs) => Unique(Confirm(msgs, id))
<1>1. DOMAIN msgs = 1 .. Len(msgs) /\ Len(msgs) \in Nat /\ \A i \in 1 .. Len(msgs) : msgs[i] \in Entry
  OBVIOUS
<1>2. PICK w : w = Confirm(msgs, id)
  OBVIOUS
<1>3. /\ DOMAIN w = 1 .. Len(msgs)
      /\ \A i \in 1 .. Len(msgs) :
           w[i] = IF msgs[i].id = id THEN [msgs[i] EXCEPT !.next = "PUBCOMP"] ELSE msgs[i]
  BY <1>1, <1>2 DEF Confirm
<1>4. \A i \in 1 .. Len(msgs) : w[i] \in Entry /\ w[i].id = msgs[i].id
  BY <1>1, <1>3, SMTT(30) DEF Entry
<1>5. w = [i \in 1 .. Len(msgs) |-> w[i]]
  BY <1>1, <1>2 DEF Confirm
<1>6. w \in Seq(Entry)
  BY <1>1, <1>4, <1>5
<1>7. Unique(msgs) => Unique(w)
  BY <1>1, <1>3, <1>4 DEF Unique
<1>8. \A x \in Elems(msgs) : x.id # id => x \in Elems(w)
  BY <1>1, <1>3 DEF Elems
<1>9. \A x \in Elems(msgs) : x.id = id => [x EXCEPT !.next = "PUBCOMP"] \in Elems(w)
  BY <1>1, <1>3 DEF Elems
<1>10. \A y \in Elems(w) : \E x \in Elems(msgs) :
         y = IF x.id = id THEN [x EXCEPT !.next = "PUBCOMP"] ELSE x
  <2> SUFFICES ASSUME NEW i \in 1 .. Len(msgs)
               PROVE  \E x \in Elems(msgs) :
                        w[i] = IF x.id = id THEN [x EXCEPT !.next = "PUBCOMP"] ELSE x
    BY <1>3 DEF Elems
  <2>1. msgs[i] \in Elems(msgs)
    BY <1>1 DEF Elems
  <2> QED BY <1>3, <2>1
<1> QED BY <1>2, <1>6, <1>7, <1>8, <1>9, <1>10

\* Every entry goes over into one with its identifier, number and QoS.
ConfirmedAs(x, y, id) ==
  /\ y.id = x.id /\ y.m = x.m /\ y.qos = x.qos
  /\ y.next = IF x.id = id THEN "PUBCOMP" ELSE x.next

LEMMA ConfirmMap ==
  ASSUME NEW msgs \in Seq(Entry), NEW id
  PROVE  /\ \A x \in Elems(msgs) : \E y \in Elems(Confirm(msgs, id)) : ConfirmedAs(x, y, id)
         /\ \A y \in Elems(Confirm(msgs, id)) : \E x \in Elems(msgs) : ConfirmedAs(x, y, id)
<1>1. Elems(msgs) \subseteq Entry
  BY ElemsOf
<1>2. ASSUME NEW x \in Elems(msgs)
      PROVE  /\ x.id = id => ConfirmedAs(x, [x EXCEPT !.next = "PUBCOMP"], id)
             /\ x.id # id => ConfirmedAs(x, x, id)
  <2>1. x \in Entry
    BY <1>1
  <2> QED BY <2>1 DEF ConfirmedAs, Entry
<1>3. ASSUME NEW x \in Elems(msgs) PROVE \E y \in Elems(Confirm(msgs, id)) : ConfirmedAs(x, y, id)
  <2>1. CASE x.id = id
    BY <1>2, <2>1, ConfirmElems
  <2>2. CASE x.id # id
    BY <1>2, <2>2, ConfirmElems
  <2> QED BY <2>1, <2>2
<1>4. ASSUME NEW y \in Elems(Confirm(msgs, id)) PROVE \E x \in Elems(msgs) : ConfirmedAs(x, y, id)
  <2>1. PICK x \in Elems(msgs) : y = IF x.id = id THEN [x EXCEPT !.next = "PUBCOMP"] ELSE x
    BY ConfirmElems
  <2> QED BY <1>2, <2>1
<1> QED BY <1>3, <1>4

LEMMA ListConfirms ==
  ASSUME NEW a \in Seq(Packet), NEW b \in Seq(Packet), NEW msgs \in Seq(Entry),
         Exchange(a, b, msgs), NEW id, Quiet(a, b, id),
         \A x \in Elems(msgs) : x.id = id => x.qos = 2
  PROVE  Exchange(a, b, Confirm(msgs, id))
<1>1. Unique(Confirm(msgs, id))
  BY ConfirmElems DEF Exchange
<1>2. \A x \in Elems(msgs) : x.id # id => x \in Elems(Confirm(msgs, id))
  BY ConfirmElems
<1>3. Waits(Confirm(msgs, id))
  <2> SUFFICES ASSUME NEW y \in Elems(Confirm(msgs, id))
               PROVE  y.next \in IF y.qos = 2 THEN {"PUBREC", "PUBCOMP"} ELSE {"PUBACK"}
    BY DEF Waits
  <2>1. PICK x \in Elems(msgs) : y = IF x.id = id THEN [x EXCEPT !.next = "PUBCOMP"] ELSE x
    BY ConfirmElems
  <2>2. x \in Entry
    BY ElemsOf
  <2>3. x.next \in IF x.qos = 2 THEN {"PUBREC", "PUBCOMP"} ELSE {"PUBACK"}
    BY DEF Exchange, Waits
  <2> QED BY <2>1, <2>2, <2>3 DEF Entry
<1> QED BY <1>1, <1>2, <1>3 DEF Exchange, Quiet, Requests

\* On a new connection nothing is on the way.
LEMMA NothingOnTheWay ==
  ASSUME NEW msgs, Unique(msgs), Waits(msgs)
  PROVE  Exchange(<<>>, <<>>, msgs)
  BY ElemsEmpty, SingleEmpty DEF Exchange

LEMMA SameList ==
  ASSUME NEW a, NEW b, NEW msgs, NEW more, Exchange(a, b, msgs),
         Unique(more), Elems(more) = Elems(msgs)
  PROVE  Exchange(a, b, more)
  BY DEF Exchange, Waits

\* After a reconnect every listed publication is repeated.
LEMMA Repeated ==
  ASSUME NEW msgs \in Seq(Entry), Unique(msgs), Waits(msgs), NEW a \in Seq(Packet),
         NEW b \in Seq(Packet), \A q \in Elems(b) : q.t \notin Answers,
         DOMAIN a = DOMAIN msgs,
         \A i \in DOMAIN msgs :
           /\ a[i].id = msgs[i].id
           /\ IF msgs[i].next = "PUBCOMP" THEN a[i].t = "PUBREL"
              ELSE a[i].t = "PUBLISH" /\ a[i].m = msgs[i].m /\ a[i].qos = msgs[i].qos
  PROVE  Exchange(a, b, msgs)
<1>1. Single(a, Requests)
  BY DEF Single, Unique
<1>2. \A i \in DOMAIN msgs : msgs[i] \in Elems(msgs)
  BY DEF Elems
<1>3. \A p \in Elems(a) : \E i \in DOMAIN msgs : p = a[i]
  BY DEF Elems
<1>4. ASSUME NEW p \in Elems(a), p.t = "PUBLISH"
      PROVE  \E x \in Elems(msgs) : x.id = p.id /\ x.m = p.m /\ x.qos = p.qos /\ x.next # "PUBCOMP"
  <2>1. PICK i \in DOMAIN msgs : p = a[i]
    BY <1>3
  <2> QED BY <1>2, <1>4, <2>1
<1>5. ASSUME NEW p \in Elems(a), p.t = "PUBREL"
      PROVE  \E x \in Elems(msgs) : x.id = p.id /\ x.next = "PUBCOMP"
  <2>1. PICK i \in DOMAIN msgs : p = a[i]
    BY <1>3
  <2> QED BY <1>2, <1>5, <2>1
<1>6. Single(b, Answers)
  BY DEF Single, Elems
<1> QED BY <1>1, <1>4, <1>5, <1>6 DEF Exchange

-----------------------------------------------------------------------------
(* Publishing.                                                             *)

\* A session that is kept without a store forgets at a restart what it told the broker.
Lossless == mode.clean \/ mode.persist

\* What the listed publications are, and that one the broker was given is not given again.
SentInv ==
  /\ \A x \in Elems(outboundMsgs) : x.m \in 1 .. published /\ sentQos[x.m] = x.qos
  /\ \A x, y \in Elems(outboundMsgs) : x.m = y.m => x = y
  /\ Elems(received) \subseteq 1 .. published
  /\ \A x \in Elems(outboundMsgs) :
       x.qos = 2 /\ x.m \in Elems(received) => x.id \in broker.in \/ x.next = "PUBCOMP"
  /\ \A m \in 1 .. published : sentQos[m] = 2 => Count(m, received) <= 1

\* What an answer says is true.
AnswerInv ==
  Lossless =>
    /\ \A q \in Elems(toClient) : q.t \in Answers =>
         \E x \in Elems(outboundMsgs) :
           x.id = q.id /\ x.next = q.t /\ x.m \in Elems(received)
    /\ \A x \in Elems(outboundMsgs) : x.next = "PUBCOMP" => x.m \in Elems(received)
    /\ link \/ ~mode.clean =>
         \A id \in broker.in : \E x \in Elems(outboundMsgs) :
           x.id = id /\ x.qos = 2 /\ x.m \in Elems(received)
    /\ \A q \in Elems(toClient) : q.t = "PUBCOMP" => q.id \notin broker.in

\* A publication with the token t has arrived, or is listed, or its session is over.
Known(t) ==
  \/ t.m \in Elems(received)
  \/ \E x \in Elems(outboundMsgs) : x.id = t.id /\ x.m = t.m
  \/ mode.clean /\ (t.conn # conn \/ ~connected)
TokenInv ==
  Lossless =>
    /\ \A t \in tokens : Known(t) /\ t.conn <= conn
    /\ pc = "wait" => Known(work) /\ work.conn <= conn
    /\ CompletionTrue

-----------------------------------------------------------------------------
(* Receiving.                                                              *)

\* The application has been given the publication, or it is queued for it.
Handled(m) ==
  \/ m \in Elems(delivered) \/ m \in Elems(messageQueue)
  \/ m = calling /\ calling # 0 /\ freed

OfferInv ==
  /\ \A y \in Elems(broker.out) : y.m \in DOMAIN offered /\ offered[y.m] = y.qos
  /\ \A y, z \in Elems(broker.out) : y.m = z.m => y = z
  /\ Elems(messageQueue) \subseteq DOMAIN offered /\ Elems(delivered) \subseteq DOMAIN offered
  /\ calling # 0 => calling \in DOMAIN offered
  /\ \A x \in Elems(inboundMsgs) : x.m \in DOMAIN offered /\ offered[x.m] = 2
  /\ calling # 0 => releasing = NoMsg
  /\ calling # 0 => IF freed THEN messageQueue = <<>>
                    ELSE messageQueue # <<>> /\ Head(messageQueue) = calling
  /\ releasing # NoMsg =>
       /\ releasing.m \in DOMAIN offered
       /\ releasing \in Elems(inboundMsgs) \/ (releasing.id = 0 /\ offered[releasing.m] = 1)

OnceInv ==
  ~torn =>
    /\ \A y \in Elems(broker.out) : y.qos = 2 /\ Handled(y.m) => y.next = "PUBCOMP"
    /\ \A x \in Elems(inboundMsgs) : ~Handled(x.m)
    /\ \A x, z \in Elems(inboundMsgs) : x.m = z.m => x = z
    /\ \A x \in Elems(inboundMsgs) : x # releasing =>
         \E y \in Elems(broker.out) : y.id = x.id /\ y.m = x.m
    /\ \A y \in Elems(broker.out) : y.qos = 2 /\ y.m = releasing.m => y.next = "PUBCOMP"
    /\ \A q \in Elems(toBroker), x \in Elems(inboundMsgs) :
         q.t = "PUBCOMP" /\ x # releasing => x.id # q.id
    /\ \A m \in DOMAIN offered : offered[m] = 2 =>
         Count(m, delivered) + Count(m, messageQueue)
           + (IF m = calling /\ freed THEN 1 ELSE 0) <= 1

SessionInv ==
  /\ Types /\ Lists /\ Mirror
  /\ Exchange(toBroker, toClient, outboundMsgs) /\ Exchange(toClient, toBroker, broker.out)
  /\ SentInv /\ AnswerInv /\ TokenInv /\ OfferInv /\ OnceInv
-----------------------------------------------------------------------------
(* What keeps each part.                                                   *)

LEMMA SentFrame ==
  ASSUME SentInv, UNCHANGED <<published, sentQos, received>>, broker'.in = broker.in,
         Elems(outboundMsgs') \subseteq Elems(outboundMsgs)
  PROVE  SentInv'
<1>1. /\ \A x \in Elems(outboundMsgs') : x.m \in 1 .. published' /\ sentQos'[x.m] = x.qos
      /\ \A x, y \in Elems(outboundMsgs') : x.m = y.m => x = y
  BY DEF SentInv
<1>2. Elems(received') \subseteq 1 .. published'
  BY DEF SentInv
<1>3. \A x \in Elems(outboundMsgs') :
        x.qos = 2 /\ x.m \in Elems(received') => x.id \in broker'.in \/ x.next = "PUBCOMP"
  BY DEF SentInv
<1>4. \A m \in 1 .. published' : sentQos'[m] = 2 => Count(m, received') <= 1
  BY DEF SentInv, Count
<1> QED BY <1>1, <1>2, <1>3, <1>4 DEF SentInv, Count

LEMMA AnswerFrame ==
  ASSUME AnswerInv, UNCHANGED <<mode, received>>, broker'.in = broker.in,
         Elems(outboundMsgs') = Elems(outboundMsgs),
         \A q \in Elems(toClient') : q.t \in Answers => q \in Elems(toClient),
         link' \/ ~mode.clean => link \/ ~mode.clean
  PROVE  AnswerInv'
<1> SUFFICES ASSUME Lossless' PROVE AnswerInv'
  BY DEF AnswerInv
<1>1. Lossless
  BY DEF Lossless
<1>2. "PUBCOMP" \in Answers
  BY DEF Answers
<1> QED BY <1>1, <1>2 DEF AnswerInv

\* What is no longer listed has arrived, or the session is over.
LEMMA TokenFrame ==
  ASSUME TokenInv, UNCHANGED <<mode, conn, confirmed>>, tokens' \subseteq tokens,
         pc' = "wait" => pc = "wait" /\ work' = work,
         Elems(received) \subseteq Elems(received'),
         connected' => connected,
         \A x \in Elems(outboundMsgs) :
           \/ \E y \in Elems(outboundMsgs') : y.id = x.id /\ y.m = x.m
           \/ x.m \in Elems(received')
           \/ mode.clean /\ ~connected'
  PROVE  TokenInv'
<1> SUFFICES ASSUME Lossless' PROVE TokenInv'
  BY DEF TokenInv
<1>1. Lossless
  BY DEF Lossless
<1>2. ASSUME NEW t, Known(t) PROVE Known(t)'
  <2>1. CASE t.m \in Elems(received)
    BY <2>1 DEF Known
  <2>2. CASE \E x \in Elems(outboundMsgs) : x.id = t.id /\ x.m = t.m
    BY <2>2 DEF Known
  <2>3. CASE mode.clean /\ (t.conn # conn \/ ~connected)
    BY <2>3 DEF Known
  <2> QED BY <1>2, <2>1, <2>2, <2>3 DEF Known
<1>3. CompletionTrue'
  BY <1>1 DEF TokenInv, CompletionTrue
<1>4. \A t \in tokens' : Known(t)' /\ t.conn <= conn'
  BY <1>1, <1>2 DEF TokenInv
<1>5. pc' = "wait" => Known(work)' /\ work'.conn <= conn'
  <2> SUFFICES ASSUME pc' = "wait" PROVE Known(work)' /\ work'.conn <= conn'
    OBVIOUS
  <2>1. Known(work) /\ work.conn <= conn /\ work' = work
    BY <1>1 DEF TokenInv
  <2> QED BY <1>2, <2>1 DEF Known
<1> QED BY <1>3, <1>4, <1>5 DEF TokenInv

LEMMA OfferFrame ==
  ASSUME OfferInv, UNCHANGED <<offered, messageQueue, calling, freed, releasing, delivered>>,
         broker'.out = broker.out, Elems(inboundMsgs') = Elems(inboundMsgs)
  PROVE  OfferInv'
  BY DEF OfferInv

LEMMA OnceFrame ==
  ASSUME OnceInv, UNCHANGED <<offered, messageQueue, calling, freed, releasing, delivered, torn>>,
         broker'.out = broker.out, Elems(inboundMsgs') = Elems(inboundMsgs),
         \A q \in Elems(toBroker') : q.t = "PUBCOMP" => q \in Elems(toBroker)
  PROVE  OnceInv'
<1> SUFFICES ASSUME ~torn' PROVE OnceInv'
  BY DEF OnceInv
<1>1. \A m : Handled(m)' <=> Handled(m)
  BY DEF Handled
<1>2. \A m \in DOMAIN offered' : offered'[m] = 2 =>
        Count(m, delivered') + Count(m, messageQueue')
          + (IF m = calling' /\ freed' THEN 1 ELSE 0) <= 1
  BY DEF OnceInv, Count
<1> QED BY <1>1, <1>2 DEF OnceInv, Count

LEMMA MirrorFrame ==
  ASSUME Mirror, UNCHANGED <<mode, store, messageQueue>>,
         Elems(outboundMsgs') = Elems(outboundMsgs), Elems(inboundMsgs') = Elems(inboundMsgs)
  PROVE  Mirror'
  BY DEF Mirror, EmptyStore
-----------------------------------------------------------------------------
(* The application's steps.                                                *)

LEMMA AppStep ==
  ASSUME SessionInv, UNCHANGED <<mode, client, store, net, peer, hist, conn, torn>>,
         AppType', TokenInv'
  PROVE  SessionInv'
<1>0. /\ UNCHANGED <<connected, msgID, outboundMsgs, inboundMsgs, messageQueue, calling, freed, releasing>>
      /\ UNCHANGED <<mode, store, link, toBroker, toClient, broker, offered>>
      /\ UNCHANGED <<received, delivered, published, sentQos, conn, torn>>
  BY DEF client, net, peer, hist
<1>1. Types'
  BY <1>0 DEF SessionInv, Types, ClientType, StoreType, NetType, PeerType
<1>2. Lists' /\ Mirror'
  BY <1>0, MirrorFrame DEF SessionInv, Lists
<1>3. Exchange(toBroker, toClient, outboundMsgs)' /\ Exchange(toClient, toBroker, broker.out)'
  BY <1>0 DEF SessionInv
<1>4. SentInv' /\ AnswerInv' /\ OfferInv' /\ OnceInv'
  BY <1>0, SentFrame, AnswerFrame, OfferFrame, OnceFrame DEF SessionInv
<1> QED BY <1>1, <1>2, <1>3, <1>4 DEF SessionInv

LEMMA PublishBeginStep ==
  ASSUME SessionInv, PublishBegin \/ PublishFails
  PROVE  SessionInv'
<1>1. /\ UNCHANGED <<mode, client, store, tokens, confirmed, net, peer, hist, conn, torn>>
      /\ pc' # "wait"
  BY DEF PublishBegin, PublishFails, count
<1>2. /\ UNCHANGED <<connected, outboundMsgs, received, published>>
  BY <1>1 DEF client, hist
<1>3. AppType'
  <2>0. tokens' \subseteq [m : Nat, id : Nat, conn : Nat] /\ published \in Nat
    BY <1>1 DEF SessionInv, Types, AppType, PeerType
  <2>1. CASE PublishBegin
    <3>1. PICK qos \in {1, 2} : work' = [NoWork EXCEPT !.m = published + 1, !.qos = qos]
      BY <2>1 DEF PublishBegin
    <3>2. work' = [m |-> published + 1, qos |-> qos, id |-> 0, conn |-> 0]
      BY <3>1 DEF NoWork
    <3>3. pc' = "publish"
      BY <2>1 DEF PublishBegin
    <3> QED BY <1>2, <2>0, <3>2, <3>3 DEF AppType
  <2>2. CASE PublishFails
    <3>1. pc' = "idle" /\ work' = [m |-> 0, qos |-> 0, id |-> 0, conn |-> 0]
      BY <2>2 DEF PublishFails, NoWork
    <3> QED BY <2>0, <3>1 DEF AppType
  <2> QED BY <2>1, <2>2
<1>4. TokenInv'
  BY <1>1, <1>2, TokenFrame DEF SessionInv
<1> QED BY <1>1, <1>3, <1>4, AppStep

LEMMA WaitBeginStep ==
  ASSUME SessionInv, WaitBegin
  PROVE  SessionInv'
<1>1. /\ UNCHANGED <<mode, client, store, tokens, confirmed, net, peer, hist, conn, torn>>
      /\ pc' = "wait"
  BY DEF WaitBegin, count
<1>2. UNCHANGED <<connected, outboundMsgs, received, published>>
  BY <1>1 DEF client, hist
<1>3. PICK t \in tokens : work' = [m |-> t.m, qos |-> 0, id |-> t.id, conn |-> t.conn]
  BY DEF WaitBegin
<1>4. t \in [m : Nat, id : Nat, conn : Nat] /\ tokens \subseteq [m : Nat, id : Nat, conn : Nat]
  BY DEF SessionInv, Types, AppType
<1>5. work'.m = t.m /\ work'.id = t.id /\ work'.conn = t.conn
  BY <1>3
<1>6. AppType'
  BY <1>1, <1>3, <1>4 DEF AppType
<1>7. TokenInv'
  <2> SUFFICES ASSUME Lossless' PROVE TokenInv'
    BY DEF TokenInv
  <2>1. Lossless
    BY <1>1 DEF Lossless
  <2>2. \A u \in tokens' : Known(u)' /\ u.conn <= conn'
    BY <1>1, <1>2, <2>1 DEF SessionInv, TokenInv, Known
  <2>3. Known(work)' /\ work'.conn <= conn'
    <3>1. Known(t)' /\ t.conn <= conn'
      BY <1>1, <2>2
    <3> QED BY <1>5, <3>1 DEF Known
  <2>4. CompletionTrue'
    BY <1>1, <1>2, <2>1 DEF SessionInv, TokenInv, CompletionTrue
  <2> QED BY <2>2, <2>3, <2>4 DEF TokenInv
<1> QED BY <1>1, <1>6, <1>7, AppStep

LEMMA WaitEndsStep ==
  ASSUME SessionInv, WaitEnds
  PROVE  SessionInv'
<1>1. /\ UNCHANGED <<mode, client, store, tokens, net, peer, hist, conn, torn>>
      /\ pc = "wait" /\ pc' = "idle" /\ work' = NoWork
  BY DEF WaitEnds
<1>2. UNCHANGED <<connected, outboundMsgs, received, published>>
  BY <1>1 DEF client, hist
<1>3. AppType'
  BY <1>1 DEF SessionInv, Types, AppType, NoWork
<1>4. TokenInv'
  <2> SUFFICES ASSUME Lossless' PROVE TokenInv'
    BY DEF TokenInv
  <2>1. Lossless
    BY <1>1 DEF Lossless
  <2>2. \A u \in tokens' : Known(u)' /\ u.conn <= conn'
    BY <1>1, <1>2, <2>1 DEF SessionInv, TokenInv, Known
  <2>3. CompletionTrue'
    <3>1. CASE WaitSucceeds /\ confirmed' = confirmed \cup {[m |-> work.m, current |-> work.conn = conn]}
      <4>1. Known(work) /\ connected /\ work.id \notin Ids(outboundMsgs)
        BY <1>1, <2>1, <3>1 DEF SessionInv, TokenInv, WaitSucceeds
      <4>2. outboundMsgs \in Seq(Entry)
        BY DEF SessionInv, Types, ClientType
      <4>3. \A x \in Elems(outboundMsgs) : x.id # work.id
        BY <4>1, <4>2, IdsElems
      <4>4. work.m \in Elems(received) \/ (mode.clean /\ work.conn # conn)
        BY <4>1, <4>3 DEF Known
      <4> DEFINE c == [m |-> work.m, current |-> work.conn = conn]
      <4>5. c.m = work.m /\ (c.current <=> work.conn = conn)
        OBVIOUS
      <4>6. c.m \in Elems(received) \/ (mode.clean /\ ~c.current)
        BY <4>4, <4>5
      <4> HIDE DEF c
      <4>7. confirmed' = confirmed \cup {c}
        BY <3>1 DEF c
      <4> QED BY <1>1, <1>2, <2>1, <4>6, <4>7 DEF SessionInv, TokenInv, CompletionTrue
    <3>2. CASE UNCHANGED confirmed
      BY <1>1, <1>2, <2>1, <3>2 DEF SessionInv, TokenInv, CompletionTrue
    <3> QED BY <3>1, <3>2 DEF WaitEnds
  <2> QED BY <1>1, <2>2, <2>3 DEF TokenInv
<1> QED BY <1>1, <1>3, <1>4, AppStep
-----------------------------------------------------------------------------
(* How often a publication is in a list.                                   *)

LEMMA CountIs ==
  ASSUME NEW S, NEW s \in Seq(S), NEW m
  PROVE  /\ IsFiniteSet({i \in DOMAIN s : s[i] = m}) /\ Count(m, s) \in Nat
         /\ Count(m, s) = 0 <=> m \notin Elems(s)
<1> DEFINE I == {i \in DOMAIN s : s[i] = m}
<1>1. IsFiniteSet(1 .. Len(s)) /\ DOMAIN s = 1 .. Len(s)
  BY FS_Interval
<1>2. I \in SUBSET (1 .. Len(s))
  BY <1>1
<1>3. IsFiniteSet(I)
  <2> HIDE DEF I
  <2> QED BY <1>1, <1>2, FS_Subset
<1>4. Cardinality(I) \in Nat /\ (Cardinality(I) = 0 <=> I = {})
  <2> HIDE DEF I
  <2> QED BY <1>3, FS_CardinalityType, FS_EmptySet
<1>5. I = {} <=> m \notin Elems(s)
  BY DEF Elems
<1> QED BY <1>3, <1>4, <1>5 DEF Count

LEMMA CountEmpty == \A m : Count(m, <<>>) = 0
<1> SUFFICES ASSUME NEW m PROVE Count(m, <<>>) = 0
  OBVIOUS
<1>1. <<>> \in Seq({})
  OBVIOUS
<1> QED BY <1>1, CountIs, ElemsEmpty

LEMMA CountAppend ==
  ASSUME NEW S, NEW s \in Seq(S), NEW x \in S, NEW m
  PROVE  Count(m, Append(s, x)) = Count(m, s) + (IF x = m THEN 1 ELSE 0)
<1> DEFINE I == {i \in DOMAIN s : s[i] = m}
           J == {i \in DOMAIN Append(s, x) : Append(s, x)[i] = m}
<1>1. /\ Len(s) \in Nat /\ DOMAIN s = 1 .. Len(s) /\ DOMAIN Append(s, x) = 1 .. Len(s) + 1
      /\ \A i \in 1 .. Len(s) : Append(s, x)[i] = s[i]
      /\ Append(s, x)[Len(s) + 1] = x
  OBVIOUS
<1>2. IsFiniteSet(I) /\ Cardinality(I) \in Nat
  BY CountIs DEF Count
<1>3. Len(s) + 1 \notin I
  BY <1>1
<1>4. CASE x = m
  <2>1. J = I \cup {Len(s) + 1}
    BY <1>1, <1>4
  <2>2. Cardinality(I \cup {Len(s) + 1}) = Cardinality(I) + 1
    <3> HIDE DEF I
    <3> QED BY <1>2, <1>3, FS_AddElement
  <2> QED BY <1>4, <2>1, <2>2 DEF Count
<1>5. CASE x # m
  <2>1. J = I
    BY <1>1, <1>5
  <2>2. Cardinality(I) + 0 = Cardinality(I)
    BY <1>2
  <2> QED BY <1>5, <2>1, <2>2 DEF Count
<1> QED BY <1>4, <1>5

LEMMA CountTail ==
  ASSUME NEW S, NEW s \in Seq(S), s # <<>>, NEW m
  PROVE  Count(m, s) = Count(m, Tail(s)) + (IF Head(s) = m THEN 1 ELSE 0)
<1> DEFINE I == {i \in DOMAIN s : s[i] = m}
           J == {i \in DOMAIN Tail(s) : Tail(s)[i] = m}
           K == I \ {1}
           f == [i \in J |-> i + 1]
<1>1. /\ Tail(s) \in Seq(S) /\ Head(s) = s[1] /\ Len(s) \in Nat /\ Len(s) > 0
      /\ DOMAIN s = 1 .. Len(s) /\ DOMAIN Tail(s) = 1 .. Len(s) - 1
      /\ \A i \in 1 .. Len(s) - 1 : Tail(s)[i] = s[i + 1]
  OBVIOUS
<1>2. IsFiniteSet(I) /\ Cardinality(I) \in Nat
  BY CountIs DEF Count
<1>3. IsFiniteSet(J) /\ Cardinality(J) \in Nat
  <2>1. Tail(s) \in Seq(S)
    BY <1>1
  <2> QED BY <2>1, CountIs DEF Count
<1>4. \A i \in J : i \in Nat /\ i + 1 \in K
  BY <1>1
<1>5. \A k \in K : k - 1 \in J /\ (k - 1) + 1 = k
  <2> SUFFICES ASSUME NEW k \in K PROVE k - 1 \in J /\ (k - 1) + 1 = k
    OBVIOUS
  <2>1. k \in 1 .. Len(s) /\ k # 1 /\ s[k] = m
    BY <1>1
  <2>2. k - 1 \in 1 .. Len(s) - 1 /\ (k - 1) + 1 = k
    BY <1>1, <2>1
  <2> QED BY <1>1, <2>1, <2>2
<1>6. 1 \in I <=> Head(s) = m
  BY <1>1
<1> HIDE DEF I, J, K
<1>7. f \in Bijection(J, K)
  <2>1. f \in [J -> K] /\ \A i, j \in J : f[i] = f[j] => i = j
    BY <1>4
  <2>2. \A k \in K : \E i \in J : f[i] = k
    BY <1>5
  <2> HIDE DEF f
  <2> QED BY <2>1, <2>2 DEF Bijection, Injection, Surjection, IsInjective
<1>8. Cardinality(K) = Cardinality(J)
  BY <1>3, <1>7, FS_Bijection DEF ExistsBijection
<1>9. Cardinality(K) = IF 1 \in I THEN Cardinality(I) - 1 ELSE Cardinality(I)
  BY <1>2, FS_RemoveElement DEF K
<1>10. Cardinality(I) = Cardinality(J) + (IF Head(s) = m THEN 1 ELSE 0)
  BY <1>2, <1>3, <1>6, <1>8, <1>9
<1> QED BY <1>10 DEF I, J, Count
-----------------------------------------------------------------------------
(* Ending and beginning a connection.                                      *)

\* cleanSession on the receiving side; the callback may be working on a message.
LEMMA CleanReceive ==
  ASSUME SessionInv, MQTTClient_cleanSession, releasing = NoMsg,
         UNCHANGED <<calling, releasing, offered, delivered, torn>>,
         Elems(broker'.out) \subseteq Elems(broker.out), toBroker' = <<>>
  PROVE  OfferInv' /\ OnceInv'
<1>1. /\ inboundMsgs' = <<>> /\ messageQueue' = <<>> /\ freed' = (freed \/ calling # 0)
  BY DEF MQTTClient_cleanSession
<1>2. Elems(inboundMsgs') = {} /\ Elems(messageQueue') = {} /\ Elems(toBroker') = {}
  BY <1>1, ElemsEmpty
<1>3. OfferInv'
  BY <1>1, <1>2 DEF SessionInv, OfferInv
<1>4. OnceInv'
  <2> SUFFICES ASSUME ~torn' PROVE OnceInv'
    BY DEF OnceInv
  <2>1. messageQueue \in Seq(Nat) /\ delivered \in Seq(Nat) /\ calling \in Nat /\ freed \in BOOLEAN
    BY DEF SessionInv, Types, ClientType, PeerType
  <2>2. calling # 0 /\ ~freed => messageQueue # <<>> /\ Head(messageQueue) = calling
    BY DEF SessionInv, OfferInv
  <2>3. calling # 0 /\ ~freed => calling \in Elems(messageQueue)
    BY <2>1, <2>2, ElemsTail
  <2>4. \A m : Handled(m)' => Handled(m)
    BY <1>1, <1>2, <2>3 DEF Handled
  <2>5. ASSUME NEW m \in DOMAIN offered', offered'[m] = 2
        PROVE  Count(m, delivered') + Count(m, messageQueue')
                 + (IF m = calling' /\ freed' THEN 1 ELSE 0) <= 1
    <3>1. /\ Count(m, delivered) + Count(m, messageQueue)
               + (IF m = calling /\ freed THEN 1 ELSE 0) <= 1
          /\ m \in Nat /\ m # 0
      BY <2>5 DEF SessionInv, OnceInv, Types, PeerType
    <3>2. Count(m, delivered) \in Nat /\ Count(m, messageQueue) \in Nat
      BY <2>1, CountIs
    <3>3. m \in Elems(messageQueue) => Count(m, messageQueue) # 0
      BY <2>1, CountIs
    <3>4. Count(m, messageQueue') = 0
      BY <1>1, CountEmpty
    <3>5. CASE m = calling /\ ~freed
      BY <1>1, <2>3, <3>1, <3>2, <3>3, <3>4, <3>5
    <3>6. CASE ~(m = calling /\ ~freed)
      BY <1>1, <2>1, <3>1, <3>2, <3>4, <3>6
    <3> QED BY <3>5, <3>6
  <2>6. \A y \in Elems(broker'.out) : y.qos = 2 /\ Handled(y.m)' => y.next = "PUBCOMP"
    BY <2>4 DEF SessionInv, OnceInv
  <2>7. \A y \in Elems(broker'.out) : y.qos = 2 /\ y.m = releasing'.m => y.next = "PUBCOMP"
    BY DEF SessionInv, OnceInv
  <2> QED BY <1>2, <2>5, <2>6, <2>7 DEF OnceInv
<1> QED BY <1>3, <1>4

LEMMA CleanLists ==
  ASSUME SessionInv, MQTTClient_cleanSession, UNCHANGED mode
  PROVE  /\ Unique(outboundMsgs') /\ Unique(inboundMsgs') /\ Mirror' /\ Waits(outboundMsgs')
         /\ outboundMsgs' = <<>> /\ Elems(outboundMsgs') = {}
         /\ outboundMsgs' \in Seq(Entry) /\ inboundMsgs' \in Seq(Inbound)
         /\ messageQueue' \in Seq(Nat) /\ msgID' \in 0 .. MAX_MSG_ID /\ freed' \in BOOLEAN
         /\ StoreType'
<1>1. /\ outboundMsgs' = <<>> /\ inboundMsgs' = <<>> /\ messageQueue' = <<>>
      /\ msgID' = 0 /\ store' = EmptyStore /\ freed' = (freed \/ calling # 0)
  BY DEF MQTTClient_cleanSession
<1>2. Elems(outboundMsgs') = {} /\ Elems(inboundMsgs') = {}
  BY <1>1, ElemsEmpty
<1>3. Unique(outboundMsgs') /\ Unique(inboundMsgs') /\ Waits(outboundMsgs')
  BY <1>1, <1>2 DEF Unique, Waits
<1>4. Mirror'
  BY <1>1, <1>2 DEF Mirror, EmptyStore
<1>5. StoreType'
  BY <1>1 DEF StoreType, EmptyStore
<1>6. msgID' \in 0 .. MAX_MSG_ID
  BY <1>1, WindowAssumption
<1> QED BY <1>1, <1>2, <1>3, <1>4, <1>5, <1>6

LEMMA NetDown ==
  ASSUME link' = FALSE, toBroker' = <<>>, toClient' = <<>>
  PROVE  NetType'
<1>1. <<>> \in Seq(Packet)
  OBVIOUS
<1> QED BY <1>1 DEF NetType

LEMMA CloseStep ==
  ASSUME SessionInv, MQTTClient_closeSession, releasing = NoMsg,
         UNCHANGED <<mode, app, peer, hist, conn, torn>>
  PROVE  SessionInv'
<1>1. /\ connected' = FALSE /\ link' = FALSE /\ toBroker' = <<>> /\ toClient' = <<>>
      /\ UNCHANGED <<calling, releasing>>
      /\ UNCHANGED <<pc, work, tokens, confirmed, broker, offered>>
      /\ UNCHANGED <<received, delivered, published, sentQos, mode, conn, torn>>
  BY DEF MQTTClient_closeSession, app, peer, hist
<1>2. Elems(toBroker') = {} /\ Elems(toClient') = {}
  BY <1>1, ElemsEmpty
<1>3. AppType' /\ NetType' /\ PeerType'
  <2>1. AppType'
    BY <1>1 DEF SessionInv, Types, AppType
  <2>2. PeerType'
    BY <1>1 DEF SessionInv, Types, PeerType
  <2> QED BY <1>1, <2>1, <2>2, NetDown
<1>4. Unique(broker'.out) /\ Waits(broker'.out)
  BY <1>1 DEF SessionInv, Exchange, Lists
<1>5. Exchange(toClient, toBroker, broker.out)'
  BY <1>1, <1>4, NothingOnTheWay
<1>6. CASE mode.clean
  <2>1. MQTTClient_cleanSession
    BY <1>6 DEF MQTTClient_closeSession
  <2>2. OfferInv' /\ OnceInv'
    BY <1>1, <2>1, CleanReceive
  <2>3. /\ Unique(outboundMsgs') /\ Unique(inboundMsgs') /\ Mirror' /\ Waits(outboundMsgs')
        /\ Elems(outboundMsgs') = {}
        /\ outboundMsgs' \in Seq(Entry) /\ inboundMsgs' \in Seq(Inbound)
        /\ messageQueue' \in Seq(Nat) /\ msgID' \in 0 .. MAX_MSG_ID /\ freed' \in BOOLEAN
        /\ StoreType'
    BY <1>1, <2>1, CleanLists
  <2>4. ClientType'
    BY <1>1, <2>3 DEF SessionInv, Types, ClientType
  <2>5. Exchange(toBroker, toClient, outboundMsgs)'
    BY <1>1, <2>3, NothingOnTheWay
  <2>6. SentInv'
    BY <1>1, <2>3, SentFrame DEF SessionInv
  <2>7. AnswerInv'
    BY <1>1, <1>2, <1>6, <2>3 DEF AnswerInv
  <2>8. TokenInv'
    BY <1>1, <1>6, <2>3, TokenFrame DEF SessionInv
  <2> QED BY <1>3, <1>4, <1>5, <2>2, <2>3, <2>4, <2>5, <2>6, <2>7, <2>8 DEF SessionInv, Types, Lists
<1>7. CASE ~mode.clean
  <2>1. UNCHANGED <<msgID, outboundMsgs, inboundMsgs, messageQueue, store, freed>>
    BY <1>7 DEF MQTTClient_closeSession
  <2>2. ClientType' /\ StoreType'
    BY <1>1, <2>1 DEF SessionInv, Types, ClientType, StoreType
  <2>3. Unique(outboundMsgs') /\ Waits(outboundMsgs') /\ Unique(inboundMsgs')
    BY <2>1 DEF SessionInv, Lists, Exchange
  <2>4. Exchange(toBroker, toClient, outboundMsgs)'
    BY <1>1, <2>3, NothingOnTheWay
  <2>5. Mirror' /\ SentInv' /\ AnswerInv' /\ OfferInv' /\ OnceInv'
    BY <1>1, <1>2, <1>7, <2>1, MirrorFrame, SentFrame, AnswerFrame, OfferFrame, OnceFrame DEF SessionInv
  <2>6. TokenInv'
    BY <1>1, <2>1, TokenFrame DEF SessionInv
  <2> QED BY <1>3, <1>4, <1>5, <2>2, <2>3, <2>4, <2>5, <2>6 DEF SessionInv, Types, Lists
<1> QED BY <1>6, <1>7

LEMMA CloseSteps ==
  ASSUME SessionInv, ConnectFails \/ MQTTClient_disconnect \/ ConnectionLost
  PROVE  SessionInv'
  BY CloseStep DEF ConnectFails, MQTTClient_disconnect, ConnectionLost, count

LEMMA BreakStep ==
  ASSUME SessionInv, BreakConnection
  PROVE  SessionInv'
<1>1. /\ link' = FALSE /\ toBroker' = <<>> /\ toClient' = <<>>
      /\ UNCHANGED <<connected, msgID, outboundMsgs, inboundMsgs, messageQueue, calling, freed, releasing>>
      /\ UNCHANGED <<pc, work, tokens, confirmed, broker, offered, store>>
      /\ UNCHANGED <<received, delivered, published, sentQos, mode, conn, torn>>
  BY DEF BreakConnection, client, app, peer, hist
<1>2. Elems(toBroker') = {} /\ Elems(toClient') = {}
  BY <1>1, ElemsEmpty
<1>3. Types'
  <2>1. ClientType' /\ StoreType'
    BY <1>1 DEF SessionInv, Types, ClientType, StoreType
  <2>2. AppType'
    BY <1>1 DEF SessionInv, Types, AppType
  <2>3. PeerType'
    BY <1>1 DEF SessionInv, Types, PeerType
  <2> QED BY <1>1, <2>1, <2>2, <2>3, NetDown DEF Types
<1>4. /\ Unique(outboundMsgs') /\ Waits(outboundMsgs') /\ Unique(broker'.out) /\ Waits(broker'.out)
      /\ Lists'
  BY <1>1 DEF SessionInv, Exchange, Lists
<1>5. Exchange(toClient, toBroker, broker.out)' /\ Exchange(toBroker, toClient, outboundMsgs)'
  BY <1>1, <1>4, NothingOnTheWay
<1>6. Mirror' /\ SentInv' /\ AnswerInv' /\ OfferInv' /\ OnceInv'
  BY <1>1, <1>2, MirrorFrame, SentFrame, AnswerFrame, OfferFrame, OnceFrame DEF SessionInv
<1>7. TokenInv'
  BY <1>1, TokenFrame DEF SessionInv
<1> QED BY <1>3, <1>4, <1>5, <1>6, <1>7 DEF SessionInv

LEMMA RetriesAre ==
  ASSUME NEW msgs \in Seq(Entry), NEW a, a = MQTTProtocol_retries(msgs) \/ a = BrokerRepeats(msgs)
  PROVE  /\ a \in Seq(Packet) /\ DOMAIN a = DOMAIN msgs
         /\ \A i \in DOMAIN msgs :
              /\ a[i].id = msgs[i].id
              /\ IF msgs[i].next = "PUBCOMP" THEN a[i].t = "PUBREL"
                 ELSE a[i].t = "PUBLISH" /\ a[i].m = msgs[i].m /\ a[i].qos = msgs[i].qos
         /\ \A q \in Elems(a) : q.t \notin Answers /\ q.t # "PUBCOMP"
<1>1. DOMAIN msgs = 1 .. Len(msgs) /\ Len(msgs) \in Nat /\ \A i \in 1 .. Len(msgs) : msgs[i] \in Entry
  OBVIOUS
<1>2. DOMAIN a = DOMAIN msgs /\ a = [i \in DOMAIN msgs |-> a[i]]
  BY DEF MQTTProtocol_retries, BrokerRepeats
<1>3. ASSUME NEW i \in DOMAIN msgs
      PROVE  \E dup \in BOOLEAN : a[i] =
               IF msgs[i].next = "PUBCOMP" THEN Pkt("PUBREL", msgs[i].id, 0, 0, dup)
               ELSE Pkt("PUBLISH", msgs[i].id, msgs[i].m, msgs[i].qos, TRUE)
  BY DupAssumption DEF MQTTProtocol_retries, BrokerRepeats
<1>4. ASSUME NEW i \in DOMAIN msgs
      PROVE  /\ a[i] \in Packet /\ a[i].id = msgs[i].id
             /\ IF msgs[i].next = "PUBCOMP" THEN a[i].t = "PUBREL"
                ELSE a[i].t = "PUBLISH" /\ a[i].m = msgs[i].m /\ a[i].qos = msgs[i].qos
  <2>1. PICK dup \in BOOLEAN : a[i] =
               IF msgs[i].next = "PUBCOMP" THEN Pkt("PUBREL", msgs[i].id, 0, 0, dup)
               ELSE Pkt("PUBLISH", msgs[i].id, msgs[i].m, msgs[i].qos, TRUE)
    BY <1>3
  <2>2. msgs[i].id \in Nat /\ msgs[i].m \in Nat /\ msgs[i].qos \in Nat
    BY <1>1 DEF Entry
  <2> QED BY <2>1, <2>2 DEF Pkt, Packet, PacketTypes
<1>5. a \in Seq(Packet)
  BY <1>1, <1>2, <1>4
<1>6. ASSUME NEW q \in Elems(a) PROVE q.t \notin Answers /\ q.t # "PUBCOMP"
  <2>1. PICK i \in DOMAIN msgs : q = a[i]
    BY <1>2 DEF Elems
  <2> QED BY <1>4, <2>1 DEF Answers
<1> QED BY <1>2, <1>4, <1>5, <1>6

LEMMA ConnectStep ==
  ASSUME SessionInv, MQTTClient_connect
  PROVE  SessionInv'
<1>1. /\ connected' = TRUE /\ link' = TRUE /\ conn' = conn + 1 /\ pc = "idle" /\ releasing = NoMsg
      /\ UNCHANGED <<mode, calling, releasing, pc, work, tokens, confirmed, offered>>
      /\ UNCHANGED <<received, delivered, published, sentQos, torn>>
  BY DEF MQTTClient_connect, app, hist
<1>2. /\ conn \in Nat /\ outboundMsgs \in Seq(Entry) /\ broker.out \in Seq(Entry)
      /\ tokens \subseteq [m : Nat, id : Nat, conn : Nat]
      /\ Unique(outboundMsgs) /\ Waits(outboundMsgs) /\ Unique(broker.out) /\ Waits(broker.out)
  BY DEF SessionInv, Types, PeerType, ClientType, AppType, Exchange
<1>3. AppType'
  BY <1>1 DEF SessionInv, Types, AppType
<1>4. TokenInv' <=> (Lossless' => (\A t \in tokens' : Known(t)' /\ t.conn <= conn') /\ CompletionTrue')
  BY <1>1 DEF TokenInv
<1>5. Lossless' => Lossless /\ CompletionTrue'
  BY <1>1 DEF SessionInv, TokenInv, CompletionTrue, Lossless
<1>6. CASE mode.clean
  <2>1. /\ MQTTClient_cleanSession /\ broker' = NoSession /\ toBroker' = <<>> /\ toClient' = <<>>
    BY <1>6 DEF MQTTClient_connect
  <2>2. /\ Unique(outboundMsgs') /\ Unique(inboundMsgs') /\ Mirror' /\ Waits(outboundMsgs')
        /\ outboundMsgs' = <<>> /\ Elems(outboundMsgs') = {}
        /\ outboundMsgs' \in Seq(Entry) /\ inboundMsgs' \in Seq(Inbound)
        /\ messageQueue' \in Seq(Nat) /\ msgID' \in 0 .. MAX_MSG_ID /\ freed' \in BOOLEAN
        /\ StoreType'
    BY <1>1, <2>1, CleanLists
  <2>3. broker'.out = <<>> /\ broker'.in = {} /\ broker' \in [in : SUBSET Nat, out : Seq(Entry)]
    BY <2>1 DEF NoSession
  <2>4. Elems(broker'.out) = {} /\ Elems(toClient') = {} /\ Unique(broker'.out) /\ Waits(broker'.out)
    BY <2>1, <2>3, ElemsEmpty DEF Unique, Waits
  <2>5. OfferInv' /\ OnceInv'
    BY <1>1, <2>1, <2>4, CleanReceive
  <2>6. ClientType'
    BY <1>1, <2>2 DEF SessionInv, Types, ClientType
  <2>7. NetType'
    <3>1. <<>> \in Seq(Packet)
      OBVIOUS
    <3> QED BY <1>1, <2>1, <3>1 DEF NetType
  <2>8. PeerType'
    BY <1>1, <1>2, <2>3 DEF SessionInv, Types, PeerType
  <2>9. Exchange(toBroker, toClient, outboundMsgs)' /\ Exchange(toClient, toBroker, broker.out)'
    BY <2>1, <2>2, <2>4, NothingOnTheWay
  <2>10. SentInv'
    BY <1>1, <2>2 DEF SessionInv, SentInv, Count
  <2>11. AnswerInv'
    BY <2>2, <2>3, <2>4 DEF AnswerInv
  <2>12. \A t \in tokens' : Known(t)' /\ t.conn <= conn'
    <3> SUFFICES ASSUME NEW t \in tokens', Lossless PROVE Known(t)' /\ t.conn <= conn'
      BY <1>1, <1>6 DEF Lossless
    <3>1. t.conn \in Nat /\ t.conn <= conn
      BY <1>1, <1>2 DEF SessionInv, TokenInv
    <3> QED BY <1>1, <1>2, <1>6, <3>1 DEF Known
  <2>13. TokenInv'
    BY <1>4, <1>5, <2>12
  <2> QED BY <1>3, <2>2, <2>4, <2>5, <2>6, <2>7, <2>8, <2>9, <2>10, <2>11, <2>13
          DEF SessionInv, Types, Lists
<1>7. CASE ~mode.clean
  <2>1. /\ toBroker' = MQTTProtocol_retries(outboundMsgs) /\ toClient' = BrokerRepeats(broker.out)
        /\ UNCHANGED <<msgID, outboundMsgs, inboundMsgs, messageQueue, store, freed, broker>>
    BY <1>7 DEF MQTTClient_connect
  <2>2. /\ toBroker' \in Seq(Packet) /\ DOMAIN toBroker' = DOMAIN outboundMsgs
        /\ \A i \in DOMAIN outboundMsgs :
             /\ toBroker'[i].id = outboundMsgs[i].id
             /\ IF outboundMsgs[i].next = "PUBCOMP" THEN toBroker'[i].t = "PUBREL"
                ELSE toBroker'[i].t = "PUBLISH" /\ toBroker'[i].m = outboundMsgs[i].m
                     /\ toBroker'[i].qos = outboundMsgs[i].qos
        /\ \A q \in Elems(toBroker') : q.t \notin Answers /\ q.t # "PUBCOMP"
    BY <1>2, <2>1, RetriesAre
  <2>3. /\ toClient' \in Seq(Packet) /\ DOMAIN toClient' = DOMAIN broker.out
        /\ \A i \in DOMAIN broker.out :
             /\ toClient'[i].id = broker.out[i].id
             /\ IF broker.out[i].next = "PUBCOMP" THEN toClient'[i].t = "PUBREL"
                ELSE toClient'[i].t = "PUBLISH" /\ toClient'[i].m = broker.out[i].m
                     /\ toClient'[i].qos = broker.out[i].qos
        /\ \A q \in Elems(toClient') : q.t \notin Answers /\ q.t # "PUBCOMP"
    BY <1>2, <2>1, RetriesAre
  <2>4. Exchange(toBroker', toClient', outboundMsgs)
    BY <1>2, <2>2, <2>3, Repeated
  <2>5. Exchange(toClient', toBroker', broker.out)
    BY <1>2, <2>2, <2>3, Repeated
  <2>6. Exchange(toBroker, toClient, outboundMsgs)' /\ Exchange(toClient, toBroker, broker.out)'
    BY <2>1, <2>4, <2>5
  <2>7. ClientType' /\ StoreType'
    BY <1>1, <2>1 DEF SessionInv, Types, ClientType, StoreType
  <2>8. NetType'
    BY <1>1, <2>2, <2>3 DEF NetType
  <2>9. PeerType'
    BY <1>1, <1>2, <2>1 DEF SessionInv, Types, PeerType
  <2>10. Lists' /\ Mirror' /\ SentInv' /\ OfferInv'
    BY <1>1, <2>1, MirrorFrame, SentFrame, OfferFrame DEF SessionInv, Lists
  <2>11. OnceInv'
    BY <1>1, <2>1, <2>2, OnceFrame DEF SessionInv
  <2>12. AnswerInv'
    BY <1>1, <1>7, <2>1, <2>3, AnswerFrame DEF SessionInv
  <2>13. Lossless => \A t \in tokens' : Known(t)' /\ t.conn <= conn'
    <3> SUFFICES ASSUME NEW t \in tokens', Lossless PROVE Known(t)' /\ t.conn <= conn'
      OBVIOUS
    <3>1. t.conn \in Nat /\ t.conn <= conn /\ Known(t)
      BY <1>1, <1>2 DEF SessionInv, TokenInv
    <3> QED BY <1>1, <1>2, <1>7, <2>1, <3>1 DEF Known
  <2>14. TokenInv'
    BY <1>4, <1>5, <2>13
  <2> QED BY <1>3, <2>6, <2>7, <2>8, <2>9, <2>10, <2>11, <2>12, <2>14 DEF SessionInv, Types
<1> QED BY <1>6, <1>7
-----------------------------------------------------------------------------
(* startPublish.                                                           *)

LEMMA AssignedIsFree ==
  ASSUME msgID \in 0 .. MAX_MSG_ID, MQTTProtocol_assignMsgId # 0
  PROVE  MQTTProtocol_assignMsgId \in Id \ Ids(outboundMsgs)
<1> DEFINE free == ((1 .. MAX_MSG_ID) \ Ids(outboundMsgs)) \ {msgID}
           dist(i) == (i - msgID - 1) % MAX_MSG_ID
           T == {dist(i) : i \in free}
<1>1. MAX_MSG_ID \in Nat /\ MAX_MSG_ID > 0 /\ msgID \in Int
  BY WindowAssumption
<1>2. free # {} /\ MQTTProtocol_assignMsgId = CHOOSE i \in free : \A j \in free : dist(i) <= dist(j)
  BY DEF MQTTProtocol_assignMsgId
<1>3. \A i \in free : dist(i) \in Nat
  <2> SUFFICES ASSUME NEW i \in free PROVE dist(i) \in Nat
    OBVIOUS
  <2>1. i - msgID - 1 \in Int
    BY <1>1
  <2> QED BY <1>1, <2>1
<1> HIDE DEF dist
<1>4. T \subseteq Nat /\ T # {}
  BY <1>2, <1>3
<1>5. PICK d \in T : \A e \in T : d <= e
  <2> HIDE DEF T
  <2> QED BY <1>4, LeastNat
<1>6. \E i \in free : \A j \in free : dist(i) <= dist(j)
  BY <1>5
<1>7. MQTTProtocol_assignMsgId \in free
  <2> HIDE DEF free
  <2> QED BY <1>2, <1>6
<1> QED BY <1>7 DEF Id

\* What is published is new; the other publications are as they were.
LEMMA SentGrows ==
  ASSUME SessionInv, NEW x \in Entry, x.m = published + 1, published' = published + 1,
         sentQos' = Append(sentQos, x.qos), received' = received, broker' = broker,
         Elems(outboundMsgs') \subseteq Elems(outboundMsgs) \cup {x}
  PROVE  SentInv'
<1>1. /\ published \in Nat /\ sentQos \in Seq({1, 2}) /\ Len(sentQos) = published
      /\ received \in Seq(Nat)
  BY DEF SessionInv, Types, PeerType
<1>2. x.qos \in {1, 2}
  BY DEF Entry
<1>3. sentQos'[published + 1] = x.qos /\ \A m \in 1 .. published : sentQos'[m] = sentQos[m]
  BY <1>1, <1>2
<1>4. \A m \in 1 .. published : m \in 1 .. published' /\ m # published + 1
  BY <1>1
<1>5. published + 1 \in 1 .. published' /\ \A m \in 1 .. published' : m \in 1 .. published \/ m = published + 1
  BY <1>1
<1>6. Elems(received) \subseteq 1 .. published /\ published + 1 \notin Elems(received)
  BY <1>4 DEF SessionInv, SentInv
<1>7. Count(published + 1, received) = 0
  BY <1>1, <1>6, CountIs
<1>8. \A y \in Elems(outboundMsgs') : y.m \in 1 .. published' /\ sentQos'[y.m] = y.qos
  BY <1>3, <1>4, <1>5 DEF SessionInv, SentInv
<1>9. \A y, z \in Elems(outboundMsgs') : y.m = z.m => y = z
  BY <1>4 DEF SessionInv, SentInv
<1>10. Elems(received') \subseteq 1 .. published'
  BY <1>4, <1>6
<1>11. \A y \in Elems(outboundMsgs') :
         y.qos = 2 /\ y.m \in Elems(received') => y.id \in broker'.in \/ y.next = "PUBCOMP"
  BY <1>6 DEF SessionInv, SentInv
<1>12. \A m \in 1 .. published' : sentQos'[m] = 2 => Count(m, received') <= 1
  <2> SUFFICES ASSUME NEW m \in 1 .. published', sentQos'[m] = 2 PROVE Count(m, received') <= 1
    OBVIOUS
  <2>1. Count(m, received') = Count(m, received)
    BY DEF Count
  <2>2. CASE m \in 1 .. published
    BY <1>3, <2>1, <2>2 DEF SessionInv, SentInv
  <2>3. CASE m = published + 1
    BY <1>7, <2>1, <2>3
  <2> QED BY <1>5, <2>2, <2>3
<1> QED BY <1>8, <1>9, <1>10, <1>11, <1>12 DEF SentInv, Count

\* The store follows.
LEMMA PutMirror ==
  ASSUME SessionInv, NEW x \in Entry, x.id \notin Ids(outboundMsgs), x.next # "PUBCOMP",
         outboundMsgs' = Append(outboundMsgs, x), UNCHANGED <<mode, inboundMsgs, messageQueue>>,
         Persisted(PutSent(store, x.id, x.m, x.qos))
  PROVE  Mirror' /\ StoreType'
<1>1. outboundMsgs \in Seq(Entry) /\ StoreType
  BY DEF SessionInv, Types, ClientType
<1>2. Elems(outboundMsgs') = Elems(outboundMsgs) \cup {x}
  BY <1>1, ElemsAppend
<1>3. \A y \in Elems(outboundMsgs) : y.id # x.id
  BY <1>1, IdsElems
<1>4. CASE ~mode.persist
  BY <1>1, <1>4 DEF SessionInv, Mirror, StoreType, Persisted
<1>5. CASE mode.persist
  <2> DEFINE n == [id |-> x.id, m |-> x.m, qos |-> x.qos]
  <2>1. /\ store' = PutSent(store, x.id, x.m, x.qos)
        /\ store.sent = {[id |-> y.id, m |-> y.m, qos |-> y.qos] : y \in Elems(outboundMsgs)}
        /\ store.rel = {y.id : y \in {z \in Elems(outboundMsgs) : z.next = "PUBCOMP"}}
        /\ store.rcvd = Elems(inboundMsgs) /\ store.queue = messageQueue
    BY <1>5 DEF SessionInv, Mirror, Persisted
  <2>2. /\ store'.sent = {y \in store.sent : y.id # x.id} \cup {n}
        /\ store'.rel = store.rel /\ store'.rcvd = store.rcvd /\ store'.queue = store.queue
    BY <1>1, <2>1 DEF PutSent, StoreType
  <2>3. {y \in store.sent : y.id # x.id} = store.sent
    BY <1>3, <2>1
  <2>4. store'.sent = {[id |-> y.id, m |-> y.m, qos |-> y.qos] : y \in Elems(outboundMsgs')}
    BY <1>2, <2>1, <2>2, <2>3
  <2>5. store'.rel = {y.id : y \in {z \in Elems(outboundMsgs') : z.next = "PUBCOMP"}}
    BY <1>2, <2>1, <2>2
  <2>6. n \in Sent
    BY DEF Sent, Entry
  <2>7. StoreType'
    BY <1>1, <2>1, <2>6 DEF StoreType, PutSent
  <2> QED BY <1>5, <2>1, <2>2, <2>4, <2>5, <2>7 DEF Mirror
<1> QED BY <1>4, <1>5

LEMMA PublishStep ==
  ASSUME SessionInv, Publish
  PROVE  SessionInv'
<1> DEFINE id == MQTTProtocol_assignMsgId
           x == [id |-> id, m |-> work.m, qos |-> work.qos,
                 next |-> IF work.qos = 2 THEN "PUBREC" ELSE "PUBACK"]
           p == Pkt("PUBLISH", id, work.m, work.qos, FALSE)
           tok == [m |-> work.m, id |-> id, conn |-> conn]
<1>1. /\ pc = "publish" /\ connected /\ releasing = NoMsg /\ id # 0
      /\ tokens' = tokens \cup {tok} /\ work' = NoWork /\ pc' = "idle"
      /\ published' = work.m /\ sentQos' = Append(sentQos, work.qos)
      /\ UNCHANGED <<mode, confirmed, broker, offered, received, delivered, conn, torn, calling, releasing>>
  BY DEF Publish, peer
<1>2. /\ work \in [m : Nat, qos : {0, 1, 2}, id : Nat, conn : Nat] /\ work.qos # 0
      /\ work.m = published + 1 /\ published \in Nat /\ conn \in Nat
      /\ msgID \in 0 .. MAX_MSG_ID /\ outboundMsgs \in Seq(Entry) /\ broker.out \in Seq(Entry)
      /\ toBroker \in Seq(Packet) /\ toClient \in Seq(Packet)
  BY <1>1 DEF SessionInv, Types, AppType, PeerType, ClientType, NetType
<1>3. id \in Id \ Ids(outboundMsgs)
  BY <1>1, <1>2, AssignedIsFree
<1>4. id \in Nat /\ id \in 0 .. MAX_MSG_ID
  BY <1>3 DEF Id
<1> HIDE DEF id
<1>5. /\ x \in Entry /\ x.id = id /\ x.m = work.m /\ x.qos = work.qos /\ x.next # "PUBCOMP"
      /\ x.next \in IF x.qos = 2 THEN {"PUBREC", "PUBCOMP"} ELSE {"PUBACK"}
  BY <1>2, <1>4 DEF Entry
<1>6. /\ p \in Packet /\ p.id = id /\ p.m = work.m /\ p.qos = work.qos /\ p.t = "PUBLISH"
  BY <1>2, <1>4 DEF Packet, Pkt, PacketTypes
<1>0. PICK t0 : t0 = tok
  OBVIOUS
<1>7. /\ t0 \in [m : Nat, id : Nat, conn : Nat] /\ t0.m = work.m /\ t0.id = id /\ t0.conn = conn
      /\ tokens' = tokens \cup {t0}
  BY <1>0, <1>1, <1>2, <1>4
<1> HIDE DEF p, tok
<1>8. AppType'
  <2>1. work' = [m |-> 0, qos |-> 0, id |-> 0, conn |-> 0]
    BY <1>1 DEF NoWork
  <2> QED BY <1>1, <1>7, <2>1 DEF SessionInv, Types, AppType
<1>9. PeerType'
  <2>1. sentQos \in Seq({1, 2}) /\ work.qos \in {1, 2} /\ Len(sentQos) = published
    BY <1>2 DEF SessionInv, Types, PeerType
  <2>2. sentQos' \in Seq({1, 2}) /\ Len(sentQos') = published'
    BY <1>1, <1>2, <2>1
  <2> QED BY <1>1, <1>2, <2>2 DEF SessionInv, Types, PeerType
\* The tokens, given what becomes of the list.
<1>10. ASSUME connected' => connected,
              \/ mode.clean /\ ~connected'
              \/ outboundMsgs' = Append(outboundMsgs, x)
       PROVE  TokenInv'
  <2> SUFFICES ASSUME Lossless' PROVE TokenInv'
    BY DEF TokenInv
  <2>1. Lossless
    BY <1>1 DEF Lossless
  <2>2. outboundMsgs' = Append(outboundMsgs, x) => Elems(outboundMsgs') = Elems(outboundMsgs) \cup {x}
    BY <1>2, <1>5, ElemsAppend
  <2>3. \A t \in tokens : Known(t)' /\ t.conn <= conn'
    BY <1>1, <1>10, <2>1, <2>2 DEF SessionInv, TokenInv, Known
  <2>4. Known(t0)' /\ t0.conn <= conn'
    BY <1>1, <1>2, <1>5, <1>7, <1>10, <2>2, SMTT(30) DEF Known
  <2>5. CompletionTrue'
    BY <1>1, <2>1 DEF SessionInv, TokenInv, CompletionTrue
  <2> QED BY <1>1, <1>7, <2>3, <2>4, <2>5 DEF TokenInv
\* What holds whenever the publication is listed.
<1>11. ASSUME outboundMsgs' = Append(outboundMsgs, x), msgID' = id,
              Persisted(PutSent(store, id, work.m, work.qos)),
              UNCHANGED <<inboundMsgs, messageQueue, freed>>
       PROVE  /\ Mirror' /\ StoreType' /\ Lists' /\ SentInv' /\ outboundMsgs' \in Seq(Entry)
              /\ Elems(outboundMsgs') = Elems(outboundMsgs) \cup {x}
              /\ Exchange(toBroker, toClient, outboundMsgs') /\ Quiet(toBroker, toClient, id)
              /\ msgID' \in 0 .. MAX_MSG_ID
  <2>1. Mirror' /\ StoreType'
    BY <1>1, <1>3, <1>5, <1>11, PutMirror
  <2>2. Elems(outboundMsgs') = Elems(outboundMsgs) \cup {x} /\ outboundMsgs' \in Seq(Entry)
    BY <1>2, <1>5, <1>11, ElemsAppend
  <2>3. Exchange(toBroker, toClient, Append(outboundMsgs, x)) /\ Quiet(toBroker, toClient, x.id)
    BY <1>2, <1>3, <1>5, ListGrows DEF SessionInv
  <2>4. Lists'
    BY <1>1, <1>11, <2>3 DEF SessionInv, Lists, Exchange
  <2>5. SentInv'
    BY <1>1, <1>2, <1>5, <2>2, SentGrows
  <2> QED BY <1>4, <1>5, <1>11, <2>1, <2>2, <2>3, <2>4, <2>5
<1> HIDE DEF x
<1>12. CASE /\ toBroker' = IF link THEN Append(toBroker, p) ELSE toBroker
            /\ msgID' = id /\ outboundMsgs' = Append(outboundMsgs, x)
            /\ Persisted(PutSent(store, id, work.m, work.qos))
            /\ UNCHANGED <<connected, inboundMsgs, messageQueue, calling, freed, releasing, link, toClient>>
  <2>1. /\ Mirror' /\ StoreType' /\ Lists' /\ SentInv' /\ outboundMsgs' \in Seq(Entry)
        /\ Elems(outboundMsgs') = Elems(outboundMsgs) \cup {x}
        /\ Exchange(toBroker, toClient, outboundMsgs') /\ Quiet(toBroker, toClient, id)
        /\ msgID' \in 0 .. MAX_MSG_ID
    BY <1>11, <1>12
  <2>2. TokenInv'
    BY <1>10, <1>12
  <2>3. ClientType'
    BY <1>12, <2>1 DEF SessionInv, Types, ClientType
  <2>4. Append(toBroker, p) \in Seq(Packet) /\ Elems(Append(toBroker, p)) = Elems(toBroker) \cup {p}
    BY <1>2, <1>6, ElemsAppend
  <2>5. NetType'
    BY <1>12, <2>4 DEF SessionInv, Types, NetType
  <2>6. Exchange(toBroker', toClient', outboundMsgs')
    <3>1. Exchange(Append(toBroker, p), toClient, outboundMsgs')
      <4>1. \E y \in Elems(outboundMsgs') : y.id = p.id /\ y.m = p.m /\ y.qos = p.qos /\ y.next # "PUBCOMP"
        BY <1>5, <1>6, <2>1
      <4> QED BY <1>2, <1>6, <2>1, <4>1, AddRequest
    <3> QED BY <1>12, <2>1, <3>1
  <2>7. Exchange(toClient', toBroker', broker'.out)
    <3>1. p.t \notin Answers
      BY <1>6 DEF Answers
    <3>2. Exchange(toClient, Append(toBroker, p), broker.out)
      BY <1>2, <1>6, <3>1, AddOther DEF SessionInv
    <3> QED BY <1>1, <1>12, <3>2 DEF SessionInv
  <2>8. OfferInv'
    BY <1>1, <1>12, OfferFrame DEF SessionInv
  <2>9. \A q \in Elems(toBroker') : q.t = "PUBCOMP" => q \in Elems(toBroker)
    BY <1>6, <1>12, <2>4
  <2>10. OnceInv'
    BY <1>1, <1>12, <2>9, OnceFrame DEF SessionInv
  <2>11. AnswerInv'
    BY <1>1, <1>5, <1>12, <2>1 DEF SessionInv, AnswerInv, Lossless
  <2> QED BY <1>8, <1>9, <2>1, <2>2, <2>3, <2>5, <2>6, <2>7, <2>8, <2>10, <2>11 DEF SessionInv, Types
<1>13. CASE /\ connected' = FALSE /\ link' = FALSE /\ toBroker' = <<>> /\ toClient' = <<>>
            /\ UNCHANGED <<calling, releasing>>
            /\ IF mode.clean THEN MQTTClient_cleanSession
               ELSE /\ msgID' = id /\ outboundMsgs' = Append(outboundMsgs, x)
                    /\ Persisted(PutSent(store, id, work.m, work.qos))
                    /\ UNCHANGED <<inboundMsgs, messageQueue, freed>>
  <2>1. NetType'
    BY <1>13, NetDown
  <2>2. Unique(broker'.out) /\ Waits(broker'.out)
    BY <1>1 DEF SessionInv, Exchange, Lists
  <2>3. Exchange(toClient, toBroker, broker.out)'
    BY <1>13, <2>2, NothingOnTheWay
  <2>4. Elems(toBroker') = {} /\ Elems(toClient') = {}
    BY <1>13, ElemsEmpty
  <2>5. CASE mode.clean
    <3>1. OfferInv' /\ OnceInv'
      BY <1>1, <1>13, <2>5, CleanReceive
    <3>2. /\ Unique(outboundMsgs') /\ Unique(inboundMsgs') /\ Mirror' /\ Waits(outboundMsgs')
          /\ outboundMsgs' = <<>> /\ Elems(outboundMsgs') = {}
          /\ outboundMsgs' \in Seq(Entry) /\ inboundMsgs' \in Seq(Inbound)
          /\ messageQueue' \in Seq(Nat) /\ msgID' \in 0 .. MAX_MSG_ID /\ freed' \in BOOLEAN
          /\ StoreType'
      BY <1>1, <1>13, <2>5, CleanLists
    <3>3. ClientType'
      BY <1>13, <3>2 DEF SessionInv, Types, ClientType
    <3>4. SentInv'
      BY <1>1, <1>2, <1>5, <3>2, SentGrows
    <3>5. AnswerInv'
      BY <1>1, <1>13, <2>4, <2>5, <3>2 DEF AnswerInv
    <3>6. TokenInv'
      BY <1>10, <1>13, <2>5
    <3>7. Exchange(toBroker, toClient, outboundMsgs)'
      BY <1>13, <3>2, NothingOnTheWay
    <3> QED BY <1>8, <1>9, <2>1, <2>2, <2>3, <3>1, <3>2, <3>3, <3>4, <3>5, <3>6, <3>7
            DEF SessionInv, Types, Lists
  <2>6. CASE ~mode.clean
    <3>1. /\ Mirror' /\ StoreType' /\ Lists' /\ SentInv' /\ outboundMsgs' \in Seq(Entry)
          /\ Elems(outboundMsgs') = Elems(outboundMsgs) \cup {x}
          /\ Exchange(toBroker, toClient, outboundMsgs') /\ Quiet(toBroker, toClient, id)
          /\ msgID' \in 0 .. MAX_MSG_ID /\ UNCHANGED <<inboundMsgs, messageQueue, freed>>
      BY <1>11, <1>13, <2>6
    <3>2. TokenInv'
      BY <1>1, <1>10, <1>13, <2>6
    <3>3. ClientType'
      BY <1>13, <3>1 DEF SessionInv, Types, ClientType
    <3>4. Exchange(toBroker, toClient, outboundMsgs)'
      BY <1>13, <3>1, NothingOnTheWay DEF Exchange
    <3>5. OfferInv' /\ OnceInv'
      BY <1>1, <1>13, <2>4, <3>1, OfferFrame, OnceFrame DEF SessionInv
    <3>6. AnswerInv'
      BY <1>1, <1>5, <1>13, <2>4, <2>6, <3>1 DEF SessionInv, AnswerInv, Lossless
    <3> QED BY <1>8, <1>9, <2>1, <2>3, <3>1, <3>2, <3>3, <3>4, <3>5, <3>6 DEF SessionInv, Types
  <2> QED BY <2>5, <2>6
<1> QED BY <1>12, <1>13 DEF Publish, id, x, p
-----------------------------------------------------------------------------
(* MQTTClient_cycle: one packet is taken off the connection.               *)

LEMMA TakeFacts ==
  ASSUME SessionInv, NEW t, Take(t)
  PROVE  /\ connected /\ link /\ calling = 0 /\ releasing = NoMsg /\ toClient # <<>>
         /\ Head(toClient).t = t /\ toClient' = Tail(toClient)
         /\ UNCHANGED <<mode, connected, msgID, calling, freed, pc, work, tokens, confirmed>>
         /\ UNCHANGED <<link, broker, offered, published, sentQos, received, delivered, conn, torn>>
  BY DEF Take, app, peer, count, SessionInv, Types, NetType

LEMMA TakeTypes ==
  ASSUME SessionInv, NEW t, Take(t)
  PROVE  /\ outboundMsgs \in Seq(Entry) /\ inboundMsgs \in Seq(Inbound) /\ messageQueue \in Seq(Nat)
         /\ broker.out \in Seq(Entry) /\ toBroker \in Seq(Packet) /\ toClient \in Seq(Packet)
         /\ Head(toClient) \in Packet /\ Head(toClient) \in Elems(toClient)
         /\ Tail(toClient) \in Seq(Packet) /\ Elems(Tail(toClient)) \subseteq Elems(toClient)
         /\ AppType' /\ PeerType'
<1>1. toClient \in Seq(Packet) /\ toClient # <<>>
  BY TakeFacts DEF SessionInv, Types, NetType
<1>2. Head(toClient) \in Elems(toClient) /\ Elems(Tail(toClient)) \subseteq Elems(toClient)
  BY <1>1, ElemsTail
<1>3. Head(toClient) \in Packet /\ Tail(toClient) \in Seq(Packet)
  BY <1>1
<1>4. AppType'
  BY TakeFacts DEF SessionInv, Types, AppType
<1>5. PeerType'
  BY TakeFacts DEF SessionInv, Types, PeerType
<1> QED BY <1>1, <1>2, <1>3, <1>4, <1>5 DEF SessionInv, Types, ClientType, NetType, PeerType

\* Both directions without the packet, and what its type tells.
LEMMA TakeExchange ==
  ASSUME SessionInv, NEW t, Take(t)
  PROVE  /\ Exchange(toBroker, Tail(toClient), outboundMsgs)
         /\ Exchange(Tail(toClient), toBroker, broker.out)
         /\ t \in Requests => Quiet(Tail(toClient), toBroker, Head(toClient).id)
         /\ t \in Answers => Quiet(toBroker, Tail(toClient), Head(toClient).id)
<1>1. Exchange(toBroker, toClient, outboundMsgs) /\ Exchange(toClient, toBroker, broker.out)
  BY DEF SessionInv
<1>2. toClient # <<>> /\ Head(toClient).t = t
  BY TakeFacts
<1>3. /\ Exchange(toBroker, Tail(toClient), outboundMsgs)
      /\ t \in Answers => Quiet(toBroker, Tail(toClient), Head(toClient).id)
  BY <1>1, <1>2, TakeTypes, DropAnswer DEF Quiet
<1>4. /\ Exchange(Tail(toClient), toBroker, broker.out)
      /\ t \in Requests => Quiet(Tail(toClient), toBroker, Head(toClient).id)
  BY <1>1, <1>2, TakeTypes, DropRequest DEF Quiet
<1> QED BY <1>3, <1>4

\* The answers to a publication of the broker.
LEMMA ReplyIs ==
  ASSUME NEW t \in PacketTypes, NEW id \in Nat
  PROVE  /\ Pkt(t, id, 0, 0, FALSE) \in Packet /\ Pkt(t, id, 0, 0, FALSE).t = t
         /\ Pkt(t, id, 0, 0, FALSE).id = id
  BY DEF Pkt, Packet

\* No publication has the number 0: an inbound message is never NoMsg.
LEMMA InboundIs ==
  ASSUME SessionInv
  PROVE  /\ \A x \in Elems(inboundMsgs) : x \in Inbound /\ x # NoMsg /\ x.m \in Nat /\ x.m # 0
         /\ \A y \in Elems(broker.out) : y \in Entry /\ y.m # 0
         /\ 0 \notin DOMAIN offered
<1>1. inboundMsgs \in Seq(Inbound) /\ broker.out \in Seq(Entry) /\ offered \in Seq({1, 2})
  BY DEF SessionInv, Types, ClientType, PeerType
<1>2. Elems(inboundMsgs) \subseteq Inbound /\ Elems(broker.out) \subseteq Entry
  BY <1>1, ElemsOf
<1>3. 0 \notin DOMAIN offered /\ DOMAIN offered \subseteq Nat
  BY <1>1
<1> QED BY <1>2, <1>3 DEF SessionInv, OfferInv, NoMsg

\* A packet of the broker's that is answered: both directions go on.
LEMMA AnsweredExchange ==
  ASSUME SessionInv, NEW t, Take(t), t \in Requests, NEW r \in Answers,
         toBroker' = Append(toBroker, Pkt(r, Head(toClient).id, 0, 0, FALSE)),
         UNCHANGED <<outboundMsgs>>,
         \E y \in Elems(broker.out) : y.id = Head(toClient).id /\ y.next = r
  PROVE  /\ Exchange(toBroker, toClient, outboundMsgs)' /\ Exchange(toClient, toBroker, broker.out)'
         /\ NetType'
         /\ Elems(toBroker') = Elems(toBroker) \cup {Pkt(r, Head(toClient).id, 0, 0, FALSE)}
<1>1. PICK q : q = Pkt(r, Head(toClient).id, 0, 0, FALSE)
  OBVIOUS
<1>2. q \in Packet /\ q.t = r /\ q.id = Head(toClient).id /\ r \notin Requests
  <2>1. r \in PacketTypes /\ r \notin Requests
    BY DEF Answers, PacketTypes, Requests
  <2>2. Head(toClient).id \in Nat
    BY TakeTypes DEF Packet
  <2> QED BY <1>1, <2>1, <2>2, ReplyIs
<1>3. toBroker' = Append(toBroker, q) /\ toClient' = Tail(toClient) /\ broker' = broker
  BY <1>1, TakeFacts
<1>4. Exchange(Append(toBroker, q), Tail(toClient), outboundMsgs)
  BY <1>2, TakeTypes, TakeExchange, AddOther
<1>5. Exchange(Tail(toClient), Append(toBroker, q), broker.out)
  BY <1>2, TakeTypes, TakeExchange, AddAnswer
<1>6. NetType'
  <2>1. Append(toBroker, q) \in Seq(Packet) /\ Tail(toClient) \in Seq(Packet)
    BY <1>2, TakeTypes
  <2>2. connected' = connected /\ link' = link /\ connected /\ link
    BY TakeFacts
  <2>3. link \in BOOLEAN
    BY DEF SessionInv, Types, NetType
  <2> QED BY <1>3, <2>1, <2>2, <2>3 DEF NetType
<1>7. Elems(Append(toBroker, q)) = Elems(toBroker) \cup {q}
  BY <1>2, TakeTypes, ElemsAppend
<1> QED BY <1>1, <1>3, <1>4, <1>5, <1>6, <1>7

\* The publication that a PUBLISH on its way to the client is about.
LEMMA PublishTaken ==
  ASSUME SessionInv, Take("PUBLISH")
  PROVE  \E y \in Elems(broker.out) :
           /\ y.id = Head(toClient).id /\ y.m = Head(toClient).m /\ y.qos = Head(toClient).qos
           /\ y.next = IF y.qos = 2 THEN "PUBREC" ELSE "PUBACK"
<1>0. Head(toClient) \in Elems(toClient) /\ Head(toClient).t = "PUBLISH"
  BY TakeFacts, TakeTypes
<1>1. PICK y \in Elems(broker.out) : /\ y.id = Head(toClient).id /\ y.m = Head(toClient).m
                                     /\ y.qos = Head(toClient).qos /\ y.next # "PUBCOMP"
  BY <1>0 DEF SessionInv, Exchange
<1>2. y.next \in IF y.qos = 2 THEN {"PUBREC", "PUBCOMP"} ELSE {"PUBACK"}
  BY DEF SessionInv, Exchange, Waits
<1> QED BY <1>1, <1>2

LEMMA StoreQueue ==
  ASSUME StoreType, NEW s \in Seq(Nat), store' = [store EXCEPT !.queue = s]
  PROVE  /\ store'.sent = store.sent /\ store'.rel = store.rel /\ store'.rcvd = store.rcvd
         /\ store'.queue = s /\ StoreType'
  BY DEF StoreType

\* QoS 1: answered, and not yet queued.
LEMMA AckStep ==
  ASSUME SessionInv, Take("PUBLISH"), Head(toClient).qos = 1,
         toBroker' = Append(toBroker, Pkt("PUBACK", Head(toClient).id, 0, 0, FALSE)),
         releasing' = [id |-> 0, m |-> Head(toClient).m],
         UNCHANGED <<inboundMsgs, outboundMsgs, messageQueue, store>>
  PROVE  SessionInv'
<1>1. PICK p : p = Head(toClient)
  OBVIOUS
<1>2. PICK y0 \in Elems(broker.out) :
        y0.id = p.id /\ y0.m = p.m /\ y0.qos = p.qos /\ y0.next = IF y0.qos = 2 THEN "PUBREC" ELSE "PUBACK"
  BY <1>1, PublishTaken
<1>3. p.qos = 1 /\ p.m \in Nat /\ releasing'.id = 0 /\ releasing'.m = p.m /\ releasing' \in Inbound
  BY <1>1, TakeTypes DEF Packet, Inbound
<1>5. /\ Exchange(toBroker, toClient, outboundMsgs)' /\ Exchange(toClient, toBroker, broker.out)'
      /\ NetType'
      /\ Elems(toBroker') = Elems(toBroker) \cup {Pkt("PUBACK", Head(toClient).id, 0, 0, FALSE)}
  <2>1. "PUBLISH" \in Requests /\ "PUBACK" \in Answers
    BY DEF Requests, Answers
  <2>2. y0.next = "PUBACK"
    BY <1>2, <1>3
  <2> QED BY <1>1, <1>2, <2>1, <2>2, AnsweredExchange
<1>6. p.m \in DOMAIN offered /\ offered[p.m] = 1
  BY <1>2, <1>3 DEF SessionInv, OfferInv
<1>7. ClientType' /\ StoreType' /\ AppType' /\ PeerType'
  <2>1. ClientType' /\ StoreType'
    BY <1>3, TakeFacts DEF SessionInv, Types, ClientType, StoreType
  <2> QED BY <2>1, TakeTypes
<1>8. Lists' /\ Mirror' /\ SentInv'
  BY TakeFacts, SentFrame, MirrorFrame DEF SessionInv, Lists
<1>9. AnswerInv' /\ TokenInv'
  <2>1. AnswerInv'
    BY TakeFacts, TakeTypes, AnswerFrame DEF SessionInv
  <2>2. TokenInv'
    BY TakeFacts, TokenFrame DEF SessionInv
  <2> QED BY <2>1, <2>2
<1>10. OfferInv'
  <2>1. /\ OfferInv /\ calling = 0
        /\ UNCHANGED <<offered, messageQueue, calling, freed, inboundMsgs, delivered, broker>>
    BY TakeFacts DEF SessionInv
  <2> QED BY <1>3, <1>6, <2>1 DEF OfferInv
<1>11. OnceInv'
  <2> SUFFICES ASSUME ~torn' PROVE OnceInv'
    BY DEF OnceInv
  <2>0. /\ OnceInv /\ OfferInv /\ ~torn /\ releasing = NoMsg
        /\ UNCHANGED <<broker, offered, delivered, messageQueue, calling, freed, inboundMsgs>>
    BY TakeFacts DEF SessionInv
  <2>1. \A m : Handled(m)' <=> Handled(m)
    BY <2>0 DEF Handled
  <2>2. \A y \in Elems(broker'.out) : y.qos = 2 /\ Handled(y.m)' => y.next = "PUBCOMP"
    BY <2>0, <2>1 DEF OnceInv
  <2>3. \A x \in Elems(inboundMsgs') : ~Handled(x.m)'
    BY <2>0, <2>1 DEF OnceInv
  <2>4. \A q \in Elems(toBroker') : q.t = "PUBCOMP" => q \in Elems(toBroker)
    <3>1. Pkt("PUBACK", Head(toClient).id, 0, 0, FALSE).t = "PUBACK"
      BY DEF Pkt
    <3> QED BY <1>5, <3>1
  <2>5. \A x \in Elems(inboundMsgs) : x # releasing
    BY <2>0, InboundIs
  <2>6. \A x \in Elems(inboundMsgs') : x # releasing' =>
          \E y \in Elems(broker'.out) : y.id = x.id /\ y.m = x.m
    BY <2>0, <2>5 DEF OnceInv
  <2>7. \A y \in Elems(broker'.out) : y.qos = 2 /\ y.m = releasing'.m => y.next = "PUBCOMP"
    BY <1>3, <1>6, <2>0 DEF OfferInv
  <2>8. \A q \in Elems(toBroker'), x \in Elems(inboundMsgs') :
          q.t = "PUBCOMP" /\ x # releasing' => x.id # q.id
    BY <2>0, <2>4, <2>5 DEF OnceInv
  <2>9. \A m \in DOMAIN offered' : offered'[m] = 2 =>
          Count(m, delivered') + Count(m, messageQueue')
            + (IF m = calling' /\ freed' THEN 1 ELSE 0) <= 1
    BY <2>0 DEF OnceInv
  <2>10. \A x, z \in Elems(inboundMsgs') : x.m = z.m => x = z
    BY <2>0 DEF OnceInv
  <2> QED BY <2>2, <2>3, <2>6, <2>7, <2>8, <2>9, <2>10 DEF OnceInv
<1> QED BY <1>5, <1>7, <1>8, <1>9, <1>10, <1>11 DEF SessionInv, Types

\* A QoS 2 publication is listed in the place of one with the same identifier.
Listed(msgs, x) ==
  IF x.id \in Ids(msgs) THEN [i \in DOMAIN msgs |-> IF msgs[i].id = x.id THEN x ELSE msgs[i]]
  ELSE Append(msgs, x)

LEMMA ListedElems ==
  ASSUME NEW msgs \in Seq(Inbound), NEW x \in Inbound, Unique(msgs)
  PROVE  /\ Listed(msgs, x) \in Seq(Inbound) /\ Unique(Listed(msgs, x))
         /\ Elems(Listed(msgs, x)) = {z \in Elems(msgs) : z.id # x.id} \cup {x}
<1>1. CASE x.id \notin Ids(msgs)
  <2>1. Listed(msgs, x) = Append(msgs, x)
    BY <1>1 DEF Listed
  <2>2. \A z \in Elems(msgs) : z.id # x.id
    BY <1>1, IdsElems
  <2>3. Append(msgs, x) \in Seq(Inbound) /\ Elems(Append(msgs, x)) = Elems(msgs) \cup {x}
    BY ElemsAppend
  <2>4. Unique(Append(msgs, x))
    BY <1>1, UniqueAppend
  <2> QED BY <2>1, <2>2, <2>3, <2>4
<1>2. CASE x.id \in Ids(msgs)
  <2>1. DOMAIN msgs = 1 .. Len(msgs) /\ Len(msgs) \in Nat /\ \A i \in 1 .. Len(msgs) : msgs[i] \in Inbound
    OBVIOUS
  <2>2. PICK w : w = [i \in 1 .. Len(msgs) |-> IF msgs[i].id = x.id THEN x ELSE msgs[i]]
    OBVIOUS
  <2>3. Listed(msgs, x) = w
    BY <1>2, <2>1, <2>2 DEF Listed
  <2>4. /\ DOMAIN w = 1 .. Len(msgs)
        /\ \A i \in 1 .. Len(msgs) : w[i] = (IF msgs[i].id = x.id THEN x ELSE msgs[i])
    BY <2>2
  <2>5. w \in Seq(Inbound)
    BY <2>1, <2>2
  <2>6. \A i \in 1 .. Len(msgs) : w[i].id = msgs[i].id
    BY <2>4
  <2>7. Unique(w)
    BY <2>1, <2>4, <2>6 DEF Unique
  <2>8. PICK k \in 1 .. Len(msgs) : msgs[k].id = x.id
    BY <1>2, <2>1 DEF Ids
  <2>9. x \in Elems(w)
    BY <2>4, <2>8 DEF Elems
  <2>10. \A z \in Elems(msgs) : z.id # x.id => z \in Elems(w)
    BY <2>1, <2>4 DEF Elems
  <2>11. \A z \in Elems(w) : z = x \/ (z \in Elems(msgs) /\ z.id # x.id)
    BY <2>1, <2>4 DEF Elems
  <2> QED BY <2>3, <2>5, <2>7, <2>9, <2>10, <2>11
<1> QED BY <1>1, <1>2

\* QoS 2: listed, and waiting for PUBREL.
LEMMA ListStep ==
  ASSUME SessionInv, Take("PUBLISH"), Head(toClient).qos = 2,
         toBroker' = Append(toBroker, Pkt("PUBREC", Head(toClient).id, 0, 0, FALSE)),
         NEW x \in Inbound, x.id = Head(toClient).id, x.m = Head(toClient).m,
         inboundMsgs' = Listed(inboundMsgs, x),
         Persisted([store EXCEPT !.rcvd = {z \in store.rcvd : z.id # x.id} \cup {x}]),
         UNCHANGED <<messageQueue, outboundMsgs, releasing>>
  PROVE  SessionInv'
<1>1. PICK p : p = Head(toClient)
  OBVIOUS
<1>2. PICK y0 \in Elems(broker.out) :
        y0.id = p.id /\ y0.m = p.m /\ y0.qos = p.qos /\ y0.next = IF y0.qos = 2 THEN "PUBREC" ELSE "PUBACK"
  BY <1>1, PublishTaken
<1>3. p.qos = 2 /\ y0.qos = 2 /\ y0.next = "PUBREC" /\ x.id = p.id /\ x.m = p.m
  BY <1>1, <1>2
<1>4. /\ inboundMsgs' \in Seq(Inbound) /\ Unique(inboundMsgs')
      /\ Elems(inboundMsgs') = {z \in Elems(inboundMsgs) : z.id # x.id} \cup {x}
  <2>1. inboundMsgs \in Seq(Inbound) /\ Unique(inboundMsgs)
    BY TakeTypes DEF SessionInv, Lists
  <2> QED BY <2>1, ListedElems
<1>5. /\ Exchange(toBroker, toClient, outboundMsgs)' /\ Exchange(toClient, toBroker, broker.out)'
      /\ NetType'
      /\ Elems(toBroker') = Elems(toBroker) \cup {Pkt("PUBREC", Head(toClient).id, 0, 0, FALSE)}
  <2>1. "PUBLISH" \in Requests /\ "PUBREC" \in Answers
    BY DEF Requests, Answers
  <2> QED BY <1>1, <1>2, <1>3, <2>1, AnsweredExchange
<1>6. p.m \in DOMAIN offered /\ offered[p.m] = 2
  BY <1>2, <1>3 DEF SessionInv, OfferInv
<1>7. ClientType' /\ AppType' /\ PeerType'
  <2>1. ClientType'
    BY <1>4, TakeFacts DEF SessionInv, Types, ClientType
  <2> QED BY <2>1, TakeTypes
<1>8. StoreType' /\ Mirror'
  <2>1. CASE ~mode.persist
    BY <2>1, TakeFacts DEF SessionInv, Types, StoreType, Mirror, Persisted
  <2>2. CASE mode.persist
    <3> DEFINE r == {z \in store.rcvd : z.id # x.id} \cup {x}
    <3>1. StoreType /\ store' = [store EXCEPT !.rcvd = r]
      BY <2>2 DEF SessionInv, Types, Persisted
    <3>2. r \subseteq Inbound
      BY <3>1 DEF StoreType
    <3>3. r = Elems(inboundMsgs')
      BY <1>4, <2>2 DEF SessionInv, Mirror
    <3> HIDE DEF r
    <3>4. /\ store'.sent = store.sent /\ store'.rel = store.rel /\ store'.rcvd = r
          /\ store'.queue = store.queue /\ StoreType'
      BY <3>1, <3>2 DEF StoreType
    <3> QED BY <2>2, <3>3, <3>4, TakeFacts DEF SessionInv, Mirror
  <2> QED BY <2>1, <2>2
<1>9. Lists' /\ SentInv' /\ AnswerInv' /\ TokenInv'
  <2>1. Lists' /\ SentInv'
    BY <1>4, TakeFacts, SentFrame DEF SessionInv, Lists
  <2>2. AnswerInv'
    BY TakeFacts, TakeTypes, AnswerFrame DEF SessionInv
  <2>3. TokenInv'
    BY TakeFacts, TokenFrame DEF SessionInv
  <2> QED BY <2>1, <2>2, <2>3
<1>10. OfferInv'
  BY <1>3, <1>4, <1>6, TakeFacts DEF SessionInv, OfferInv
<1>11. OnceInv'
  <2> SUFFICES ASSUME ~torn' PROVE OnceInv'
    BY DEF OnceInv
  <2>0. OnceInv /\ OfferInv /\ ~torn
    BY TakeFacts DEF SessionInv
  <2>1. \A m : Handled(m)' <=> Handled(m)
    BY TakeFacts DEF Handled
  <2>2. \A y \in Elems(broker'.out) : y.qos = 2 /\ Handled(y.m)' => y.next = "PUBCOMP"
    BY <2>0, <2>1, TakeFacts DEF OnceInv
  <2>3. \A z \in Elems(inboundMsgs') : ~Handled(z.m)'
    <3>1. ~Handled(x.m)
      BY <1>2, <1>3, <2>0 DEF OnceInv
    <3> QED BY <1>4, <2>0, <2>1, <3>1 DEF OnceInv
  <2>4. \A q \in Elems(toBroker') : q.t = "PUBCOMP" => q \in Elems(toBroker)
    <3>1. Pkt("PUBREC", Head(toClient).id, 0, 0, FALSE).t = "PUBREC"
      BY DEF Pkt
    <3> QED BY <1>5, <3>1
  \* What was listed is listed by the broker too, so with this number it has this identifier.
  <2>5. ASSUME NEW z \in Elems(inboundMsgs), z.id # x.id
        PROVE  z.m # x.m /\ \E y \in Elems(broker.out) : y.id = z.id /\ y.m = z.m
    <3>1. z # NoMsg
      BY InboundIs
    <3>2. z # releasing
      BY <3>1, TakeFacts
    <3>3. PICK y \in Elems(broker.out) : y.id = z.id /\ y.m = z.m
      BY <2>0, <3>2 DEF OnceInv
    <3> QED BY <1>2, <1>3, <2>0, <2>5, <3>3 DEF OfferInv
  <2>6. \A u, z \in Elems(inboundMsgs') : u.m = z.m => u = z
    BY <1>4, <2>0, <2>5 DEF OnceInv
  <2>7. \A z \in Elems(inboundMsgs') : z # releasing' =>
          \E y \in Elems(broker'.out) : y.id = z.id /\ y.m = z.m
    BY <1>2, <1>3, <1>4, <2>5, TakeFacts
  <2>8. \A y \in Elems(broker'.out) : y.qos = 2 /\ y.m = releasing'.m => y.next = "PUBCOMP"
    BY <2>0, TakeFacts DEF OnceInv
  <2>9. \A q \in Elems(toBroker'), z \in Elems(inboundMsgs') :
          q.t = "PUBCOMP" /\ z # releasing' => z.id # q.id
    <3>1. Quiet(Tail(toClient), toBroker, x.id)
      BY <1>1, <1>3, TakeExchange DEF Requests
    <3>2. \A q \in Elems(toBroker) : q.t = "PUBCOMP" => q.id # x.id
      BY <3>1 DEF Quiet, Answers
    <3> QED BY <1>4, <2>0, <2>4, <3>2 DEF OnceInv
  <2>10. \A m \in DOMAIN offered' : offered'[m] = 2 =>
           Count(m, delivered') + Count(m, messageQueue')
             + (IF m = calling' /\ freed' THEN 1 ELSE 0) <= 1
    BY <2>0, TakeFacts DEF OnceInv
  <2> QED BY <2>2, <2>3, <2>6, <2>7, <2>8, <2>9, <2>10 DEF OnceInv
<1> QED BY <1>5, <1>7, <1>8, <1>9, <1>10, <1>11 DEF SessionInv, Types

LEMMA HandlePublishStep ==
  ASSUME SessionInv, HandlePublish
  PROVE  SessionInv'
<1>1. Take("PUBLISH") /\ UNCHANGED <<outboundMsgs, messageQueue>>
  BY DEF HandlePublish
<1>2. CASE /\ Head(toClient).qos = 1 /\ Reply("PUBACK", Head(toClient).id)
           /\ releasing' = [id |-> 0, m |-> Head(toClient).m]
           /\ UNCHANGED <<inboundMsgs, store>>
  BY <1>1, <1>2, AckStep DEF Reply
<1>3. CASE /\ Head(toClient).qos = 2 /\ Reply("PUBREC", Head(toClient).id) /\ releasing' = NoMsg
           /\ inboundMsgs' = IF Head(toClient).id \in Ids(inboundMsgs)
                             THEN [i \in DOMAIN inboundMsgs |->
                                     IF inboundMsgs[i].id = Head(toClient).id
                                     THEN [id |-> Head(toClient).id, m |-> Head(toClient).m]
                                     ELSE inboundMsgs[i]]
                             ELSE Append(inboundMsgs, [id |-> Head(toClient).id, m |-> Head(toClient).m])
           /\ Persisted([store EXCEPT !.rcvd = {z \in @ : z.id # Head(toClient).id}
                                       \cup {[id |-> Head(toClient).id, m |-> Head(toClient).m]}])
  <2>1. PICK x : x = [id |-> Head(toClient).id, m |-> Head(toClient).m]
    OBVIOUS
  <2>2. Head(toClient) \in Packet
    BY <1>1, TakeTypes
  <2>3. x \in Inbound /\ x.id = Head(toClient).id /\ x.m = Head(toClient).m
    BY <2>1, <2>2 DEF Inbound, Packet
  <2>4. inboundMsgs' = Listed(inboundMsgs, x)
    BY <1>3, <2>1, <2>3 DEF Listed
  <2>5. Persisted([store EXCEPT !.rcvd = {z \in store.rcvd : z.id # x.id} \cup {x}])
    BY <1>3, <2>1, <2>3 DEF Persisted
  <2>6. UNCHANGED releasing
    BY <1>1, <1>3, TakeFacts
  <2> QED BY <1>1, <1>3, <2>3, <2>4, <2>5, <2>6, ListStep DEF Reply
<1> QED BY <1>2, <1>3 DEF HandlePublish
-----------------------------------------------------------------------------
(* The broker's answers.                                                   *)

\* The publication that an answer is about.
LEMMA AnswerTaken ==
  ASSUME SessionInv, NEW t \in Answers, Take(t)
  PROVE  \E x \in Elems(outboundMsgs) :
           /\ x.id = Head(toClient).id /\ x.next = t
           /\ Lossless => x.m \in Elems(received)
<1>1. Head(toClient) \in Elems(toClient) /\ Head(toClient).t = t
  BY TakeFacts, TakeTypes
<1>2. PICK x \in Elems(outboundMsgs) : x.id = Head(toClient).id /\ x.next = t
  BY <1>1 DEF SessionInv, Exchange
<1>3. CASE Lossless
  BY <1>1, <1>3 DEF SessionInv, AnswerInv
<1>4. CASE ~Lossless
  BY <1>2, <1>4
<1> QED BY <1>3, <1>4

\* Nothing the client receives about.
LEMMA ReceiveFrame ==
  ASSUME SessionInv, NEW t, Take(t), UNCHANGED <<inboundMsgs, messageQueue, releasing>>,
         \A q \in Elems(toBroker') : q.t = "PUBCOMP" => q \in Elems(toBroker)
  PROVE  OfferInv' /\ OnceInv'
  BY TakeFacts, OfferFrame, OnceFrame DEF SessionInv

\* The end of a flow, in the store.
LEMMA RemoveMirror ==
  ASSUME SessionInv, NEW id, outboundMsgs' = Without(outboundMsgs, id),
         UNCHANGED <<mode, inboundMsgs, messageQueue>>, Persisted(RemoveSent(store, id))
  PROVE  Mirror' /\ StoreType'
<1>1. outboundMsgs \in Seq(Entry) /\ StoreType /\ Unique(outboundMsgs)
  BY DEF SessionInv, Types, ClientType, Lists
<1>2. Elems(outboundMsgs') = {x \in Elems(outboundMsgs) : x.id # id}
  BY <1>1, WithoutElems
<1>4. CASE ~mode.persist
  BY <1>1, <1>4 DEF SessionInv, Mirror, StoreType, Persisted
<1>5. CASE mode.persist
  <2>1. /\ store' = RemoveSent(store, id)
        /\ store.sent = {[id |-> y.id, m |-> y.m, qos |-> y.qos] : y \in Elems(outboundMsgs)}
        /\ store.rel = {y.id : y \in {z \in Elems(outboundMsgs) : z.next = "PUBCOMP"}}
        /\ store.rcvd = Elems(inboundMsgs) /\ store.queue = messageQueue
    BY <1>5 DEF SessionInv, Mirror, Persisted
  <2>2. store = [sent |-> store.sent, rel |-> store.rel, rcvd |-> store.rcvd, queue |-> store.queue]
    BY <1>1 DEF StoreType
  <2>3. store' = [sent |-> {x \in store.sent : x.id # id}, rel |-> store.rel \ {id},
                  rcvd |-> store.rcvd, queue |-> store.queue]
    BY <2>1, <2>2 DEF RemoveSent
  <2>4. store'.sent = {[id |-> y.id, m |-> y.m, qos |-> y.qos] : y \in Elems(outboundMsgs')}
    BY <1>2, <2>1, <2>3
  <2>5. store'.rel = {y.id : y \in {z \in Elems(outboundMsgs') : z.next = "PUBCOMP"}}
    BY <1>2, <2>1, <2>3
  <2>6. StoreType'
    BY <1>1, <2>3 DEF StoreType
  <2> QED BY <1>5, <2>1, <2>3, <2>4, <2>5, <2>6 DEF Mirror
<1> QED BY <1>4, <1>5

\* handlePubacks, handlePubcomps.
LEMMA FlowEndsStep ==
  ASSUME SessionInv, NEW t \in {"PUBACK", "PUBCOMP"}, NEW qos, Take(t),
         FlowEnds(Head(toClient), qos)
  PROVE  SessionInv'
<1>1. PICK p : p = Head(toClient)
  OBVIOUS
<1>2. UNCHANGED <<inboundMsgs, messageQueue, releasing, toBroker>> /\ t \in Answers
  BY DEF FlowEnds, Answers
<1>3. AppType' /\ PeerType'
  BY TakeTypes
<1>4. OfferInv' /\ OnceInv'
  BY <1>2, ReceiveFrame
<1>5. NetType'
  <2>1. toClient' = Tail(toClient) /\ Tail(toClient) \in Seq(Packet) /\ UNCHANGED <<link, connected>> /\ link
    BY TakeFacts, TakeTypes
  <2> QED BY <1>2, <2>1 DEF SessionInv, Types, NetType
<1>6. Exchange(toClient, toBroker, broker.out)'
  BY <1>2, TakeFacts, TakeExchange
<1>7. CASE UNCHANGED <<outboundMsgs, store>>
  <2>1. ClientType' /\ StoreType'
    BY <1>2, <1>7, TakeFacts DEF SessionInv, Types, ClientType, StoreType
  <2>2. Lists' /\ Mirror' /\ SentInv'
    BY <1>2, <1>7, TakeFacts, SentFrame, MirrorFrame DEF SessionInv, Lists
  <2>3. AnswerInv'
    BY <1>7, TakeFacts, TakeTypes, AnswerFrame DEF SessionInv
  <2>4. TokenInv'
    BY <1>7, TakeFacts, TokenFrame DEF SessionInv
  <2>5. Exchange(toBroker, toClient, outboundMsgs)'
    BY <1>2, <1>7, TakeFacts, TakeExchange
  <2> QED BY <1>3, <1>4, <1>5, <1>6, <2>1, <2>2, <2>3, <2>4, <2>5 DEF SessionInv, Types
<1>8. CASE outboundMsgs' = Without(outboundMsgs, p.id) /\ Persisted(RemoveSent(store, p.id))
  <2>0. outboundMsgs \in Seq(Entry) /\ Unique(outboundMsgs)
    BY TakeTypes DEF SessionInv, Lists
  <2>1. /\ outboundMsgs' \in Seq(Entry) /\ Unique(outboundMsgs')
        /\ Elems(outboundMsgs') = {x \in Elems(outboundMsgs) : x.id # p.id}
    BY <1>8, <2>0, WithoutElems
  <2>2. StoreType' /\ Mirror'
    BY <1>2, <1>8, TakeFacts, RemoveMirror
  <2>3. ClientType'
    BY <1>2, <2>1, TakeFacts DEF SessionInv, Types, ClientType
  <2>4. Lists' /\ SentInv'
    BY <1>2, <2>1, TakeFacts, SentFrame DEF SessionInv, Lists
  <2>5. Quiet(toBroker, Tail(toClient), p.id)
    BY <1>1, <1>2, TakeExchange
  <2>6. Exchange(toBroker, toClient, outboundMsgs)'
    <3>1. Exchange(toBroker, Tail(toClient), Without(outboundMsgs, p.id))
      BY <2>0, <2>5, TakeTypes, TakeExchange, ListLoses
    <3> QED BY <1>2, <1>8, <3>1, TakeFacts
  <2>7. PICK x0 \in Elems(outboundMsgs) :
          x0.id = p.id /\ x0.next = t /\ (Lossless => x0.m \in Elems(received))
    BY <1>1, <1>2, AnswerTaken
  <2>8. \A x \in Elems(outboundMsgs) : x.id = p.id => x = x0
    BY <2>0, <2>7, UniqueElems
  <2>9. AnswerInv'
    <3> SUFFICES ASSUME Lossless' PROVE AnswerInv'
      BY DEF AnswerInv
    <3>0. AnswerInv /\ Lossless /\ link
      BY TakeFacts DEF SessionInv, Lossless
    <3>1. \A q \in Elems(toClient') : q \in Elems(toClient) /\ (q.t \in Answers => q.id # p.id)
      BY <2>5, TakeFacts, TakeTypes DEF Quiet
    <3>2. \A q \in Elems(toClient') : q.t \in Answers =>
            \E x \in Elems(outboundMsgs') : x.id = q.id /\ x.next = q.t /\ x.m \in Elems(received')
      <4> SUFFICES ASSUME NEW q \in Elems(toClient'), q.t \in Answers
                   PROVE  \E x \in Elems(outboundMsgs') :
                            x.id = q.id /\ x.next = q.t /\ x.m \in Elems(received')
        OBVIOUS
      <4>1. PICK x \in Elems(outboundMsgs) : x.id = q.id /\ x.next = q.t /\ x.m \in Elems(received)
        BY <3>0, <3>1 DEF AnswerInv
      <4>2. x \in Elems(outboundMsgs') /\ received' = received
        BY <2>1, <3>1, <4>1, TakeFacts
      <4> QED BY <4>1, <4>2
    <3>3. p.id \notin broker.in
      <4> SUFFICES ASSUME p.id \in broker.in PROVE FALSE
        OBVIOUS
      <4>1. PICK x \in Elems(outboundMsgs) : x.id = p.id /\ x.qos = 2
        BY <3>0 DEF AnswerInv
      <4>2. x0.qos = 2
        BY <2>8, <4>1
      <4>3. x0.next # "PUBACK"
        BY <4>2 DEF SessionInv, Exchange, Waits
      <4>4. p \in Elems(toClient) /\ p.t = t
        BY <1>1, TakeFacts, TakeTypes
      <4> QED BY <2>7, <3>0, <4>3, <4>4 DEF AnswerInv
    <3>4. \A id \in broker'.in : \E x \in Elems(outboundMsgs') :
            x.id = id /\ x.qos = 2 /\ x.m \in Elems(received')
      <4> SUFFICES ASSUME NEW id \in broker'.in
                   PROVE  \E x \in Elems(outboundMsgs') :
                            x.id = id /\ x.qos = 2 /\ x.m \in Elems(received')
        OBVIOUS
      <4>1. broker' = broker /\ received' = received
        BY TakeFacts
      <4>2. PICK x \in Elems(outboundMsgs) : x.id = id /\ x.qos = 2 /\ x.m \in Elems(received)
        BY <3>0, <4>1 DEF AnswerInv
      <4>3. x \in Elems(outboundMsgs')
        BY <2>1, <3>3, <4>1, <4>2
      <4> QED BY <4>1, <4>2, <4>3
    <3>5. \A q \in Elems(toClient') : q.t = "PUBCOMP" => q.id \notin broker'.in
      BY <3>0, <3>1, TakeFacts DEF AnswerInv
    <3>6. \A x \in Elems(outboundMsgs') : x.next = "PUBCOMP" => x.m \in Elems(received')
      BY <2>1, <3>0, TakeFacts DEF AnswerInv
    <3> QED BY <3>2, <3>4, <3>5, <3>6 DEF AnswerInv
  <2>10. TokenInv'
    <3>1. CASE ~Lossless
      BY <3>1, TakeFacts DEF TokenInv, Lossless
    <3>2. CASE Lossless
      BY <2>1, <2>7, <2>8, <3>2, TakeFacts, TokenFrame DEF SessionInv
    <3> QED BY <3>1, <3>2
  <2> QED BY <1>3, <1>4, <1>5, <1>6, <2>2, <2>3, <2>4, <2>6, <2>9, <2>10 DEF SessionInv, Types
<1> QED BY <1>1, <1>7, <1>8 DEF FlowEnds

LEMMA HandleFlowEndStep ==
  ASSUME SessionInv, HandlePuback \/ HandlePubcomp
  PROVE  SessionInv'
<1>1. CASE HandlePuback
  BY <1>1, FlowEndsStep DEF HandlePuback
<1>2. CASE HandlePubcomp
  BY <1>2, FlowEndsStep DEF HandlePubcomp
<1> QED BY <1>1, <1>2

\* handlePubrecs, in the store.
LEMMA ConfirmMirror ==
  ASSUME SessionInv, NEW id \in Nat, outboundMsgs' = Confirm(outboundMsgs, id),
         \E x \in Elems(outboundMsgs) : x.id = id,
         UNCHANGED <<mode, inboundMsgs, messageQueue>>,
         Persisted([store EXCEPT !.rel = store.rel \cup {id}])
  PROVE  Mirror' /\ StoreType'
<1>1. outboundMsgs \in Seq(Entry) /\ StoreType
  BY DEF SessionInv, Types, ClientType
<1>2. CASE ~mode.persist
  BY <1>1, <1>2 DEF SessionInv, Mirror, StoreType, Persisted
<1>3. CASE mode.persist
  <2>1. /\ store' = [store EXCEPT !.rel = store.rel \cup {id}]
        /\ store.sent = {[id |-> y.id, m |-> y.m, qos |-> y.qos] : y \in Elems(outboundMsgs)}
        /\ store.rel = {y.id : y \in {z \in Elems(outboundMsgs) : z.next = "PUBCOMP"}}
        /\ store.rcvd = Elems(inboundMsgs) /\ store.queue = messageQueue
    BY <1>3 DEF SessionInv, Mirror, Persisted
  <2>2. /\ store'.rel = store.rel \cup {id}
        /\ store'.sent = store.sent /\ store'.rcvd = store.rcvd /\ store'.queue = store.queue
        /\ StoreType'
    BY <1>1, <2>1 DEF StoreType
  <2>5. /\ \A x \in Elems(outboundMsgs) : \E y \in Elems(outboundMsgs') : ConfirmedAs(x, y, id)
        /\ \A y \in Elems(outboundMsgs') : \E x \in Elems(outboundMsgs) : ConfirmedAs(x, y, id)
    BY <1>1, ConfirmMap
  <2>7. store'.sent = {[id |-> y.id, m |-> y.m, qos |-> y.qos] : y \in Elems(outboundMsgs')}
    <3>1. \A n : n \in store.sent => \E y \in Elems(outboundMsgs') : n = [id |-> y.id, m |-> y.m, qos |-> y.qos]
      BY <2>1, <2>5 DEF ConfirmedAs
    <3>2. \A y \in Elems(outboundMsgs') : [id |-> y.id, m |-> y.m, qos |-> y.qos] \in store.sent
      <4> SUFFICES ASSUME NEW y \in Elems(outboundMsgs')
                   PROVE  [id |-> y.id, m |-> y.m, qos |-> y.qos] \in store.sent
        OBVIOUS
      <4>1. PICK x \in Elems(outboundMsgs) : ConfirmedAs(x, y, id)
        BY <2>5
      <4>2. [id |-> x.id, m |-> x.m, qos |-> x.qos] \in store.sent
        BY <2>1
      <4> QED BY <4>1, <4>2 DEF ConfirmedAs
    <3> QED BY <2>2, <3>1, <3>2
  <2>8. store'.rel = {y.id : y \in {z \in Elems(outboundMsgs') : z.next = "PUBCOMP"}}
    <3>1. \A i : i \in store'.rel => \E y \in Elems(outboundMsgs') : y.next = "PUBCOMP" /\ i = y.id
      BY <2>1, <2>2, <2>5 DEF ConfirmedAs
    <3>2. \A y \in Elems(outboundMsgs') : y.next = "PUBCOMP" => y.id \in store'.rel
      BY <2>1, <2>2, <2>5 DEF ConfirmedAs
    <3> QED BY <3>1, <3>2
  <2> QED BY <1>3, <2>1, <2>2, <2>7, <2>8 DEF Mirror
<1> QED BY <1>2, <1>3

\* handlePubrecs: the message is not sent again from now on; PUBREL is.
LEMMA ConfirmStep ==
  ASSUME SessionInv, Take("PUBREC"), NEW q \in Packet, q.t = "PUBREL", q.id = Head(toClient).id,
         toBroker' = Append(toBroker, q),
         Persisted([store EXCEPT !.rel = store.rel \cup {Head(toClient).id}]),
         outboundMsgs' = Confirm(outboundMsgs, Head(toClient).id),
         UNCHANGED <<inboundMsgs, messageQueue, releasing>>
  PROVE  SessionInv'
<1>1. PICK id : id = Head(toClient).id
  OBVIOUS
<1>2. "PUBREC" \in Answers /\ "PUBREC" \notin Requests /\ q.t \notin Answers /\ q.t \in Requests
  BY DEF Answers, Requests
<1>3. id \in Nat /\ outboundMsgs \in Seq(Entry) /\ Unique(outboundMsgs) /\ toBroker \in Seq(Packet)
  BY <1>1, TakeTypes DEF Packet, SessionInv, Lists
<1>4. outboundMsgs' = Confirm(outboundMsgs, id) /\ q.id = id
  BY <1>1
<1>5. PICK x0 \in Elems(outboundMsgs) :
        x0.id = id /\ x0.next = "PUBREC" /\ (Lossless => x0.m \in Elems(received))
  BY <1>1, <1>2, AnswerTaken
<1>6. \A x \in Elems(outboundMsgs) : x.id = id => x = x0
  BY <1>3, <1>5, UniqueElems
<1>7. x0.qos = 2
  BY <1>5 DEF SessionInv, Exchange, Waits
<1>8. /\ outboundMsgs' \in Seq(Entry) /\ Unique(outboundMsgs')
      /\ \A x \in Elems(outboundMsgs) : \E y \in Elems(outboundMsgs') : ConfirmedAs(x, y, id)
      /\ \A y \in Elems(outboundMsgs') : \E x \in Elems(outboundMsgs) : ConfirmedAs(x, y, id)
  BY <1>3, <1>4, ConfirmElems, ConfirmMap
<1>9. Mirror' /\ StoreType'
  <2>1. Persisted([store EXCEPT !.rel = store.rel \cup {id}])
    BY <1>1
  <2> QED BY <1>3, <1>4, <1>5, <2>1, TakeFacts, ConfirmMirror
<1>10. AppType' /\ PeerType' /\ ClientType'
  <2>1. ClientType'
    BY <1>8, TakeFacts DEF SessionInv, Types, ClientType
  <2> QED BY <2>1, TakeTypes
<1>11. Append(toBroker, q) \in Seq(Packet) /\ Elems(toBroker') = Elems(toBroker) \cup {q}
  BY <1>3, ElemsAppend
<1>12. NetType'
  <2>1. toClient' = Tail(toClient) /\ Tail(toClient) \in Seq(Packet) /\ UNCHANGED <<link, connected>> /\ link
    BY TakeFacts, TakeTypes
  <2> QED BY <1>11, <2>1 DEF SessionInv, Types, NetType
<1>13. OfferInv' /\ OnceInv'
  BY <1>11, ReceiveFrame
<1>14. Exchange(toClient, toBroker, broker.out)'
  <2>1. Exchange(Tail(toClient), Append(toBroker, q), broker.out)
    BY <1>2, TakeTypes, TakeExchange, AddOther
  <2> QED BY <2>1, TakeFacts
<1>15. Quiet(toBroker, Tail(toClient), id)
  BY <1>1, <1>2, TakeExchange
<1>16. Exchange(toBroker, toClient, outboundMsgs)'
  <2>1. Exchange(toBroker, Tail(toClient), Confirm(outboundMsgs, id))
    BY <1>3, <1>6, <1>7, <1>15, TakeTypes, TakeExchange, ListConfirms
  <2>2. \E y \in Elems(outboundMsgs') : y.id = id /\ y.next = "PUBCOMP"
    BY <1>5, <1>8 DEF ConfirmedAs
  <2>3. Exchange(Append(toBroker, q), Tail(toClient), Confirm(outboundMsgs, id))
    BY <1>4, <1>8, <1>15, <2>1, <2>2, TakeTypes, AddRequest
  <2> QED BY <1>4, <2>3, TakeFacts
<1>17. Lists'
  BY <1>8, TakeFacts DEF SessionInv, Lists
<1>18. SentInv'
  <2>0. SentInv /\ UNCHANGED <<published, sentQos, received, broker>>
    BY TakeFacts DEF SessionInv
  <2>1. \A y \in Elems(outboundMsgs') : y.m \in 1 .. published' /\ sentQos'[y.m] = y.qos
    BY <1>8, <2>0 DEF SentInv, ConfirmedAs
  <2>2. \A y, z \in Elems(outboundMsgs') : y.m = z.m => y = z
    <3> SUFFICES ASSUME NEW y \in Elems(outboundMsgs'), NEW z \in Elems(outboundMsgs'), y.m = z.m
                 PROVE  y = z
      OBVIOUS
    <3>1. PICK u \in Elems(outboundMsgs) : ConfirmedAs(u, y, id)
      BY <1>8
    <3>2. PICK v \in Elems(outboundMsgs) : ConfirmedAs(v, z, id)
      BY <1>8
    <3>3. u = v
      BY <2>0, <3>1, <3>2 DEF SentInv, ConfirmedAs
    <3>4. y.id = z.id
      BY <3>1, <3>2, <3>3 DEF ConfirmedAs
    <3> QED BY <1>8, <3>4, UniqueElems
  <2>3. \A y \in Elems(outboundMsgs') :
          y.qos = 2 /\ y.m \in Elems(received') => y.id \in broker'.in \/ y.next = "PUBCOMP"
    BY <1>8, <2>0 DEF SentInv, ConfirmedAs
  <2>4. \A m \in 1 .. published' : sentQos'[m] = 2 => Count(m, received') <= 1
    BY <2>0 DEF SentInv
  <2> QED BY <2>0, <2>1, <2>2, <2>3, <2>4 DEF SentInv
<1>19. AnswerInv'
  <2> SUFFICES ASSUME Lossless' PROVE AnswerInv'
    BY DEF AnswerInv
  <2>0. AnswerInv /\ Lossless /\ link /\ UNCHANGED <<received, broker>>
    BY TakeFacts DEF SessionInv, Lossless
  <2>1. \A r \in Elems(toClient') : r \in Elems(toClient) /\ (r.t \in Answers => r.id # id)
    BY <1>15, TakeFacts, TakeTypes DEF Quiet
  <2>2. \A r \in Elems(toClient') : r.t \in Answers =>
          \E y \in Elems(outboundMsgs') : y.id = r.id /\ y.next = r.t /\ y.m \in Elems(received')
    <3> SUFFICES ASSUME NEW r \in Elems(toClient'), r.t \in Answers
                 PROVE  \E y \in Elems(outboundMsgs') :
                          y.id = r.id /\ y.next = r.t /\ y.m \in Elems(received')
      OBVIOUS
    <3>1. PICK x \in Elems(outboundMsgs) : x.id = r.id /\ x.next = r.t /\ x.m \in Elems(received)
      BY <2>0, <2>1 DEF AnswerInv
    <3>2. PICK y \in Elems(outboundMsgs') : ConfirmedAs(x, y, id)
      BY <1>8
    <3> QED BY <2>0, <2>1, <3>1, <3>2 DEF ConfirmedAs
  <2>3. \A y \in Elems(outboundMsgs') : y.next = "PUBCOMP" => y.m \in Elems(received')
    <3> SUFFICES ASSUME NEW y \in Elems(outboundMsgs'), y.next = "PUBCOMP"
                 PROVE  y.m \in Elems(received')
      OBVIOUS
    <3>1. PICK x \in Elems(outboundMsgs) : ConfirmedAs(x, y, id)
      BY <1>8
    <3>2. CASE x.id = id
      BY <1>5, <1>6, <2>0, <3>1, <3>2 DEF ConfirmedAs
    <3>3. CASE x.id # id
      BY <2>0, <3>1, <3>3 DEF ConfirmedAs, AnswerInv
    <3> QED BY <3>2, <3>3
  <2>4. \A i \in broker'.in : \E y \in Elems(outboundMsgs') :
          y.id = i /\ y.qos = 2 /\ y.m \in Elems(received')
    <3> SUFFICES ASSUME NEW i \in broker'.in
                 PROVE  \E y \in Elems(outboundMsgs') : y.id = i /\ y.qos = 2 /\ y.m \in Elems(received')
      OBVIOUS
    <3>1. PICK x \in Elems(outboundMsgs) : x.id = i /\ x.qos = 2 /\ x.m \in Elems(received)
      BY <2>0 DEF AnswerInv
    <3>2. PICK y \in Elems(outboundMsgs') : ConfirmedAs(x, y, id)
      BY <1>8
    <3> QED BY <2>0, <3>1, <3>2 DEF ConfirmedAs
  <2>5. \A r \in Elems(toClient') : r.t = "PUBCOMP" => r.id \notin broker'.in
    BY <2>0, <2>1 DEF AnswerInv
  <2> QED BY <2>2, <2>3, <2>4, <2>5 DEF AnswerInv
<1>20. TokenInv'
  <2>1. \A x \in Elems(outboundMsgs) : \E y \in Elems(outboundMsgs') : y.id = x.id /\ y.m = x.m
    BY <1>8 DEF ConfirmedAs
  <2> QED BY <2>1, TakeFacts, TokenFrame DEF SessionInv
<1> QED BY <1>9, <1>10, <1>12, <1>13, <1>14, <1>16, <1>17, <1>18, <1>19, <1>20 DEF SessionInv, Types

LEMMA HandlePubrecStep ==
  ASSUME SessionInv, HandlePubrec
  PROVE  SessionInv'
<1>1. Take("PUBREC") /\ UNCHANGED <<inboundMsgs, messageQueue, releasing>>
  BY DEF HandlePubrec
<1>2. CASE /\ Reply("PUBREL", Head(toClient).id)
           /\ Persisted([store EXCEPT !.rel = @ \cup {Head(toClient).id}])
           /\ outboundMsgs' = Confirm(outboundMsgs, Head(toClient).id)
  <2>1. Head(toClient).id \in Nat /\ "PUBREL" \in PacketTypes
    BY <1>1, TakeTypes DEF Packet, PacketTypes
  <2>2. PICK q : q = Pkt("PUBREL", Head(toClient).id, 0, 0, FALSE)
    OBVIOUS
  <2>3. q \in Packet /\ q.t = "PUBREL" /\ q.id = Head(toClient).id
    BY <2>1, <2>2, ReplyIs
  <2>4. toBroker' = Append(toBroker, q)
    BY <1>2, <2>2 DEF Reply
  <2> QED BY <1>1, <1>2, <2>3, <2>4, ConfirmStep
<1>3. CASE UNCHANGED <<toBroker, store, outboundMsgs>>
  <2>1. ClientType' /\ StoreType' /\ AppType' /\ PeerType'
    <3>1. ClientType' /\ StoreType'
      BY <1>1, <1>3, TakeFacts DEF SessionInv, Types, ClientType, StoreType
    <3> QED BY <1>1, <3>1, TakeTypes
  <2>2. NetType'
    <3>1. toClient' = Tail(toClient) /\ Tail(toClient) \in Seq(Packet) /\ UNCHANGED <<link, connected>> /\ link
      BY <1>1, TakeFacts, TakeTypes
    <3> QED BY <1>3, <3>1 DEF SessionInv, Types, NetType
  <2>3. Lists' /\ Mirror' /\ SentInv'
    BY <1>1, <1>3, TakeFacts, SentFrame, MirrorFrame DEF SessionInv, Lists
  <2>4. AnswerInv'
    BY <1>1, <1>3, TakeFacts, TakeTypes, AnswerFrame DEF SessionInv
  <2>5. TokenInv'
    BY <1>1, <1>3, TakeFacts, TokenFrame DEF SessionInv
  <2>6. OfferInv' /\ OnceInv'
    BY <1>1, <1>3, ReceiveFrame
  <2>7. Exchange(toBroker, toClient, outboundMsgs)' /\ Exchange(toClient, toBroker, broker.out)'
    BY <1>1, <1>3, TakeFacts, TakeExchange
  <2> QED BY <2>1, <2>2, <2>3, <2>4, <2>5, <2>6, <2>7 DEF SessionInv, Types
<1> QED BY <1>2, <1>3 DEF HandlePubrec, Confirm
-----------------------------------------------------------------------------
(* handlePubrels.                                                          *)

LEMMA HandlePubrelStep ==
  ASSUME SessionInv, HandlePubrel
  PROVE  SessionInv'
<1>1. Take("PUBREL") /\ UNCHANGED <<outboundMsgs, inboundMsgs, messageQueue, store>>
  BY DEF HandlePubrel
<1>2. PICK p : p = Head(toClient)
  OBVIOUS
<1>3. /\ p \in Elems(toClient) /\ p \in Packet /\ p.t = "PUBREL" /\ p.id \in Nat
      /\ inboundMsgs \in Seq(Inbound) /\ broker.out \in Seq(Entry)
      /\ Unique(inboundMsgs) /\ Unique(broker.out) /\ releasing = NoMsg /\ calling = 0
  BY <1>1, <1>2, TakeTypes, TakeFacts DEF Packet, SessionInv, Lists
<1>4. PICK y0 \in Elems(broker.out) : y0.id = p.id /\ y0.next = "PUBCOMP"
  BY <1>3 DEF SessionInv, Exchange
\* What is released is the message with the identifier, if there is one.
<1>5. /\ releasing' \in Inbound
      /\ \/ releasing' = NoMsg /\ \A x \in Elems(inboundMsgs) : x.id # p.id
         \/ releasing' \in Elems(inboundMsgs) /\ releasing'.id = p.id
  <2>1. CASE p.id \notin Ids(inboundMsgs) /\ releasing' = NoMsg
    <3>1. \A x \in Elems(inboundMsgs) : x.id # p.id
      BY <1>3, <2>1, IdsElems
    <3> QED BY <2>1, <3>1 DEF NoMsg, Inbound
  <2>2. CASE p.id \in Ids(inboundMsgs) /\ releasing' = CHOOSE x \in Elems(inboundMsgs) : x.id = p.id
    <3>1. \E x \in Elems(inboundMsgs) : x.id = p.id
      BY <1>3, <2>2, IdsElems
    <3>2. releasing' \in Elems(inboundMsgs) /\ releasing'.id = p.id
      BY <2>2, <3>1
    <3> QED BY <3>2, InboundIs
  <2> QED BY <1>2, <2>1, <2>2 DEF HandlePubrel
<1>6. ClientType' /\ StoreType' /\ AppType' /\ PeerType'
  <2>1. ClientType' /\ StoreType'
    BY <1>1, <1>5, TakeFacts DEF SessionInv, Types, ClientType, StoreType
  <2> QED BY <1>1, <2>1, TakeTypes
<1>7. /\ Exchange(toBroker, toClient, outboundMsgs)' /\ Exchange(toClient, toBroker, broker.out)'
      /\ NetType' /\ \A q \in Elems(toBroker') : q \in Elems(toBroker) \/ q.id = p.id
  <2>1. CASE Reply("PUBCOMP", p.id)
    <3>1. "PUBREL" \in Requests /\ "PUBCOMP" \in Answers
      BY DEF Requests, Answers
    <3>2. /\ Exchange(toBroker, toClient, outboundMsgs)' /\ Exchange(toClient, toBroker, broker.out)'
          /\ NetType' /\ Elems(toBroker') = Elems(toBroker) \cup {Pkt("PUBCOMP", p.id, 0, 0, FALSE)}
      BY <1>1, <1>2, <1>4, <2>1, <3>1, AnsweredExchange DEF Reply
    <3>3. Pkt("PUBCOMP", p.id, 0, 0, FALSE).id = p.id
      BY DEF Pkt
    <3> QED BY <3>2, <3>3
  <2>2. CASE UNCHANGED toBroker
    <3>1. toClient' = Tail(toClient) /\ Tail(toClient) \in Seq(Packet) /\ UNCHANGED <<link, connected>> /\ link
      BY <1>1, TakeFacts, TakeTypes
    <3>2. NetType'
      BY <2>2, <3>1 DEF SessionInv, Types, NetType
    <3>3. Exchange(toBroker, toClient, outboundMsgs)' /\ Exchange(toClient, toBroker, broker.out)'
      BY <1>1, <2>2, TakeFacts, TakeExchange
    <3> QED BY <2>2, <3>2, <3>3
  <2> QED BY <1>2, <2>1, <2>2 DEF HandlePubrel
<1>8. Lists' /\ Mirror' /\ SentInv'
  BY <1>1, TakeFacts, SentFrame, MirrorFrame DEF SessionInv, Lists
<1>9. AnswerInv'
  BY <1>1, TakeFacts, TakeTypes, AnswerFrame DEF SessionInv
<1>10. TokenInv'
  BY <1>1, TakeFacts, TokenFrame DEF SessionInv
<1>11. OfferInv'
  <2>1. /\ OfferInv
        /\ UNCHANGED <<offered, messageQueue, calling, freed, inboundMsgs, delivered, broker>>
    BY <1>1, TakeFacts DEF SessionInv
  <2> QED BY <1>3, <1>5, <2>1 DEF OfferInv
<1>12. OnceInv'
  <2> SUFFICES ASSUME ~torn' PROVE OnceInv'
    BY DEF OnceInv
  <2>0. /\ OnceInv /\ OfferInv /\ ~torn
        /\ UNCHANGED <<broker, offered, delivered, messageQueue, calling, freed, inboundMsgs>>
    BY <1>1, TakeFacts DEF SessionInv
  <2>1. \A m : Handled(m)' <=> Handled(m)
    BY <2>0 DEF Handled
  <2>2. \A y \in Elems(broker'.out) : y.qos = 2 /\ Handled(y.m)' => y.next = "PUBCOMP"
    BY <2>0, <2>1 DEF OnceInv
  <2>3. \A x \in Elems(inboundMsgs') : ~Handled(x.m)'
    BY <2>0, <2>1 DEF OnceInv
  <2>4. \A x \in Elems(inboundMsgs) : \E y \in Elems(broker.out) : y.id = x.id /\ y.m = x.m
    BY <1>3, <2>0, InboundIs DEF OnceInv
  <2>5. \A y \in Elems(broker'.out) : y.qos = 2 /\ y.m = releasing'.m => y.next = "PUBCOMP"
    <3>1. CASE releasing' = NoMsg
      BY <1>3, <2>0, <3>1 DEF OnceInv
    <3>2. CASE releasing' \in Elems(inboundMsgs) /\ releasing'.id = p.id
      <4>1. PICK y \in Elems(broker.out) : y.id = p.id /\ y.m = releasing'.m
        BY <2>4, <3>2
      <4>2. y = y0
        BY <1>3, <1>4, <4>1, UniqueElems
      <4> QED BY <1>4, <2>0, <4>1, <4>2 DEF OfferInv
    <3> QED BY <1>5, <3>1, <3>2
  <2>6. \A q \in Elems(toBroker'), x \in Elems(inboundMsgs') :
          q.t = "PUBCOMP" /\ x # releasing' => x.id # q.id
    <3> SUFFICES ASSUME NEW q \in Elems(toBroker'), NEW x \in Elems(inboundMsgs),
                        q.t = "PUBCOMP", x # releasing'
                 PROVE  x.id # q.id
      BY <2>0
    <3>1. CASE q \in Elems(toBroker)
      <4>1. x # releasing
        BY <1>3, InboundIs
      <4> QED BY <2>0, <3>1, <4>1 DEF OnceInv
    <3>2. CASE q.id = p.id
      <4>1. CASE \A z \in Elems(inboundMsgs) : z.id # p.id
        BY <3>2, <4>1
      <4>2. CASE releasing' \in Elems(inboundMsgs) /\ releasing'.id = p.id
        BY <1>3, <3>2, <4>2, UniqueElems
      <4> QED BY <1>5, <4>1, <4>2
    <3> QED BY <1>7, <3>1, <3>2
  <2>7. \A m \in DOMAIN offered' : offered'[m] = 2 =>
          Count(m, delivered') + Count(m, messageQueue')
            + (IF m = calling' /\ freed' THEN 1 ELSE 0) <= 1
    BY <2>0 DEF OnceInv
  <2>8. \A x, z \in Elems(inboundMsgs') : x.m = z.m => x = z
    BY <2>0 DEF OnceInv
  <2> QED BY <2>0, <2>2, <2>3, <2>4, <2>5, <2>6, <2>7, <2>8 DEF OnceInv
<1> QED BY <1>6, <1>7, <1>8, <1>9, <1>10, <1>11, <1>12 DEF SessionInv, Types

\* What the publisher's side does not see.
LEMMA SendFrame ==
  ASSUME SessionInv, UNCHANGED <<mode, connected, msgID, outboundMsgs, pc, work, tokens, confirmed>>,
         UNCHANGED <<link, toBroker, toClient, broker, offered, published, sentQos, received, conn>>
  PROVE  /\ AppType' /\ NetType' /\ SentInv' /\ AnswerInv' /\ TokenInv'
         /\ Exchange(toBroker, toClient, outboundMsgs)' /\ Exchange(toClient, toBroker, broker.out)'
         /\ delivered' \in Seq(Nat) => PeerType'
<1>1. AppType' /\ NetType'
  BY DEF SessionInv, Types, AppType, NetType
<1>2. delivered' \in Seq(Nat) => PeerType'
  BY DEF SessionInv, Types, PeerType
<1>3. SentInv' /\ AnswerInv' /\ TokenInv'
  BY SentFrame, AnswerFrame, TokenFrame DEF SessionInv
<1>4. Exchange(toBroker, toClient, outboundMsgs)' /\ Exchange(toClient, toBroker, broker.out)'
  BY DEF SessionInv
<1> QED BY <1>1, <1>2, <1>3, <1>4

\* The message is queued when PUBACK or PUBCOMP is sent.
LEMMA ReleaseStep ==
  ASSUME SessionInv, Release
  PROVE  SessionInv'
<1>1. /\ releasing # NoMsg /\ releasing' = NoMsg
      /\ messageQueue' = Append(messageQueue, releasing.m)
      /\ inboundMsgs' = Without(inboundMsgs, releasing.id)
      /\ UNCHANGED <<mode, connected, msgID, outboundMsgs, calling, freed, pc, work, tokens, confirmed>>
      /\ UNCHANGED <<link, toBroker, toClient, broker, offered, received, delivered, published, sentQos, conn, torn>>
  BY DEF Release, app, net, peer, hist, count
<1>2. /\ inboundMsgs \in Seq(Inbound) /\ Unique(inboundMsgs) /\ messageQueue \in Seq(Nat)
      /\ delivered \in Seq(Nat) /\ calling = 0
      /\ releasing \in Elems(inboundMsgs) \/ offered[releasing.m] = 1
      /\ releasing \in Inbound /\ OfferInv /\ StoreType
  BY <1>1 DEF SessionInv, Lists, Types, ClientType, PeerType, OfferInv
<1>3. releasing.m \in Nat /\ releasing.m # 0 /\ releasing.m \in DOMAIN offered
  BY <1>1, <1>2, InboundIs DEF OfferInv, Inbound
<1>4. /\ inboundMsgs' \in Seq(Inbound) /\ Unique(inboundMsgs')
      /\ Elems(inboundMsgs') = {x \in Elems(inboundMsgs) : x.id # releasing.id}
  BY <1>1, <1>2, WithoutElems
<1>5. messageQueue' \in Seq(Nat) /\ Elems(messageQueue') = Elems(messageQueue) \cup {releasing.m}
  <2>1. messageQueue \in Seq(Nat) /\ releasing.m \in Nat
    BY <1>2, <1>3
  <2> QED BY <1>1, <2>1, ElemsAppend
<1>6. /\ AppType' /\ NetType' /\ SentInv' /\ AnswerInv' /\ TokenInv' /\ PeerType'
      /\ Exchange(toBroker, toClient, outboundMsgs)' /\ Exchange(toClient, toBroker, broker.out)'
  BY <1>1, <1>2, SendFrame
<1>7. ClientType' /\ Lists'
  <2>1. releasing' \in Inbound
    BY <1>1 DEF NoMsg, Inbound
  <2> QED BY <1>1, <1>4, <1>5, <2>1 DEF SessionInv, Types, ClientType, Lists
<1>8. Mirror' /\ StoreType'
  <2>1. CASE ~mode.persist
    BY <1>1, <1>2, <2>1 DEF SessionInv, Mirror, StoreType, Persisted, Release
  <2>2. CASE mode.persist
    <3>1. /\ store' = [store EXCEPT !.queue = Append(@, releasing.m),
                                    !.rcvd = {x \in @ : x.id # releasing.id}]
          /\ store.rcvd = Elems(inboundMsgs) /\ store.queue = messageQueue
      BY <2>2 DEF Release, Persisted, SessionInv, Mirror
    <3>2. store = [sent |-> store.sent, rel |-> store.rel, rcvd |-> store.rcvd, queue |-> store.queue]
      BY <1>2 DEF StoreType
    <3>3. store' = [sent |-> store.sent, rel |-> store.rel,
                    rcvd |-> {x \in store.rcvd : x.id # releasing.id},
                    queue |-> Append(store.queue, releasing.m)]
      BY <3>1, <3>2
    <3>4. store'.rcvd = Elems(inboundMsgs') /\ store'.queue = messageQueue'
          /\ store'.sent = store.sent /\ store'.rel = store.rel
      BY <1>1, <1>4, <3>1, <3>3
    <3>5. StoreType'
      <4>1. Append(store.queue, releasing.m) \in Seq(Nat)
        BY <1>2, <1>3, <3>1
      <4> QED BY <1>2, <3>3, <4>1 DEF StoreType
    <3> QED BY <1>1, <2>2, <3>4, <3>5 DEF SessionInv, Mirror
  <2> QED BY <2>1, <2>2
<1>9. OfferInv'
  BY <1>1, <1>2, <1>3, <1>4, <1>5 DEF OfferInv
<1>10. OnceInv'
  <2> SUFFICES ASSUME ~torn' PROVE OnceInv'
    BY DEF OnceInv
  <2>0. OnceInv /\ ~torn
    BY <1>1 DEF SessionInv
  <2>1. \A m : Handled(m)' => Handled(m) \/ m = releasing.m
    BY <1>1, <1>5 DEF Handled
  <2>2. \A y \in Elems(broker'.out) : y.qos = 2 /\ Handled(y.m)' => y.next = "PUBCOMP"
    BY <1>1, <2>0, <2>1 DEF OnceInv
  <2>3. \A x \in Elems(inboundMsgs') : x \in Elems(inboundMsgs) /\ x # releasing /\ x.m # releasing.m
    <3>1. CASE releasing \in Elems(inboundMsgs)
      BY <1>4, <2>0, <3>1 DEF OnceInv
    <3>2. CASE offered[releasing.m] = 1
      BY <1>2, <1>4, <3>2 DEF OfferInv
    <3> QED BY <1>2, <3>1, <3>2
  <2>4. \A x \in Elems(inboundMsgs') : ~Handled(x.m)'
    BY <2>0, <2>1, <2>3 DEF OnceInv
  <2>5. \A x, z \in Elems(inboundMsgs') : x.m = z.m => x = z
    BY <2>0, <2>3 DEF OnceInv
  <2>6. \A x \in Elems(inboundMsgs') : \E y \in Elems(broker'.out) : y.id = x.id /\ y.m = x.m
    BY <1>1, <2>0, <2>3 DEF OnceInv
  <2>7. \A y \in Elems(broker'.out) : y.qos = 2 /\ y.m = releasing'.m => y.next = "PUBCOMP"
    BY <1>1, InboundIs DEF NoMsg
  <2>8. \A q \in Elems(toBroker'), x \in Elems(inboundMsgs') :
          q.t = "PUBCOMP" /\ x # releasing' => x.id # q.id
    BY <1>1, <2>0, <2>3 DEF OnceInv
  <2>9. ASSUME NEW m \in DOMAIN offered', offered'[m] = 2
        PROVE  Count(m, delivered') + Count(m, messageQueue')
                 + (IF m = calling' /\ freed' THEN 1 ELSE 0) <= 1
    <3>1. Count(m, messageQueue') = Count(m, messageQueue) + (IF releasing.m = m THEN 1 ELSE 0)
      BY <1>1, <1>2, <1>3, CountAppend
    <3>2. Count(m, messageQueue) \in Nat /\ Count(m, delivered) \in Nat
      BY <1>2, CountIs
    <3>3. Count(m, delivered) + Count(m, messageQueue) + (IF m = calling /\ freed THEN 1 ELSE 0) <= 1
      BY <1>1, <2>0, <2>9 DEF OnceInv
    <3>4. m # 0 /\ m # calling /\ m # calling'
      BY <1>1, <1>2, InboundIs
    <3>5. CASE releasing.m = m
      <4>1. m \notin Elems(delivered) /\ m \notin Elems(messageQueue)
        BY <1>1, <1>2, <2>0, <2>9, <3>5 DEF OnceInv, Handled
      <4>2. Count(m, delivered) = 0 /\ Count(m, messageQueue) = 0
        BY <1>2, <4>1, CountIs
      <4> QED BY <1>1, <3>1, <3>4, <3>5, <4>2
    <3>6. CASE releasing.m # m
      BY <1>1, <3>1, <3>2, <3>3, <3>4, <3>6
    <3> QED BY <3>5, <3>6
  <2> QED BY <2>2, <2>4, <2>5, <2>6, <2>7, <2>8, <2>9 DEF OnceInv
<1> QED BY <1>6, <1>7, <1>8, <1>9, <1>10 DEF SessionInv, Types
-----------------------------------------------------------------------------
(* The callback.                                                           *)

LEMMA CallArrivedStep ==
  ASSUME SessionInv, CallArrived
  PROVE  SessionInv'
<1>1. /\ calling = 0 /\ releasing = NoMsg /\ messageQueue # <<>>
      /\ calling' = Head(messageQueue) /\ freed' = FALSE
      /\ UNCHANGED <<mode, connected, msgID, outboundMsgs, inboundMsgs, messageQueue, releasing, store>>
      /\ UNCHANGED <<pc, work, tokens, confirmed, link, toBroker, toClient, broker, offered>>
      /\ UNCHANGED <<received, delivered, published, sentQos, conn, torn>>
  BY DEF CallArrived, app, net, peer, hist, count
<1>2. messageQueue \in Seq(Nat) /\ delivered \in Seq(Nat)
  BY DEF SessionInv, Types, ClientType, PeerType
<1>3. Head(messageQueue) \in Elems(messageQueue) /\ Head(messageQueue) \in Nat
  BY <1>1, <1>2, ElemsTail
<1>4. /\ AppType' /\ NetType' /\ SentInv' /\ AnswerInv' /\ TokenInv' /\ PeerType'
      /\ Exchange(toBroker, toClient, outboundMsgs)' /\ Exchange(toClient, toBroker, broker.out)'
  BY <1>1, <1>2, SendFrame
<1>5. ClientType' /\ StoreType' /\ Lists' /\ Mirror'
  <2>1. ClientType' /\ StoreType'
    BY <1>1, <1>3 DEF SessionInv, Types, ClientType, StoreType
  <2> QED BY <1>1, <2>1, MirrorFrame DEF SessionInv, Lists
<1>6. OfferInv'
  BY <1>1, <1>3 DEF SessionInv, OfferInv
<1>7. OnceInv'
  <2> SUFFICES ASSUME ~torn' PROVE OnceInv'
    BY DEF OnceInv
  <2>0. OnceInv /\ ~torn
    BY <1>1 DEF SessionInv
  <2>1. \A m : Handled(m)' <=> Handled(m)
    BY <1>1 DEF Handled
  <2>2. ASSUME NEW m \in DOMAIN offered', offered'[m] = 2
        PROVE  Count(m, delivered') + Count(m, messageQueue')
                 + (IF m = calling' /\ freed' THEN 1 ELSE 0) <= 1
    <3>1. Count(m, delivered) + Count(m, messageQueue) + (IF m = calling /\ freed THEN 1 ELSE 0) <= 1
      BY <1>1, <2>0, <2>2 DEF OnceInv
    <3>2. m # 0
      BY <1>1, InboundIs
    <3> QED BY <1>1, <3>1, <3>2
  <2> QED BY <1>1, <2>0, <2>1, <2>2 DEF OnceInv
<1> QED BY <1>4, <1>5, <1>6, <1>7 DEF SessionInv, Types

LEMMA ArrivedReturnsStep ==
  ASSUME SessionInv, ArrivedReturns
  PROVE  SessionInv'
<1>1. /\ calling # 0 /\ calling' = 0
      /\ UNCHANGED <<mode, connected, msgID, outboundMsgs, inboundMsgs, freed, releasing>>
      /\ UNCHANGED <<pc, work, tokens, confirmed, link, toBroker, toClient, broker, offered>>
      /\ UNCHANGED <<received, published, sentQos, conn, torn>>
  BY DEF ArrivedReturns, app, net, peer
<1>2. /\ messageQueue \in Seq(Nat) /\ delivered \in Seq(Nat) /\ calling \in Nat /\ StoreType
      /\ freed \in BOOLEAN /\ OfferInv /\ Mirror
  BY DEF SessionInv, Types, ClientType, PeerType
<1>3. /\ calling \in DOMAIN offered
      /\ freed => messageQueue = <<>>
      /\ ~freed => messageQueue # <<>> /\ Head(messageQueue) = calling
  BY <1>1, <1>2 DEF OfferInv
\* The three ways it ends.
<1> DEFINE Done == ~freed /\ delivered' = Append(delivered, calling) /\ messageQueue' = Tail(messageQueue)
                   /\ Persisted([store EXCEPT !.queue = Tail(@)])
           Lost == freed /\ delivered' = Append(delivered, calling) /\ UNCHANGED <<messageQueue, store>>
           Declined == UNCHANGED <<delivered, messageQueue, store>>
<1>4. Done \/ Lost \/ Declined
  BY <1>2 DEF ArrivedReturns
<1>5. Done => /\ Tail(messageQueue) \in Seq(Nat) /\ Head(messageQueue) \in Elems(messageQueue)
              /\ Elems(Tail(messageQueue)) \subseteq Elems(messageQueue)
  BY <1>2, <1>3, ElemsTail
<1>6. /\ Append(delivered, calling) \in Seq(Nat)
      /\ Elems(Append(delivered, calling)) = Elems(delivered) \cup {calling}
  BY <1>2, ElemsAppend
<1>7. /\ delivered' \in Seq(Nat) /\ messageQueue' \in Seq(Nat)
      /\ Elems(messageQueue') \subseteq Elems(messageQueue)
      /\ Elems(delivered') \subseteq Elems(delivered) \cup {calling}
  BY <1>2, <1>4, <1>5, <1>6
<1>8. /\ AppType' /\ NetType' /\ SentInv' /\ AnswerInv' /\ TokenInv' /\ PeerType'
      /\ Exchange(toBroker, toClient, outboundMsgs)' /\ Exchange(toClient, toBroker, broker.out)'
  BY <1>1, <1>7, SendFrame
<1>9. ClientType' /\ Lists'
  BY <1>1, <1>7 DEF SessionInv, Types, ClientType, Lists
<1>10. StoreType' /\ Mirror'
  <2>1. CASE UNCHANGED <<messageQueue, store>>
    BY <1>1, <1>2, <2>1, MirrorFrame DEF StoreType
  <2>2. CASE Done /\ ~mode.persist
    BY <1>1, <1>2, <2>2 DEF StoreType, Mirror, Persisted
  <2>3. CASE Done /\ mode.persist
    <3>1. store' = [store EXCEPT !.queue = Tail(messageQueue)] /\ Tail(messageQueue) \in Seq(Nat)
      BY <1>2, <1>5, <2>3 DEF Persisted, Mirror
    <3>2. /\ store'.sent = store.sent /\ store'.rel = store.rel /\ store'.rcvd = store.rcvd
          /\ store'.queue = Tail(messageQueue) /\ StoreType'
      BY <1>2, <3>1, StoreQueue
    <3> QED BY <1>1, <1>2, <2>3, <3>2 DEF Mirror
  <2> QED BY <1>4, <2>1, <2>2, <2>3
<1>11. OfferInv'
  BY <1>1, <1>2, <1>3, <1>7 DEF OfferInv
<1>12. OnceInv'
  <2> SUFFICES ASSUME ~torn' PROVE OnceInv'
    BY DEF OnceInv
  <2>0. OnceInv /\ ~torn
    BY <1>1 DEF SessionInv
  <2>1. \A m : Handled(m)' => Handled(m)
    <3>1. Done \/ Lost => Handled(calling)
      BY <1>1, <1>3, <1>5 DEF Handled
    <3>2. \A m : m \in Elems(delivered') => m \in Elems(delivered) \/ (m = calling /\ (Done \/ Lost))
      BY <1>4, <1>6
    <3> HIDE DEF Done, Lost
    <3> QED BY <1>1, <1>7, <3>1, <3>2 DEF Handled
  <2>2. ASSUME NEW m \in DOMAIN offered', offered'[m] = 2
        PROVE  Count(m, delivered') + Count(m, messageQueue')
                 + (IF m = calling' /\ freed' THEN 1 ELSE 0) <= 1
    <3>1. Count(m, delivered) + Count(m, messageQueue) + (IF m = calling /\ freed THEN 1 ELSE 0) <= 1
      BY <1>1, <2>0, <2>2 DEF OnceInv
    <3>2. m # calling'
      BY <1>1, InboundIs
    <3>3. Count(m, Append(delivered, calling)) = Count(m, delivered) + (IF calling = m THEN 1 ELSE 0)
      BY <1>2, CountAppend
    <3>4. Count(m, delivered) \in Nat /\ Count(m, messageQueue) \in Nat
      BY <1>2, CountIs
    <3>5. CASE Declined
      BY <3>1, <3>2, <3>4, <3>5
    <3>6. CASE Lost
      BY <3>1, <3>2, <3>3, <3>4, <3>6
    <3>7. CASE Done
      <4>1. Count(m, messageQueue) = Count(m, Tail(messageQueue)) + (IF Head(messageQueue) = m THEN 1 ELSE 0)
        BY <1>2, <1>3, <3>7, CountTail
      <4>2. Count(m, Tail(messageQueue)) \in Nat
        BY <1>5, <3>7, CountIs
      <4> QED BY <1>3, <3>1, <3>2, <3>3, <3>4, <3>7, <4>1, <4>2
    <3> QED BY <1>4, <3>5, <3>6, <3>7
  <2> HIDE DEF Done, Lost, Declined
  <2> QED BY <1>1, <2>0, <2>1, <2>2 DEF OnceInv
<1> QED BY <1>8, <1>9, <1>10, <1>11, <1>12 DEF SessionInv, Types
-----------------------------------------------------------------------------
(* A restart: create, with what is stored.                                 *)

\* restorePackets builds what was listed, or nothing.
LEMMA RestoredLists ==
  ASSUME SessionInv, MQTTPersistence_restorePackets
  PROVE  /\ outboundMsgs' \in Seq(Entry) /\ Unique(outboundMsgs')
         /\ inboundMsgs' \in Seq(Inbound) /\ Unique(inboundMsgs')
         /\ Elems(outboundMsgs') = IF mode.persist THEN Elems(outboundMsgs) ELSE {}
         /\ Elems(inboundMsgs') = IF mode.persist THEN Elems(inboundMsgs) ELSE {}
         /\ mode.persist => outboundMsgs' = MQTTPersistence_wrapMsgID(InOrder(Elems(outboundMsgs)))
<1> DEFINE entry(x) == [id |-> x.id, m |-> x.m, qos |-> x.qos,
                        next |-> IF x.id \in store.rel THEN "PUBCOMP"
                                 ELSE IF x.qos = 2 THEN "PUBREC" ELSE "PUBACK"]
           R == {entry(x) : x \in store.sent}
<1>0. outboundMsgs \in Seq(Entry) /\ inboundMsgs \in Seq(Inbound) /\ Unique(outboundMsgs) /\ Unique(inboundMsgs)
  BY DEF SessionInv, Types, ClientType, Lists
<1>1. R = IF mode.persist THEN Elems(outboundMsgs) ELSE {}
  <2>1. CASE ~mode.persist
    BY <2>1 DEF SessionInv, Mirror, EmptyStore
  <2>2. CASE mode.persist
    <3>1. /\ store.sent = {[id |-> y.id, m |-> y.m, qos |-> y.qos] : y \in Elems(outboundMsgs)}
          /\ store.rel = {y.id : y \in {z \in Elems(outboundMsgs) : z.next = "PUBCOMP"}}
      BY <2>2 DEF SessionInv, Mirror
    <3>2. ASSUME NEW y \in Elems(outboundMsgs)
          PROVE  entry([id |-> y.id, m |-> y.m, qos |-> y.qos]) = y
      <4>1. y \in Entry
        BY <1>0, ElemsOf
      <4>2. y.id \in store.rel <=> y.next = "PUBCOMP"
        <5>1. ASSUME y.id \in store.rel PROVE y.next = "PUBCOMP"
          <6>1. PICK z \in Elems(outboundMsgs) : z.next = "PUBCOMP" /\ z.id = y.id
            BY <3>1, <5>1
          <6>2. z = y
            BY <1>0, <6>1, UniqueElems
          <6> QED BY <6>1, <6>2
        <5> QED BY <3>1, <5>1
      <4>3. y.next \in IF y.qos = 2 THEN {"PUBREC", "PUBCOMP"} ELSE {"PUBACK"}
        BY DEF SessionInv, Exchange, Waits
      <4>4. y.next = IF y.id \in store.rel THEN "PUBCOMP" ELSE IF y.qos = 2 THEN "PUBREC" ELSE "PUBACK"
        BY <4>2, <4>3
      <4>5. y = [id |-> y.id, m |-> y.m, qos |-> y.qos, next |-> y.next]
        BY <4>1 DEF Entry
      <4> QED BY <4>4, <4>5
    <3> HIDE DEF entry
    <3>3. \A r \in R : r \in Elems(outboundMsgs)
      BY <3>1, <3>2
    <3>4. ASSUME NEW y \in Elems(outboundMsgs) PROVE y \in R
      <4>1. entry([id |-> y.id, m |-> y.m, qos |-> y.qos]) \in R
        BY <3>1
      <4> QED BY <3>2, <4>1
    <3> QED BY <2>2, <3>3, <3>4
  <2> QED BY <2>1, <2>2
<1>2. outboundMsgs' = MQTTPersistence_wrapMsgID(InOrder(R)) /\ inboundMsgs' = InOrder(store.rcvd)
  BY DEF MQTTPersistence_restorePackets
<1> HIDE DEF R, entry
<1>3. IsFiniteSet(R) /\ R \subseteq Entry /\ \A x, y \in R : x.id = y.id => x = y
  <2>1. CASE mode.persist
    BY <1>0, <1>1, <2>1, ElemsFinite, ElemsOf, UniqueElems
  <2>2. CASE ~mode.persist
    BY <1>1, <2>2, FS_EmptySet
  <2> QED BY <2>1, <2>2
<1>4. /\ InOrder(R) \in Seq(R) /\ Elems(InOrder(R)) = R /\ Unique(InOrder(R))
      /\ \A x \in R : x.id \in Nat
  <2>1. \A x \in R : x.id \in Nat
    BY <1>3 DEF Entry
  <2> QED BY <1>3, <2>1, InOrderElems
<1>5. outboundMsgs' \in Seq(R) /\ Unique(outboundMsgs') /\ Elems(outboundMsgs') = R
  BY <1>2, <1>4, WrapSame
<1>6. outboundMsgs' \in Seq(Entry)
  BY <1>3, <1>5
<1>7. store.rcvd = IF mode.persist THEN Elems(inboundMsgs) ELSE {}
  <2>1. CASE mode.persist
    BY <2>1 DEF SessionInv, Mirror
  <2>2. CASE ~mode.persist
    BY <2>2 DEF SessionInv, Mirror, EmptyStore
  <2> QED BY <2>1, <2>2
<1>8. /\ IsFiniteSet(store.rcvd) /\ store.rcvd \subseteq Inbound
      /\ \A x, y \in store.rcvd : x.id = y.id => x = y
  <2>1. CASE mode.persist
    BY <1>0, <1>7, <2>1, ElemsFinite, ElemsOf, UniqueElems
  <2>2. CASE ~mode.persist
    BY <1>7, <2>2, FS_EmptySet
  <2> QED BY <2>1, <2>2
<1>9. inboundMsgs' \in Seq(store.rcvd) /\ Unique(inboundMsgs') /\ Elems(inboundMsgs') = store.rcvd
  <2>1. \A x \in store.rcvd : x.id \in Nat
    BY <1>8 DEF Inbound
  <2> QED BY <1>2, <1>8, <2>1, InOrderElems
<1>10. inboundMsgs' \in Seq(Inbound)
  BY <1>8, <1>9
<1> QED BY <1>1, <1>2, <1>5, <1>6, <1>7, <1>9, <1>10

LEMMA RestartStep ==
  ASSUME SessionInv, Restart
  PROVE  SessionInv'
<1>1. /\ connected' = FALSE /\ msgID' = 0 /\ MQTTPersistence_restorePackets
      /\ calling' = 0 /\ freed' = FALSE /\ releasing' = NoMsg
      /\ torn' = (torn \/ calling # 0 \/ releasing # NoMsg)
      /\ messageQueue' = store'.queue
      /\ pc' = "idle" /\ work' = NoWork /\ tokens' = {} /\ UNCHANGED confirmed
      /\ link' = FALSE /\ toBroker' = <<>> /\ toClient' = <<>>
      /\ UNCHANGED <<mode, broker, offered, received, published, sentQos, conn>>
  BY DEF Restart, peer
<1>2. /\ outboundMsgs' \in Seq(Entry) /\ Unique(outboundMsgs')
      /\ inboundMsgs' \in Seq(Inbound) /\ Unique(inboundMsgs')
      /\ Elems(outboundMsgs') = (IF mode.persist THEN Elems(outboundMsgs) ELSE {})
      /\ Elems(inboundMsgs') = (IF mode.persist THEN Elems(inboundMsgs) ELSE {})
  BY <1>1, RestoredLists
<1>3. /\ delivered \in Seq(Nat) /\ calling \in Nat /\ StoreType /\ OfferInv /\ Mirror
      /\ releasing \in Inbound
  BY DEF SessionInv, Types, ClientType, PeerType
<1>4. \/ calling # 0 /\ delivered' = Append(delivered, calling)
      \/ delivered' = delivered
  BY DEF Restart
<1>5. \/ releasing # NoMsg /\ mode.persist /\ store' = [store EXCEPT !.queue = Append(@, releasing.m)]
      \/ store' = store
  BY DEF Restart
<1>6. Elems(toBroker') = {} /\ Elems(toClient') = {}
  BY <1>1, ElemsEmpty
<1>7. delivered' \in Seq(Nat) /\ Elems(delivered') \subseteq DOMAIN offered
  <2>1. CASE calling # 0 /\ delivered' = Append(delivered, calling)
    <3>1. /\ Append(delivered, calling) \in Seq(Nat)
          /\ Elems(Append(delivered, calling)) = Elems(delivered) \cup {calling}
      BY <1>3, ElemsAppend
    <3> QED BY <1>3, <2>1, <3>1 DEF OfferInv
  <2>2. CASE delivered' = delivered
    BY <1>3, <2>2 DEF OfferInv
  <2> QED BY <1>4, <2>1, <2>2
<1>8. /\ StoreType' /\ messageQueue' \in Seq(Nat) /\ Elems(messageQueue') \subseteq DOMAIN offered
      /\ store'.sent = store.sent /\ store'.rel = store.rel /\ store'.rcvd = store.rcvd
  <2>1. store.queue \in Seq(Nat) /\ Elems(store.queue) \subseteq DOMAIN offered
    <3>1. CASE mode.persist
      BY <1>3, <3>1 DEF StoreType, Mirror, OfferInv
    <3>2. CASE ~mode.persist
      BY <1>3, <3>2, ElemsEmpty DEF StoreType, Mirror, EmptyStore
    <3> QED BY <3>1, <3>2
  <2>2. CASE releasing # NoMsg /\ mode.persist /\ store' = [store EXCEPT !.queue = Append(@, releasing.m)]
    <3>1. releasing.m \in Nat /\ releasing.m \in DOMAIN offered
      BY <1>3, <2>2 DEF OfferInv, Inbound
    <3>2. /\ Append(store.queue, releasing.m) \in Seq(Nat)
          /\ Elems(Append(store.queue, releasing.m)) = Elems(store.queue) \cup {releasing.m}
      BY <2>1, <3>1, ElemsAppend
    <3>3. /\ store'.sent = store.sent /\ store'.rel = store.rel /\ store'.rcvd = store.rcvd
          /\ store'.queue = Append(store.queue, releasing.m) /\ StoreType'
      BY <1>3, <2>2, <3>2, StoreQueue
    <3> QED BY <1>1, <2>1, <3>1, <3>2, <3>3
  <2>3. CASE store' = store
    BY <1>1, <1>3, <2>1, <2>3 DEF StoreType
  <2> QED BY <1>5, <2>2, <2>3
<1>9. Mirror'
  <2>1. CASE mode.persist
    BY <1>1, <1>2, <1>3, <1>8, <2>1 DEF Mirror
  <2>2. CASE ~mode.persist
    BY <1>1, <1>3, <1>5, <2>2 DEF Mirror
  <2> QED BY <2>1, <2>2
<1>10. Types'
  <2>1. ClientType'
    <3>1. releasing' \in Inbound /\ 0 \in 0 .. MAX_MSG_ID
      BY <1>1, WindowAssumption DEF NoMsg, Inbound
    <3> QED BY <1>1, <1>2, <1>8, <3>1 DEF ClientType
  <2>2. AppType'
    BY <1>1 DEF AppType, NoWork
  <2>3. PeerType'
    BY <1>1, <1>7 DEF SessionInv, Types, PeerType
  <2> QED BY <1>1, <1>8, <2>1, <2>2, <2>3, NetDown DEF Types
<1>11. Lists' /\ Exchange(toBroker, toClient, outboundMsgs)' /\ Exchange(toClient, toBroker, broker.out)'
  <2>1. Waits(outboundMsgs')
    BY <1>2 DEF SessionInv, Exchange, Waits
  <2>2. Unique(broker'.out) /\ Waits(broker'.out)
    BY <1>1 DEF SessionInv, Exchange, Lists
  <2>3. Exchange(<<>>, <<>>, outboundMsgs') /\ Exchange(<<>>, <<>>, broker'.out)
    BY <1>2, <2>1, <2>2, NothingOnTheWay
  <2> QED BY <1>1, <1>2, <2>2, <2>3 DEF Lists
<1>12. SentInv'
  BY <1>1, <1>2, SentFrame DEF SessionInv
<1>13. AnswerInv'
  <2> SUFFICES ASSUME Lossless' PROVE AnswerInv'
    BY DEF AnswerInv
  <2>1. AnswerInv /\ Lossless
    BY <1>1 DEF SessionInv, Lossless
  <2>2. \A x \in Elems(outboundMsgs') : x.next = "PUBCOMP" => x.m \in Elems(received')
    BY <1>1, <1>2, <2>1 DEF AnswerInv
  <2>3. link' \/ ~mode'.clean =>
          \A id \in broker'.in : \E x \in Elems(outboundMsgs') :
            x.id = id /\ x.qos = 2 /\ x.m \in Elems(received')
    <3> SUFFICES ASSUME ~mode.clean, NEW id \in broker.in
                 PROVE  \E x \in Elems(outboundMsgs') : x.id = id /\ x.qos = 2 /\ x.m \in Elems(received')
      BY <1>1
    <3>1. Elems(outboundMsgs') = Elems(outboundMsgs)
      BY <1>2, <2>1 DEF Lossless
    <3> QED BY <1>1, <2>1, <3>1 DEF AnswerInv
  <2> QED BY <1>6, <2>2, <2>3 DEF AnswerInv
<1>14. TokenInv'
  BY <1>1 DEF SessionInv, TokenInv, CompletionTrue, Lossless
<1>15. OfferInv'
  BY <1>1, <1>2, <1>3, <1>7, <1>8 DEF OfferInv
<1>16. OnceInv'
  <2> SUFFICES ASSUME ~torn' PROVE OnceInv'
    BY DEF OnceInv
  <2>0. OnceInv /\ ~torn /\ calling = 0 /\ releasing = NoMsg
    BY <1>1 DEF SessionInv
  <2>1. delivered' = delivered /\ store' = store
    BY <1>4, <1>5, <2>0
  <2>2. messageQueue' = IF mode.persist THEN messageQueue ELSE <<>>
    BY <1>1, <1>3, <2>1 DEF Mirror, EmptyStore
  <2>3. Elems(messageQueue') \subseteq Elems(messageQueue)
    BY <2>2, ElemsEmpty
  <2>4. \A m : Handled(m)' => Handled(m)
    BY <1>1, <2>1, <2>3 DEF Handled
  <2>5. ASSUME NEW m \in DOMAIN offered', offered'[m] = 2
        PROVE  Count(m, delivered') + Count(m, messageQueue')
                 + (IF m = calling' /\ freed' THEN 1 ELSE 0) <= 1
    <3>1. Count(m, delivered) + Count(m, messageQueue) + (IF m = calling /\ freed THEN 1 ELSE 0) <= 1
      BY <1>1, <2>0, <2>5 DEF OnceInv
    <3>2. Count(m, delivered) \in Nat /\ Count(m, messageQueue) \in Nat
      BY CountIs DEF SessionInv, Types, ClientType, PeerType
    <3>3. m # 0
      BY <1>1, InboundIs
    <3>4. Count(m, messageQueue') <= Count(m, messageQueue) /\ Count(m, messageQueue') \in Nat
      BY <2>2, <3>2, CountEmpty
    <3> QED BY <1>1, <2>0, <2>1, <3>1, <3>2, <3>3, <3>4
  <2>6. Elems(inboundMsgs') \subseteq Elems(inboundMsgs)
    BY <1>2
  <2> QED BY <1>1, <1>6, <2>0, <2>4, <2>5, <2>6 DEF OnceInv
<1> QED BY <1>9, <1>10, <1>11, <1>12, <1>13, <1>14, <1>15, <1>16 DEF SessionInv
-----------------------------------------------------------------------------
(* The broker.                                                             *)

\* A session with n publications leaves one of n + 1 identifiers free.
LEMMA OfferedId ==
  ASSUME SessionInv
  PROVE  \E i \in 1 .. Len(offered) + 1 :
           i \notin Ids(broker.out) /\ \A j \in 1 .. i - 1 : j \in Ids(broker.out)
<1> DEFINE n == Len(offered)
           Free == {i \in 1 .. n + 1 : i \notin Ids(broker.out)}
           e == [i \in 1 .. n + 1 |-> CHOOSE y \in Elems(broker.out) : y.id = i]
           f == [i \in 1 .. n + 1 |-> e[i].m]
<1>1. n \in Nat /\ DOMAIN offered = 1 .. n /\ broker.out \in Seq(Entry) /\ OfferInv
  BY DEF SessionInv, Types, PeerType
<1>2. Ids(broker.out) = {y.id : y \in Elems(broker.out)}
  BY <1>1, IdsElems
<1>3. Free # {}
  <2> SUFFICES ASSUME Free = {} PROVE FALSE
    OBVIOUS
  <2>1. \A i \in 1 .. n + 1 : \E y \in Elems(broker.out) : y.id = i
    BY <1>2
  <2>2. \A i \in 1 .. n + 1 : e[i] \in Elems(broker.out) /\ e[i].id = i
    BY <2>1
  <2> HIDE DEF e
  <2>3. f \in [1 .. n + 1 -> 1 .. n] /\ \A i, j \in 1 .. n + 1 : f[i] = f[j] => i = j
    <3>1. \A i \in 1 .. n + 1 : f[i] = e[i].m
      OBVIOUS
    <3>2. \A i \in 1 .. n + 1 : f[i] \in 1 .. n
      BY <1>1, <2>2, <3>1 DEF OfferInv
    <3>3. ASSUME NEW i \in 1 .. n + 1, NEW j \in 1 .. n + 1, f[i] = f[j] PROVE i = j
      <4>1. e[i] = e[j]
        BY <1>1, <2>2, <3>1, <3>3 DEF OfferInv
      <4> QED BY <2>2, <4>1
    <3> QED BY <3>2, <3>3
  <2> HIDE DEF f
  <2>4. f \in Injection(1 .. n + 1, 1 .. n)
    BY <2>3 DEF Injection, IsInjective
  <2>5. /\ IsFiniteSet(1 .. n) /\ Cardinality(1 .. n) = n
        /\ IsFiniteSet(1 .. n + 1) /\ Cardinality(1 .. n + 1) = n + 1
    <3> HIDE DEF n
    <3>1. \A k \in Nat : IsFiniteSet(1 .. k) /\ Cardinality(1 .. k) = k
      BY FS_Interval
    <3> QED BY <1>1, <3>1
  <2>6. n + 1 <= n
    BY <2>4, <2>5, FS_Injection
  <2> QED BY <1>1, <2>6
<1>4. Free \subseteq Nat
  BY <1>1
<1>5. PICK i \in Free : \A k \in Free : i <= k
  <2> HIDE DEF Free
  <2> QED BY <1>3, <1>4, LeastNat
<1>6. ASSUME NEW j \in 1 .. i - 1 PROVE j \in Ids(broker.out)
  <2>1. i \in 1 .. n + 1 /\ j \in 1 .. n + 1 /\ ~(i <= j)
    BY <1>1
  <2> QED BY <1>5, <2>1
<1> QED BY <1>5, <1>6

LEMMA BrokerOffersStep ==
  ASSUME SessionInv, BrokerOffers
  PROVE  SessionInv'
<1>1. /\ link
      /\ UNCHANGED <<connected, msgID, outboundMsgs, inboundMsgs, messageQueue, calling, freed, releasing>>
      /\ UNCHANGED <<mode, store, pc, work, tokens, confirmed, link, toBroker>>
      /\ UNCHANGED <<received, delivered, published, sentQos, conn, torn>>
  BY DEF BrokerOffers, client, app, hist, count
<1>2. PICK id : id = CHOOSE i \in 1 .. Len(offered) + 1 :
                       i \notin Ids(broker.out) /\ \A j \in 1 .. i - 1 : j \in Ids(broker.out)
  OBVIOUS
<1>3. id \in 1 .. Len(offered) + 1 /\ id \notin Ids(broker.out)
  BY <1>2, OfferedId
<1>4. /\ offered \in Seq({1, 2}) /\ Len(offered) \in Nat /\ DOMAIN offered = 1 .. Len(offered)
      /\ broker \in [in : SUBSET Nat, out : Seq(Entry)] /\ broker.out \in Seq(Entry)
      /\ toBroker \in Seq(Packet) /\ toClient \in Seq(Packet) /\ outboundMsgs \in Seq(Entry)
      /\ OfferInv
  BY DEF SessionInv, Types, PeerType, NetType, ClientType
<1>5. PICK m : m = Len(offered) + 1
  OBVIOUS
<1>6. m \in Nat /\ id \in Nat /\ m # 0 /\ m \notin DOMAIN offered
  BY <1>3, <1>4, <1>5
<1>7. PICK qos \in {1, 2} :
        /\ offered' = Append(offered, qos)
        /\ broker' = [broker EXCEPT !.out = Append(@, [id |-> id, m |-> m, qos |-> qos,
                        next |-> IF qos = 2 THEN "PUBREC" ELSE "PUBACK"])]
        /\ toClient' = Append(toClient, Pkt("PUBLISH", id, m, qos, FALSE))
  BY <1>2, <1>5 DEF BrokerOffers
<1>8. PICK y0 : y0 = [id |-> id, m |-> m, qos |-> qos, next |-> IF qos = 2 THEN "PUBREC" ELSE "PUBACK"]
  OBVIOUS
<1>9. /\ y0 \in Entry /\ y0.id = id /\ y0.m = m /\ y0.qos = qos /\ y0.next # "PUBCOMP"
      /\ y0.next \in IF y0.qos = 2 THEN {"PUBREC", "PUBCOMP"} ELSE {"PUBACK"}
  BY <1>6, <1>8 DEF Entry
<1>10. PICK p : p = Pkt("PUBLISH", id, m, qos, FALSE)
  OBVIOUS
<1>11. p \in Packet /\ p.t = "PUBLISH" /\ p.id = id /\ p.m = m /\ p.qos = qos
  BY <1>6, <1>10 DEF Pkt, Packet, PacketTypes
<1>12. p.t \notin Answers
  BY <1>11 DEF Answers
<1>13. /\ broker'.out = Append(broker.out, y0) /\ broker'.in = broker.in
       /\ broker' \in [in : SUBSET Nat, out : Seq(Entry)] /\ toClient' = Append(toClient, p)
  <2>1. Append(broker.out, y0) \in Seq(Entry)
    BY <1>4, <1>9
  <2>2. broker' = [broker EXCEPT !.out = Append(broker.out, y0)]
    BY <1>7, <1>8
  <2> QED BY <1>4, <1>7, <1>10, <2>1, <2>2
<1>14. Elems(broker'.out) = Elems(broker.out) \cup {y0}
  BY <1>4, <1>9, <1>13, ElemsAppend
<1>15. toClient' \in Seq(Packet) /\ Elems(toClient') = Elems(toClient) \cup {p}
  BY <1>4, <1>11, <1>13, ElemsAppend
<1>16. /\ offered' \in Seq({1, 2}) /\ offered'[m] = qos /\ m \in DOMAIN offered'
       /\ \A k \in DOMAIN offered : k \in DOMAIN offered' /\ offered'[k] = offered[k]
       /\ \A k \in DOMAIN offered' : k \in DOMAIN offered \/ k = m
  BY <1>4, <1>5, <1>7
<1>17. Types'
  <2>1. ClientType' /\ StoreType'
    BY <1>1 DEF SessionInv, Types, ClientType, StoreType
  <2>2. AppType'
    BY <1>1 DEF SessionInv, Types, AppType
  <2>3. NetType'
    BY <1>1, <1>15 DEF SessionInv, Types, NetType
  <2>4. PeerType'
    BY <1>1, <1>13, <1>16 DEF SessionInv, Types, PeerType
  <2> QED BY <2>1, <2>2, <2>3, <2>4 DEF Types
<1>18. Exchange(toClient, toBroker, broker.out)'
  <2>1. /\ Exchange(toClient, toBroker, Append(broker.out, y0)) /\ Quiet(toClient, toBroker, id)
    BY <1>3, <1>4, <1>9, ListGrows DEF SessionInv
  <2>2. \E y \in Elems(Append(broker.out, y0)) :
          y.id = p.id /\ y.m = p.m /\ y.qos = p.qos /\ y.next # "PUBCOMP"
    BY <1>9, <1>11, <1>13, <1>14
  <2>3. Append(broker.out, y0) \in Seq(Entry) /\ Quiet(toClient, toBroker, p.id)
    BY <1>4, <1>9, <1>11, <2>1
  <2>4. Exchange(Append(toClient, p), toBroker, Append(broker.out, y0))
    BY <1>4, <1>11, <2>1, <2>2, <2>3, AddRequest
  <2> QED BY <1>1, <1>13, <2>4
<1>19. Exchange(toBroker, toClient, outboundMsgs)'
  <2>1. Exchange(toBroker, Append(toClient, p), outboundMsgs)
    BY <1>4, <1>11, <1>12, AddOther DEF SessionInv
  <2> QED BY <1>1, <1>13, <2>1
<1>20. Lists' /\ Mirror' /\ SentInv'
  <2>1. Unique(broker'.out)
    BY <1>18 DEF Exchange
  <2> QED BY <1>1, <1>13, <2>1, MirrorFrame, SentFrame DEF SessionInv, Lists
<1>21. AnswerInv'
  BY <1>1, <1>12, <1>13, <1>15, AnswerFrame DEF SessionInv
<1>22. TokenInv'
  BY <1>1, TokenFrame DEF SessionInv
<1>23. OfferInv'
  <2>1. \A y \in Elems(broker'.out) : y.m \in DOMAIN offered' /\ offered'[y.m] = y.qos
    BY <1>4, <1>9, <1>14, <1>16 DEF OfferInv
  <2>2. \A y, z \in Elems(broker'.out) : y.m = z.m => y = z
    BY <1>4, <1>6, <1>9, <1>14 DEF OfferInv
  <2> QED BY <1>1, <1>4, <1>16, <2>1, <2>2 DEF OfferInv
<1>24. OnceInv'
  <2> SUFFICES ASSUME ~torn' PROVE OnceInv'
    BY DEF OnceInv
  <2>0. OnceInv /\ ~torn
    BY <1>1 DEF SessionInv
  <2>1. \A k : Handled(k)' <=> Handled(k)
    BY <1>1 DEF Handled
  <2>2. ~Handled(m)
    BY <1>4, <1>6 DEF OfferInv, Handled
  <2>3. \A y \in Elems(broker'.out) : y.qos = 2 /\ Handled(y.m)' => y.next = "PUBCOMP"
    BY <1>9, <1>14, <2>0, <2>1, <2>2 DEF OnceInv
  <2>4. \A x \in Elems(inboundMsgs') : ~Handled(x.m)'
    BY <1>1, <2>0, <2>1 DEF OnceInv
  <2>5. \A x \in Elems(inboundMsgs') : x # releasing' =>
          \E y \in Elems(broker'.out) : y.id = x.id /\ y.m = x.m
    BY <1>1, <1>14, <2>0 DEF OnceInv
  <2>6. \A y \in Elems(broker'.out) : y.qos = 2 /\ y.m = releasing'.m => y.next = "PUBCOMP"
    <3>1. releasing.m # m
      BY <1>4, <1>6 DEF OfferInv, NoMsg
    <3> QED BY <1>1, <1>9, <1>14, <2>0, <3>1 DEF OnceInv
  <2>7. ASSUME NEW k \in DOMAIN offered', offered'[k] = 2
        PROVE  Count(k, delivered') + Count(k, messageQueue')
                 + (IF k = calling' /\ freed' THEN 1 ELSE 0) <= 1
    <3>1. CASE k \in DOMAIN offered
      BY <1>1, <1>16, <2>0, <2>7, <3>1 DEF OnceInv
    <3>2. CASE k = m
      <4>1. delivered \in Seq(Nat) /\ messageQueue \in Seq(Nat)
        BY DEF SessionInv, Types, ClientType, PeerType
      <4>2. k \notin Elems(delivered) /\ k \notin Elems(messageQueue)
        BY <2>2, <3>2 DEF Handled
      <4>3. Count(k, delivered) = 0 /\ Count(k, messageQueue) = 0
        BY <4>1, <4>2, CountIs
      <4> QED BY <1>1, <4>3
    <3> QED BY <1>16, <3>1, <3>2
  <2>8. \A x, z \in Elems(inboundMsgs') : x.m = z.m => x = z
    BY <1>1, <2>0 DEF OnceInv
  <2>9. \A q \in Elems(toBroker'), x \in Elems(inboundMsgs') :
          q.t = "PUBCOMP" /\ x # releasing' => x.id # q.id
    BY <1>1, <2>0 DEF OnceInv
  <2> QED BY <2>3, <2>4, <2>5, <2>6, <2>7, <2>8, <2>9 DEF OnceInv
<1> QED BY <1>17, <1>18, <1>19, <1>20, <1>21, <1>22, <1>23, <1>24 DEF SessionInv

LEMMA BrokerTakes ==
  ASSUME SessionInv, BrokerReceives
  PROVE  /\ link /\ toBroker # <<>> /\ toBroker' = Tail(toBroker)
         /\ toClient' = toClient \o BrokerAnswer(Head(toBroker))
         /\ broker' = BrokerAfter(Head(toBroker))
         /\ UNCHANGED <<connected, msgID, outboundMsgs, inboundMsgs, messageQueue, calling, freed, releasing>>
         /\ UNCHANGED <<mode, store, pc, work, tokens, confirmed, link>>
         /\ UNCHANGED <<offered, delivered, published, sentQos, conn, torn>>
         /\ outboundMsgs \in Seq(Entry) /\ Unique(outboundMsgs) /\ toClient \in Seq(Packet)
         /\ broker.out \in Seq(Entry) /\ Unique(broker.out) /\ toBroker \in Seq(Packet)
         /\ broker \in [in : SUBSET Nat, out : Seq(Entry)] /\ received \in Seq(Nat)
         /\ Head(toBroker) \in Packet /\ Head(toBroker) \in Elems(toBroker)
         /\ Tail(toBroker) \in Seq(Packet) /\ Elems(Tail(toBroker)) \subseteq Elems(toBroker)
         /\ ClientType' /\ StoreType' /\ AppType' /\ Mirror'
<1>1. /\ link /\ toBroker # <<>> /\ toBroker' = Tail(toBroker)
      /\ toClient' = toClient \o BrokerAnswer(Head(toBroker))
      /\ broker' = BrokerAfter(Head(toBroker))
      /\ UNCHANGED <<connected, msgID, outboundMsgs, inboundMsgs, messageQueue, calling, freed, releasing>>
      /\ UNCHANGED <<mode, store, pc, work, tokens, confirmed, link>>
      /\ UNCHANGED <<offered, delivered, published, sentQos, conn, torn>>
  BY DEF BrokerReceives, client, app, count
<1>2. /\ outboundMsgs \in Seq(Entry) /\ Unique(outboundMsgs) /\ toClient \in Seq(Packet)
      /\ broker.out \in Seq(Entry) /\ Unique(broker.out) /\ toBroker \in Seq(Packet)
      /\ broker \in [in : SUBSET Nat, out : Seq(Entry)] /\ received \in Seq(Nat)
  BY DEF SessionInv, Types, ClientType, NetType, PeerType, Lists
<1>3. /\ Head(toBroker) \in Packet /\ Head(toBroker) \in Elems(toBroker)
      /\ Tail(toBroker) \in Seq(Packet) /\ Elems(Tail(toBroker)) \subseteq Elems(toBroker)
  BY <1>1, <1>2, ElemsTail
<1>4. ClientType' /\ StoreType' /\ Mirror'
  BY <1>1, MirrorFrame DEF SessionInv, Types, ClientType, StoreType
<1>5. AppType'
  BY <1>1 DEF SessionInv, Types, AppType
<1> QED BY <1>1, <1>2, <1>3, <1>4, <1>5

\* Both directions without the packet.
LEMMA BrokerTakesExchange ==
  ASSUME SessionInv, BrokerReceives
  PROVE  /\ Exchange(Tail(toBroker), toClient, outboundMsgs)
         /\ Exchange(toClient, Tail(toBroker), broker.out)
         /\ Head(toBroker).t \in Requests => Quiet(Tail(toBroker), toClient, Head(toBroker).id)
         /\ Head(toBroker).t \in Answers => Quiet(toClient, Tail(toBroker), Head(toBroker).id)
<1>1. Exchange(toBroker, toClient, outboundMsgs) /\ Exchange(toClient, toBroker, broker.out)
  BY DEF SessionInv
<1>2. /\ Exchange(Tail(toBroker), toClient, outboundMsgs)
      /\ Head(toBroker).t \in Requests => Quiet(Tail(toBroker), toClient, Head(toBroker).id)
  BY <1>1, BrokerTakes, DropRequest DEF Quiet
<1>3. /\ Exchange(toClient, Tail(toBroker), broker.out)
      /\ Head(toBroker).t \in Answers => Quiet(toClient, Tail(toBroker), Head(toBroker).id)
  BY <1>1, BrokerTakes, DropAnswer DEF Quiet
<1> QED BY <1>2, <1>3

\* A packet of the client's flows, answered by q; the broker's list is as it was.
LEMMA BrokerReplies ==
  ASSUME SessionInv, BrokerReceives, Head(toBroker).t \in Requests,
         NEW q \in Packet, q.t \in Answers, q.id = Head(toBroker).id,
         BrokerAnswer(Head(toBroker)) = <<q>>, broker'.out = broker.out,
         broker'.in \subseteq Nat, broker' \in [in : SUBSET Nat, out : Seq(Entry)],
         received' \in Seq(Nat), Elems(received) \subseteq Elems(received'),
         \E x \in Elems(outboundMsgs) : x.id = q.id /\ x.next = q.t
  PROVE  /\ Types' /\ Lists' /\ Mirror' /\ OfferInv' /\ OnceInv' /\ TokenInv'
         /\ Exchange(toBroker, toClient, outboundMsgs)' /\ Exchange(toClient, toBroker, broker.out)'
         /\ Elems(toClient') = Elems(toClient) \cup {q}
         /\ Quiet(Tail(toBroker), toClient, q.id)
<1>1. toClient' = Append(toClient, q) /\ q.t \notin Requests
  <2>1. toClient \o <<q>> = Append(toClient, q)
    BY BrokerTakes
  <2> QED BY <2>1, BrokerTakes DEF Requests, Answers
<1>2. Append(toClient, q) \in Seq(Packet) /\ Elems(Append(toClient, q)) = Elems(toClient) \cup {q}
  BY BrokerTakes, ElemsAppend
<1>3. Quiet(Tail(toBroker), toClient, q.id)
  BY BrokerTakesExchange
<1>4. Exchange(toBroker, toClient, outboundMsgs)'
  <2>1. Exchange(Tail(toBroker), Append(toClient, q), outboundMsgs)
    BY <1>3, BrokerTakes, BrokerTakesExchange, AddAnswer
  <2> QED BY <1>1, <2>1, BrokerTakes
<1>5. Exchange(toClient, toBroker, broker.out)'
  <2>1. Exchange(Append(toClient, q), Tail(toBroker), broker.out)
    BY <1>1, BrokerTakes, BrokerTakesExchange, AddOther
  <2> QED BY <1>1, <2>1, BrokerTakes
<1>6. Types' /\ Mirror'
  <2>1. NetType'
    <3>1. toBroker' \in Seq(Packet) /\ toClient' \in Seq(Packet) /\ UNCHANGED <<link, connected>> /\ link
      BY <1>1, <1>2, BrokerTakes
    <3> QED BY <3>1 DEF SessionInv, Types, NetType
  <2>2. PeerType'
    BY BrokerTakes DEF SessionInv, Types, PeerType
  <2> QED BY <2>1, <2>2, BrokerTakes DEF Types
<1>7. Lists' /\ OfferInv' /\ OnceInv'
  <2>1. Lists' /\ OfferInv'
    BY BrokerTakes, OfferFrame DEF SessionInv, Lists
  <2>2. OnceInv'
    BY BrokerTakes, OnceFrame DEF SessionInv
  <2> QED BY <2>1, <2>2
<1>8. TokenInv'
  BY BrokerTakes, TokenFrame DEF SessionInv
<1> QED BY <1>1, <1>2, <1>3, <1>4, <1>5, <1>6, <1>7, <1>8

\* The broker is given a publication, unless its session has the identifier.
LEMMA BrokerPublish ==
  ASSUME SessionInv, BrokerReceives, Head(toBroker).t = "PUBLISH"
  PROVE  SessionInv'
<1>1. PICK p : p = Head(toBroker)
  OBVIOUS
<1>2. p \in Packet /\ p \in Elems(toBroker) /\ p.t = "PUBLISH" /\ p.id \in Nat /\ p.m \in Nat
  BY <1>1, BrokerTakes DEF Packet
<1>3. PICK x0 \in Elems(outboundMsgs) : x0.id = p.id /\ x0.m = p.m /\ x0.qos = p.qos /\ x0.next # "PUBCOMP"
  BY <1>2 DEF SessionInv, Exchange
<1>4. \A x \in Elems(outboundMsgs) : x.id = p.id => x = x0
  BY <1>3, BrokerTakes, UniqueElems
<1>5. /\ p.qos \in {1, 2} /\ x0.next = IF p.qos = 1 THEN "PUBACK" ELSE "PUBREC"
  <2>1. x0 \in Entry
    BY BrokerTakes, ElemsOf
  <2>2. x0.next \in IF x0.qos = 2 THEN {"PUBREC", "PUBCOMP"} ELSE {"PUBACK"}
    BY DEF SessionInv, Exchange, Waits
  <2> QED BY <1>3, <2>1, <2>2 DEF Entry
<1>6. PICK q : q = Pkt(IF p.qos = 1 THEN "PUBACK" ELSE "PUBREC", p.id, 0, 0, FALSE)
  OBVIOUS
<1>7. /\ q \in Packet /\ q.t = x0.next /\ q.id = p.id /\ q.t \in Answers /\ q.t # "PUBCOMP"
  BY <1>2, <1>5, <1>6 DEF Pkt, Packet, PacketTypes, Answers
<1>8. BrokerAnswer(p) = <<q>> /\ BrokerAfter(p) = [broker EXCEPT !.in = IF p.qos = 2 THEN @ \cup {p.id} ELSE @]
  BY <1>2, <1>6 DEF BrokerAnswer, BrokerAfter
<1>9. /\ broker'.out = broker.out /\ broker' \in [in : SUBSET Nat, out : Seq(Entry)]
      /\ broker'.in = IF p.qos = 2 THEN broker.in \cup {p.id} ELSE broker.in
  <2>1. broker' = [broker EXCEPT !.in = IF p.qos = 2 THEN @ \cup {p.id} ELSE @]
    BY <1>1, <1>8, BrokerTakes
  <2>2. broker \in [in : SUBSET Nat, out : Seq(Entry)]
    BY BrokerTakes
  <2> QED BY <1>2, <2>1, <2>2
<1>10. received' = IF p.qos = 2 /\ p.id \in broker.in THEN received ELSE Append(received, p.m)
  BY <1>1, <1>2 DEF BrokerReceives
<1>11. /\ Append(received, p.m) \in Seq(Nat) /\ Elems(Append(received, p.m)) = Elems(received) \cup {p.m}
  <2>1. received \in Seq(Nat) /\ p.m \in Nat
    BY <1>2, BrokerTakes
  <2> QED BY <2>1, ElemsAppend
<1>12. /\ received' \in Seq(Nat) /\ Elems(received) \subseteq Elems(received')
       /\ Elems(received') \subseteq Elems(received) \cup {p.m}
  BY <1>10, <1>11, BrokerTakes
<1>13. /\ Types' /\ Lists' /\ Mirror' /\ OfferInv' /\ OnceInv' /\ TokenInv'
       /\ Exchange(toBroker, toClient, outboundMsgs)' /\ Exchange(toClient, toBroker, broker.out)'
       /\ Elems(toClient') = Elems(toClient) \cup {q}
       /\ Quiet(Tail(toBroker), toClient, q.id)
  <2>1. p.t \in Requests
    BY <1>2 DEF Requests
  <2>2. \E x \in Elems(outboundMsgs) : x.id = q.id /\ x.next = q.t
    BY <1>3, <1>7
  <2>3. broker'.in \subseteq Nat
    BY <1>9
  <2> QED BY <1>1, <1>7, <1>8, <1>9, <1>12, <2>1, <2>2, <2>3, BrokerReplies
<1>14. SentInv'
  <2>0. SentInv /\ UNCHANGED <<published, sentQos, outboundMsgs>>
    BY BrokerTakes DEF SessionInv
  <2>1. x0.m \in 1 .. published /\ sentQos[x0.m] = x0.qos
    BY <2>0 DEF SentInv
  <2>2. Elems(received') \subseteq 1 .. published'
    BY <1>3, <1>12, <2>0, <2>1 DEF SentInv
  <2>3. ASSUME NEW x \in Elems(outboundMsgs'), x.qos = 2, x.m \in Elems(received')
        PROVE  x.id \in broker'.in \/ x.next = "PUBCOMP"
    <3>1. CASE x.m \in Elems(received)
      BY <1>9, <2>0, <2>3, <3>1 DEF SentInv
    <3>2. CASE x.m = p.m
      BY <1>3, <1>9, <2>0, <2>3, <3>2 DEF SentInv
    <3> QED BY <1>12, <2>3, <3>1, <3>2
  <2>4. ASSUME NEW m \in 1 .. published', sentQos'[m] = 2 PROVE Count(m, received') <= 1
    <3>1. Count(m, received) <= 1 /\ Count(m, received) \in Nat
      BY <2>0, <2>4, BrokerTakes, CountIs DEF SentInv
    <3>2. CASE p.qos = 2 /\ p.id \in broker.in
      BY <1>10, <3>1, <3>2
    <3>3. CASE ~(p.qos = 2 /\ p.id \in broker.in)
      <4>1. Count(m, received') = Count(m, received) + (IF p.m = m THEN 1 ELSE 0)
        BY <1>2, <1>10, <3>3, BrokerTakes, CountAppend
      <4>2. CASE p.m = m
        <5>1. x0.qos = 2
          BY <1>3, <2>0, <2>1, <2>4, <4>2
        <5>2. m \notin Elems(received)
          BY <1>3, <2>0, <3>3, <4>2, <5>1 DEF SentInv
        <5>3. Count(m, received) = 0
          BY <5>2, BrokerTakes, CountIs
        <5> QED BY <4>1, <4>2, <5>3
      <4>3. CASE p.m # m
        BY <3>1, <4>1, <4>3
      <4> QED BY <4>2, <4>3
    <3> QED BY <3>2, <3>3
  <2> QED BY <2>0, <2>2, <2>3, <2>4 DEF SentInv
<1>15. AnswerInv'
  <2> SUFFICES ASSUME Lossless' PROVE AnswerInv'
    BY DEF AnswerInv
  <2>0. AnswerInv /\ Lossless /\ link /\ UNCHANGED <<outboundMsgs>>
    BY BrokerTakes DEF SessionInv, Lossless
  <2>1. x0.m \in Elems(received')
    <3>1. CASE p.qos = 2 /\ p.id \in broker.in
      <4>1. PICK x \in Elems(outboundMsgs) : x.id = p.id /\ x.m \in Elems(received)
        BY <2>0, <3>1 DEF AnswerInv
      <4> QED BY <1>4, <1>12, <4>1
    <3>2. CASE ~(p.qos = 2 /\ p.id \in broker.in)
      BY <1>3, <1>10, <1>11, <3>2
    <3> QED BY <3>1, <3>2
  <2>2. \A r \in Elems(toClient') : r.t \in Answers =>
          \E x \in Elems(outboundMsgs') : x.id = r.id /\ x.next = r.t /\ x.m \in Elems(received')
    <3> SUFFICES ASSUME NEW r \in Elems(toClient'), r.t \in Answers
                 PROVE  \E x \in Elems(outboundMsgs) :
                          x.id = r.id /\ x.next = r.t /\ x.m \in Elems(received')
      BY <2>0
    <3>1. CASE r = q
      BY <1>3, <1>7, <2>1, <3>1
    <3>2. CASE r \in Elems(toClient)
      BY <1>12, <2>0, <3>2 DEF AnswerInv
    <3> QED BY <1>13, <3>1, <3>2
  <2>3. \A x \in Elems(outboundMsgs') : x.next = "PUBCOMP" => x.m \in Elems(received')
    BY <1>12, <2>0 DEF AnswerInv
  <2>4. ASSUME NEW id \in broker'.in
        PROVE  \E x \in Elems(outboundMsgs') : x.id = id /\ x.qos = 2 /\ x.m \in Elems(received')
    <3>1. CASE id \in broker.in
      BY <1>12, <2>0, <3>1 DEF AnswerInv
    <3>2. CASE p.qos = 2 /\ id = p.id
      BY <1>3, <2>0, <2>1, <3>2
    <3> QED BY <1>9, <3>1, <3>2
  <2>5. ASSUME NEW r \in Elems(toClient'), r.t = "PUBCOMP" PROVE r.id \notin broker'.in
    <3>1. r \in Elems(toClient)
      BY <1>7, <1>13, <2>5
    <3>2. r.id # p.id
      BY <1>7, <1>13, <2>5, <3>1 DEF Quiet, Answers
    <3> QED BY <1>9, <2>0, <2>5, <3>1, <3>2 DEF AnswerInv
  <2> QED BY <2>2, <2>3, <2>4, <2>5 DEF AnswerInv
<1> QED BY <1>13, <1>14, <1>15 DEF SessionInv

\* PUBREL ends the broker's memory of the identifier.
LEMMA BrokerPubrel ==
  ASSUME SessionInv, BrokerReceives, Head(toBroker).t = "PUBREL"
  PROVE  SessionInv'
<1>1. PICK p : p = Head(toBroker)
  OBVIOUS
<1>2. p \in Packet /\ p \in Elems(toBroker) /\ p.t = "PUBREL" /\ p.id \in Nat
  BY <1>1, BrokerTakes DEF Packet
<1>3. PICK x0 \in Elems(outboundMsgs) : x0.id = p.id /\ x0.next = "PUBCOMP"
  BY <1>2 DEF SessionInv, Exchange
<1>4. \A x \in Elems(outboundMsgs) : x.id = p.id => x = x0
  BY <1>3, BrokerTakes, UniqueElems
<1>6. PICK q : q = Pkt("PUBCOMP", p.id, 0, 0, FALSE)
  OBVIOUS
<1>7. q \in Packet /\ q.t = "PUBCOMP" /\ q.id = p.id /\ q.t \in Answers
  BY <1>2, <1>6 DEF Pkt, Packet, PacketTypes, Answers
<1>8. BrokerAnswer(p) = <<q>> /\ BrokerAfter(p) = [broker EXCEPT !.in = @ \ {p.id}]
  BY <1>2, <1>6 DEF BrokerAnswer, BrokerAfter
<1>9. /\ broker'.out = broker.out /\ broker' \in [in : SUBSET Nat, out : Seq(Entry)]
      /\ broker'.in = broker.in \ {p.id}
  <2>1. broker' = [broker EXCEPT !.in = @ \ {p.id}]
    BY <1>1, <1>8, BrokerTakes
  <2>2. broker \in [in : SUBSET Nat, out : Seq(Entry)]
    BY BrokerTakes
  <2> QED BY <2>1, <2>2
<1>10. received' = received
  BY <1>1, <1>2 DEF BrokerReceives
<1>13. /\ Types' /\ Lists' /\ Mirror' /\ OfferInv' /\ OnceInv' /\ TokenInv'
       /\ Exchange(toBroker, toClient, outboundMsgs)' /\ Exchange(toClient, toBroker, broker.out)'
       /\ Elems(toClient') = Elems(toClient) \cup {q}
  <2>1. p.t \in Requests
    BY <1>2 DEF Requests
  <2>2. \E x \in Elems(outboundMsgs) : x.id = q.id /\ x.next = q.t
    BY <1>3, <1>7
  <2>3. broker'.in \subseteq Nat /\ received' \in Seq(Nat)
    BY <1>9, <1>10, BrokerTakes
  <2> QED BY <1>1, <1>7, <1>8, <1>9, <1>10, <2>1, <2>2, <2>3, BrokerReplies
<1>14. SentInv'
  <2>0. SentInv /\ UNCHANGED <<published, sentQos, outboundMsgs>>
    BY BrokerTakes DEF SessionInv
  <2>1. \A x \in Elems(outboundMsgs') :
          x.qos = 2 /\ x.m \in Elems(received') => x.id \in broker'.in \/ x.next = "PUBCOMP"
    BY <1>3, <1>4, <1>9, <1>10, <2>0 DEF SentInv
  <2> QED BY <1>10, <2>0, <2>1 DEF SentInv
<1>15. AnswerInv'
  <2> SUFFICES ASSUME Lossless' PROVE AnswerInv'
    BY DEF AnswerInv
  <2>0. AnswerInv /\ Lossless /\ link /\ UNCHANGED <<outboundMsgs>>
    BY BrokerTakes DEF SessionInv, Lossless
  <2>1. x0.m \in Elems(received)
    BY <1>3, <2>0 DEF AnswerInv
  <2>2. \A r \in Elems(toClient') : r.t \in Answers =>
          \E x \in Elems(outboundMsgs') : x.id = r.id /\ x.next = r.t /\ x.m \in Elems(received')
    <3> SUFFICES ASSUME NEW r \in Elems(toClient'), r.t \in Answers
                 PROVE  \E x \in Elems(outboundMsgs) :
                          x.id = r.id /\ x.next = r.t /\ x.m \in Elems(received)
      BY <1>10, <2>0
    <3>1. CASE r = q
      BY <1>3, <1>7, <2>1, <3>1
    <3>2. CASE r \in Elems(toClient)
      BY <2>0, <3>2 DEF AnswerInv
    <3> QED BY <1>13, <3>1, <3>2
  <2>3. \A x \in Elems(outboundMsgs') : x.next = "PUBCOMP" => x.m \in Elems(received')
    BY <1>10, <2>0 DEF AnswerInv
  <2>4. \A id \in broker'.in : \E x \in Elems(outboundMsgs') :
          x.id = id /\ x.qos = 2 /\ x.m \in Elems(received')
    BY <1>9, <1>10, <2>0 DEF AnswerInv
  <2>5. \A r \in Elems(toClient') : r.t = "PUBCOMP" => r.id \notin broker'.in
    BY <1>7, <1>9, <1>13, <2>0 DEF AnswerInv
  <2> QED BY <2>2, <2>3, <2>4, <2>5 DEF AnswerInv
<1> QED BY <1>13, <1>14, <1>15 DEF SessionInv

\* A packet of the broker's own flows leaves the client's as they were.
LEMMA BrokerListens ==
  ASSUME SessionInv, BrokerReceives, Head(toBroker).t \in Answers,
         broker'.in = broker.in, broker' \in [in : SUBSET Nat, out : Seq(Entry)],
         toClient' \in Seq(Packet), Exchange(toClient, toBroker, broker.out)',
         \A q \in Elems(toClient') : q.t \in Answers => q \in Elems(toClient)
  PROVE  Types' /\ Lists' /\ Mirror' /\ SentInv' /\ AnswerInv' /\ TokenInv'
<1>1. received' = received
  BY DEF BrokerReceives, Answers
<1>2. Types' /\ Mirror'
  <2>1. NetType'
    <3>1. toBroker' \in Seq(Packet) /\ UNCHANGED <<link, connected>> /\ link
      BY BrokerTakes
    <3> QED BY <3>1 DEF SessionInv, Types, NetType
  <2>2. PeerType'
    BY <1>1, BrokerTakes DEF SessionInv, Types, PeerType
  <2> QED BY <2>1, <2>2, BrokerTakes DEF Types
<1>3. Lists'
  BY BrokerTakes DEF SessionInv, Lists, Exchange
<1>4. SentInv'
  BY <1>1, BrokerTakes, SentFrame DEF SessionInv
<1>5. AnswerInv'
  BY <1>1, BrokerTakes, AnswerFrame DEF SessionInv
<1>6. TokenInv'
  BY <1>1, BrokerTakes, TokenFrame DEF SessionInv
<1> QED BY <1>2, <1>3, <1>4, <1>5, <1>6

\* The broker's publications with the list that PUBREC leaves.
LEMMA BrokerPubrec ==
  ASSUME SessionInv, BrokerReceives, Head(toBroker).t = "PUBREC"
  PROVE  SessionInv'
<1>1. PICK p : p = Head(toBroker)
  OBVIOUS
<1>2. p \in Packet /\ p \in Elems(toBroker) /\ p.t = "PUBREC" /\ p.id \in Nat /\ p.t \in Answers
  BY <1>1, BrokerTakes DEF Packet, Answers
<1>3. PICK y0 \in Elems(broker.out) : y0.id = p.id /\ y0.next = "PUBREC"
  BY <1>2 DEF SessionInv, Exchange
<1>4. \A y \in Elems(broker.out) : y.id = p.id => y = y0
  BY <1>3, BrokerTakes, UniqueElems
<1>5. y0.qos = 2
  BY <1>3 DEF SessionInv, Exchange, Waits
<1>6. PICK q : q = Pkt("PUBREL", p.id, 0, 0, FALSE)
  OBVIOUS
<1>7. q \in Packet /\ q.t = "PUBREL" /\ q.id = p.id /\ q.t \notin Answers
  BY <1>2, <1>6 DEF Pkt, Packet, PacketTypes, Answers
<1>8. /\ BrokerAnswer(p) = <<q>>
      /\ BrokerAfter(p) = [broker EXCEPT !.out = Confirm(broker.out, p.id)]
  BY <1>2, <1>6 DEF BrokerAnswer, BrokerAfter, Confirm
<1>9. /\ Confirm(broker.out, p.id) \in Seq(Entry)
      /\ \A x \in Elems(broker.out) : \E y \in Elems(Confirm(broker.out, p.id)) : ConfirmedAs(x, y, p.id)
      /\ \A y \in Elems(Confirm(broker.out, p.id)) : \E x \in Elems(broker.out) : ConfirmedAs(x, y, p.id)
      /\ Unique(Confirm(broker.out, p.id))
  BY BrokerTakes, ConfirmElems, ConfirmMap
<1>10. /\ broker'.out = Confirm(broker.out, p.id) /\ broker' \in [in : SUBSET Nat, out : Seq(Entry)]
       /\ broker'.in = broker.in
  <2>1. broker' = [broker EXCEPT !.out = Confirm(broker.out, p.id)]
    BY <1>1, <1>8, BrokerTakes
  <2>2. broker \in [in : SUBSET Nat, out : Seq(Entry)]
    BY BrokerTakes
  <2> QED BY <1>9, <2>1, <2>2
<1>11. /\ toClient' = Append(toClient, q) /\ toClient' \in Seq(Packet)
       /\ Elems(toClient') = Elems(toClient) \cup {q}
  <2>1. toClient \o <<q>> = Append(toClient, q) /\ toClient \in Seq(Packet)
    BY BrokerTakes
  <2>2. toClient' = Append(toClient, q)
    BY <1>1, <1>8, <2>1, BrokerTakes
  <2> QED BY <1>7, <2>1, <2>2, ElemsAppend
<1>12. Exchange(toClient, toBroker, broker.out)'
  <2>1. Quiet(toClient, Tail(toBroker), p.id)
    BY <1>1, <1>2, BrokerTakesExchange
  <2>2. Exchange(toClient, Tail(toBroker), Confirm(broker.out, p.id))
    BY <1>4, <1>5, <2>1, BrokerTakes, BrokerTakesExchange, ListConfirms
  <2>3. \E y \in Elems(Confirm(broker.out, p.id)) : y.id = q.id /\ y.next = "PUBCOMP"
    BY <1>3, <1>7, <1>9 DEF ConfirmedAs
  <2>4. Exchange(Append(toClient, q), Tail(toBroker), Confirm(broker.out, p.id))
    BY <1>7, <1>9, <2>1, <2>2, <2>3, BrokerTakes, AddRequest
  <2> QED BY <1>10, <1>11, <2>4, BrokerTakes
<1>13. Exchange(toBroker, toClient, outboundMsgs)'
  <2>1. Exchange(Tail(toBroker), Append(toClient, q), outboundMsgs)
    BY <1>7, BrokerTakes, BrokerTakesExchange, AddOther
  <2> QED BY <1>11, <2>1, BrokerTakes
<1>14. Types' /\ Lists' /\ Mirror' /\ SentInv' /\ AnswerInv' /\ TokenInv'
  BY <1>1, <1>2, <1>7, <1>10, <1>11, <1>12, BrokerListens
<1>15. /\ \A y \in Elems(broker.out) : \E z \in Elems(broker'.out) : ConfirmedAs(y, z, p.id)
       /\ \A z \in Elems(broker'.out) : \E y \in Elems(broker.out) : ConfirmedAs(y, z, p.id)
       /\ Unique(broker'.out) /\ broker'.out \in Seq(Entry)
  BY <1>9, <1>10
<1>16. OfferInv'
  <2>0. OfferInv /\ UNCHANGED <<offered, inboundMsgs, messageQueue, calling, freed, releasing, delivered>>
    BY BrokerTakes DEF SessionInv
  <2>1. \A y \in Elems(broker'.out) : y.m \in DOMAIN offered' /\ offered'[y.m] = y.qos
    BY <1>15, <2>0 DEF OfferInv, ConfirmedAs
  <2>2. ASSUME NEW y \in Elems(broker'.out), NEW z \in Elems(broker'.out), y.m = z.m PROVE y = z
    <3>1. PICK u \in Elems(broker.out) : ConfirmedAs(u, y, p.id)
      BY <1>15
    <3>2. PICK v \in Elems(broker.out) : ConfirmedAs(v, z, p.id)
      BY <1>15
    <3>3. u = v
      BY <2>0, <2>2, <3>1, <3>2 DEF OfferInv, ConfirmedAs
    <3>4. y.id = z.id
      BY <3>1, <3>2, <3>3 DEF ConfirmedAs
    <3> QED BY <1>15, <3>4, UniqueElems
  <2> QED BY <2>0, <2>1, <2>2 DEF OfferInv
<1>17. OnceInv'
  <2> SUFFICES ASSUME ~torn' PROVE OnceInv'
    BY DEF OnceInv
  <2>0. /\ OnceInv /\ ~torn
        /\ UNCHANGED <<offered, inboundMsgs, messageQueue, calling, freed, releasing, delivered>>
    BY BrokerTakes DEF SessionInv
  <2>1. \A m : Handled(m)' <=> Handled(m)
    BY <2>0 DEF Handled
  <2>2. \A z \in Elems(broker'.out) : z.qos = 2 /\ Handled(z.m)' => z.next = "PUBCOMP"
    <3> SUFFICES ASSUME NEW z \in Elems(broker'.out), z.qos = 2, Handled(z.m) PROVE z.next = "PUBCOMP"
      BY <2>1
    <3>1. PICK y \in Elems(broker.out) : ConfirmedAs(y, z, p.id)
      BY <1>15
    <3>2. y.next = "PUBCOMP"
      <4>1. y.qos = 2 /\ y.m = z.m
        BY <3>1 DEF ConfirmedAs
      <4> QED BY <2>0, <4>1 DEF OnceInv
    <3> QED BY <3>1, <3>2 DEF ConfirmedAs
  <2>3. \A x \in Elems(inboundMsgs') : ~Handled(x.m)'
    BY <2>0, <2>1 DEF OnceInv
  <2>4. \A x \in Elems(inboundMsgs') : x # releasing' =>
          \E z \in Elems(broker'.out) : z.id = x.id /\ z.m = x.m
    <3> SUFFICES ASSUME NEW x \in Elems(inboundMsgs), x # releasing
                 PROVE  \E z \in Elems(broker'.out) : z.id = x.id /\ z.m = x.m
      BY <2>0
    <3>1. PICK y \in Elems(broker.out) : y.id = x.id /\ y.m = x.m
      BY <2>0 DEF OnceInv
    <3> QED BY <1>15, <3>1 DEF ConfirmedAs
  <2>5. \A z \in Elems(broker'.out) : z.qos = 2 /\ z.m = releasing'.m => z.next = "PUBCOMP"
    BY <1>15, <2>0 DEF OnceInv, ConfirmedAs
  <2>6. \A r \in Elems(toBroker'), x \in Elems(inboundMsgs') :
          r.t = "PUBCOMP" /\ x # releasing' => x.id # r.id
    BY <2>0, BrokerTakes DEF OnceInv
  <2>7. \A m \in DOMAIN offered' : offered'[m] = 2 =>
          Count(m, delivered') + Count(m, messageQueue')
            + (IF m = calling' /\ freed' THEN 1 ELSE 0) <= 1
    BY <2>0 DEF OnceInv
  <2>8. \A x, z \in Elems(inboundMsgs') : x.m = z.m => x = z
    BY <2>0 DEF OnceInv
  <2> QED BY <2>2, <2>3, <2>4, <2>5, <2>6, <2>7, <2>8 DEF OnceInv
<1> QED BY <1>12, <1>13, <1>14, <1>16, <1>17 DEF SessionInv

\* The end of a flow of the broker's.
LEMMA BrokerFlowEnds ==
  ASSUME SessionInv, BrokerReceives, Head(toBroker).t \in {"PUBACK", "PUBCOMP"}
  PROVE  SessionInv'
<1>1. PICK p : p = Head(toBroker)
  OBVIOUS
<1>2. p \in Elems(toBroker) /\ p.t \in {"PUBACK", "PUBCOMP"} /\ p.t \in Answers
  BY <1>1, BrokerTakes DEF Answers
<1>3. PICK y0 \in Elems(broker.out) : y0.id = p.id /\ y0.next = p.t
  BY <1>2 DEF SessionInv, Exchange
<1>4. \A y \in Elems(broker.out) : y.id = p.id => y = y0
  BY <1>3, BrokerTakes, UniqueElems
<1>5. BrokerAnswer(p) = <<>> /\ BrokerAfter(p) = [broker EXCEPT !.out = Without(broker.out, p.id)]
  BY <1>2 DEF BrokerAnswer, BrokerAfter
<1>6. /\ Without(broker.out, p.id) \in Seq(Entry) /\ Unique(Without(broker.out, p.id))
      /\ Elems(Without(broker.out, p.id)) = {y \in Elems(broker.out) : y.id # p.id}
  BY BrokerTakes, WithoutElems
<1>7. /\ broker'.out = Without(broker.out, p.id) /\ broker' \in [in : SUBSET Nat, out : Seq(Entry)]
      /\ broker'.in = broker.in
  <2>1. broker' = [broker EXCEPT !.out = Without(broker.out, p.id)]
    BY <1>1, <1>5, BrokerTakes
  <2>2. broker \in [in : SUBSET Nat, out : Seq(Entry)]
    BY BrokerTakes
  <2> QED BY <1>6, <2>1, <2>2
<1>8. toClient' = toClient /\ toClient \in Seq(Packet)
  <2>1. toClient \o <<>> = toClient /\ toClient \in Seq(Packet)
    BY BrokerTakes
  <2> QED BY <1>1, <1>5, <2>1, BrokerTakes
<1>9. Exchange(toClient, toBroker, broker.out)'
  <2>1. Quiet(toClient, Tail(toBroker), p.id)
    BY <1>1, <1>2, BrokerTakesExchange
  <2>2. Exchange(toClient, Tail(toBroker), Without(broker.out, p.id))
    BY <2>1, BrokerTakes, BrokerTakesExchange, ListLoses
  <2> QED BY <1>7, <1>8, <2>2, BrokerTakes
<1>10. Exchange(toBroker, toClient, outboundMsgs)'
  BY <1>8, BrokerTakes, BrokerTakesExchange
<1>11. Types' /\ Lists' /\ Mirror' /\ SentInv' /\ AnswerInv' /\ TokenInv'
  BY <1>1, <1>2, <1>7, <1>8, <1>9, BrokerListens
<1>12. OfferInv'
  BY <1>6, <1>7, BrokerTakes DEF SessionInv, OfferInv
<1>13. OnceInv'
  <2> SUFFICES ASSUME ~torn' PROVE OnceInv'
    BY DEF OnceInv
  <2>0. /\ OnceInv /\ OfferInv /\ ~torn
        /\ UNCHANGED <<offered, inboundMsgs, messageQueue, calling, freed, releasing, delivered>>
    BY BrokerTakes DEF SessionInv
  <2>1. \A m : Handled(m)' <=> Handled(m)
    BY <2>0 DEF Handled
  \* A message that waits for PUBREL is not one whose flow ends.
  <2>2. \A x \in Elems(inboundMsgs') : x # releasing' =>
          \E z \in Elems(broker'.out) : z.id = x.id /\ z.m = x.m
    <3> SUFFICES ASSUME NEW x \in Elems(inboundMsgs), x # releasing
                 PROVE  \E z \in Elems(broker'.out) : z.id = x.id /\ z.m = x.m
      BY <2>0
    <3>1. PICK y \in Elems(broker.out) : y.id = x.id /\ y.m = x.m
      BY <2>0 DEF OnceInv
    <3>2. y.id # p.id
      <4> SUFFICES ASSUME y.id = p.id PROVE FALSE
        OBVIOUS
      <4>1. CASE p.t = "PUBCOMP"
        BY <1>2, <2>0, <3>1, <4>1 DEF OnceInv
      <4>2. CASE p.t = "PUBACK"
        <5>1. y.next = "PUBACK" /\ y.qos = 2
          BY <1>3, <1>4, <2>0, <3>1, <4>2 DEF OfferInv
        <5> QED BY <5>1 DEF SessionInv, Exchange, Waits
      <4> QED BY <1>2, <4>1, <4>2
    <3> QED BY <1>6, <1>7, <3>1, <3>2
  <2>3. \A z \in Elems(broker'.out) : z.qos = 2 /\ Handled(z.m)' => z.next = "PUBCOMP"
    BY <1>6, <1>7, <2>0, <2>1 DEF OnceInv
  <2>4. \A x \in Elems(inboundMsgs') : ~Handled(x.m)'
    BY <2>0, <2>1 DEF OnceInv
  <2>5. \A z \in Elems(broker'.out) : z.qos = 2 /\ z.m = releasing'.m => z.next = "PUBCOMP"
    BY <1>6, <1>7, <2>0 DEF OnceInv
  <2>6. \A r \in Elems(toBroker'), x \in Elems(inboundMsgs') :
          r.t = "PUBCOMP" /\ x # releasing' => x.id # r.id
    BY <2>0, BrokerTakes DEF OnceInv
  <2>7. \A m \in DOMAIN offered' : offered'[m] = 2 =>
          Count(m, delivered') + Count(m, messageQueue')
            + (IF m = calling' /\ freed' THEN 1 ELSE 0) <= 1
    BY <2>0 DEF OnceInv
  <2>8. \A x, z \in Elems(inboundMsgs') : x.m = z.m => x = z
    BY <2>0 DEF OnceInv
  <2> QED BY <2>2, <2>3, <2>4, <2>5, <2>6, <2>7, <2>8 DEF OnceInv
<1> QED BY <1>9, <1>10, <1>11, <1>12, <1>13 DEF SessionInv

LEMMA BrokerReceivesStep ==
  ASSUME SessionInv, BrokerReceives
  PROVE  SessionInv'
<1>1. Head(toBroker).t \in PacketTypes
  BY BrokerTakes DEF Packet
<1> QED BY <1>1, BrokerPublish, BrokerPubrel, BrokerPubrec, BrokerFlowEnds DEF PacketTypes
-----------------------------------------------------------------------------
(* The invariant, and what it says.                                        *)

LEMMA SessionInvInit ==
  ASSUME Init
  PROVE  SessionInv
<1>1. /\ mode \in Modes /\ connected = FALSE /\ msgID \in FirstIds
      /\ outboundMsgs = <<>> /\ inboundMsgs = <<>> /\ messageQueue = <<>>
      /\ calling = 0 /\ freed = FALSE /\ releasing = NoMsg /\ store = EmptyStore
      /\ pc = "idle" /\ work = NoWork /\ tokens = {} /\ confirmed = {}
      /\ link = FALSE /\ toBroker = <<>> /\ toClient = <<>> /\ broker = NoSession
      /\ received = <<>> /\ delivered = <<>> /\ published = 0 /\ sentQos = <<>> /\ offered = <<>>
      /\ conn = 0 /\ torn = FALSE
  BY DEF Init
<1>2. broker.in = {} /\ broker.out = <<>> /\ broker \in [in : SUBSET Nat, out : Seq(Entry)]
  BY <1>1 DEF NoSession
<1>3. /\ Elems(outboundMsgs) = {} /\ Elems(inboundMsgs) = {} /\ Elems(messageQueue) = {}
      /\ Elems(toBroker) = {} /\ Elems(toClient) = {} /\ Elems(broker.out) = {}
      /\ Elems(received) = {} /\ Elems(delivered) = {}
  BY <1>1, <1>2, ElemsEmpty
<1>4. ClientType
  <2>1. <<>> \in Seq(Entry) /\ <<>> \in Seq(Inbound) /\ <<>> \in Seq(Nat)
    OBVIOUS
  <2>2. NoMsg \in Inbound
    BY DEF NoMsg, Inbound
  <2> QED BY <1>1, <2>1, <2>2, FirstIdAssumption DEF ClientType
<1>5. StoreType
  BY <1>1 DEF StoreType, EmptyStore
<1>6. AppType
  BY <1>1 DEF AppType, NoWork
<1>7. NetType
  <2>1. <<>> \in Seq(Packet)
    OBVIOUS
  <2> QED BY <1>1, <2>1 DEF NetType
<1>8. PeerType
  BY <1>1, <1>2 DEF PeerType
<1>9. Unique(outboundMsgs) /\ Unique(inboundMsgs) /\ Unique(broker.out)
  BY <1>1, <1>2 DEF Unique
<1>10. Waits(outboundMsgs) /\ Waits(broker.out)
  BY <1>3 DEF Waits
<1>11. Exchange(toBroker, toClient, outboundMsgs) /\ Exchange(toClient, toBroker, broker.out)
  BY <1>1, <1>9, <1>10, NothingOnTheWay
<1>12. Mirror
  BY <1>1, <1>3 DEF Mirror, EmptyStore
<1>13. SentInv
  BY <1>1, <1>3 DEF SentInv
<1>14. AnswerInv /\ TokenInv
  BY <1>1, <1>2, <1>3 DEF AnswerInv, TokenInv, CompletionTrue
<1>15. OfferInv
  BY <1>1, <1>3 DEF OfferInv
<1>16. OnceInv
  BY <1>1, <1>3 DEF OnceInv
<1> QED BY <1>4, <1>5, <1>6, <1>7, <1>8, <1>9, <1>11, <1>12, <1>13, <1>14, <1>15, <1>16
        DEF SessionInv, Types, Lists

LEMMA SessionInvStutter ==
  ASSUME SessionInv, UNCHANGED vars
  PROVE  SessionInv'
<1>1. /\ UNCHANGED <<mode, client, store, net, peer, hist, conn, torn>>
      /\ UNCHANGED <<pc, work, tokens, confirmed, published, conn, mode, connected, outboundMsgs, received>>
  BY DEF vars, app, count, client, hist
<1>2. AppType'
  BY <1>1 DEF SessionInv, Types, AppType
<1>3. TokenInv'
  BY <1>1, TokenFrame DEF SessionInv
<1> QED BY <1>1, <1>2, <1>3, AppStep

LEMMA SessionInvNext ==
  ASSUME SessionInv, Next
  PROVE  SessionInv'
<1>1. CASE MQTTClient_connect
  BY <1>1, ConnectStep
<1>2. CASE PublishBegin \/ PublishFails
  BY <1>2, PublishBeginStep
<1>3. CASE Publish
  BY <1>3, PublishStep
<1>4. CASE WaitBegin
  BY <1>4, WaitBeginStep
<1>5. CASE WaitEnds
  BY <1>5, WaitEndsStep
<1>6. CASE ConnectFails \/ MQTTClient_disconnect \/ ConnectionLost
  BY <1>6, CloseSteps
<1>7. CASE HandlePublish
  BY <1>7, HandlePublishStep
<1>8. CASE HandlePuback \/ HandlePubcomp
  BY <1>8, HandleFlowEndStep
<1>9. CASE HandlePubrec
  BY <1>9, HandlePubrecStep
<1>10. CASE HandlePubrel
  BY <1>10, HandlePubrelStep
<1>11. CASE Release
  BY <1>11, ReleaseStep
<1>12. CASE CallArrived
  BY <1>12, CallArrivedStep
<1>13. CASE ArrivedReturns
  BY <1>13, ArrivedReturnsStep
<1>14. CASE Restart
  BY <1>14, RestartStep
<1>15. CASE BrokerOffers
  BY <1>15, BrokerOffersStep
<1>16. CASE BrokerReceives
  BY <1>16, BrokerReceivesStep
<1>17. CASE BreakConnection
  BY <1>17, BreakStep
<1> QED BY <1>1, <1>2, <1>3, <1>4, <1>5, <1>6, <1>7, <1>8, <1>9, <1>10, <1>11, <1>12, <1>13, <1>14,
           <1>15, <1>16, <1>17
        DEF Next, Application, MQTTClient_run, Broker

LEMMA SessionInvAlways == Spec => []SessionInv
<1>1. Init => SessionInv
  BY SessionInvInit
<1>2. SessionInv /\ [Next]_vars => SessionInv'
  BY SessionInvNext, SessionInvStutter
<1> QED BY <1>1, <1>2, PTL DEF Spec

\* What the store holds is what the lists hold, at every step: the publications in
\* flight with the PUBRELs sent, the messages that wait for PUBREL and the queue. So
\* restorePackets and restoreMessageQueue build the lists of before a restart.
THEOREM StoredIsListed == Spec => []Mirror
<1>1. SessionInv => Mirror
  BY DEF SessionInv
<1> QED BY <1>1, SessionInvAlways, PTL

\* No publication with QoS 2 reaches the broker twice, and none reaches the
\* application twice unless a restart interrupts handlePubrels or a callback: for
\* every window, every number of publications, faults and restarts, in a clean or a
\* kept session, with a store or without.
THEOREM QoS2Once == Spec => []NeverTwice
<1>1. SessionInv => NeverTwice
  <2> SUFFICES ASSUME SessionInv PROVE NeverTwice
    OBVIOUS
  <2>1. \A m \in 1 .. published : sentQos[m] = 2 => Count(m, received) <= 1
    BY DEF SessionInv, SentInv
  <2>2. ASSUME NEW m \in DOMAIN offered, offered[m] = 2, ~torn
        PROVE  Count(m, delivered) + Count(m, messageQueue) <= 1
    <3>1. Count(m, delivered) + Count(m, messageQueue) + (IF m = calling /\ freed THEN 1 ELSE 0) <= 1
      BY <2>2 DEF SessionInv, OnceInv
    <3>2. Count(m, delivered) \in Nat /\ Count(m, messageQueue) \in Nat
      BY CountIs DEF SessionInv, Types, ClientType, PeerType
    <3> QED BY <3>1, <3>2
  <2> QED BY <2>1, <2>2 DEF NeverTwice
<1> QED BY <1>1, SessionInvAlways, PTL

\* waitForCompletion reports only what the broker has received, in a session that is
\* clean or has a store. The condition is needed: in a session that is kept without a
\* store, a restart begins the identifiers anew while the broker still has the old
\* ones, and it answers a new publication with the identifier of an old one as if it
\* were a repetition.
THEOREM CompletionIsTrue ==
  ASSUME \A md \in Modes : md.clean \/ md.persist
  PROVE  Spec => []CompletionTrue
<1>1. SessionInv => CompletionTrue
  BY DEF SessionInv, Types, PeerType, TokenInv, Lossless
<1> QED BY <1>1, SessionInvAlways, PTL
-----------------------------------------------------------------------------
(* The order of the packets: toClient, then toBroker, is one queue in      *)
(* which the broker's answer takes the place of the request.               *)

\* s has a packet with a type of T and this identifier.
Has(s, T, id) == \E i \in DOMAIN s : s[i].t \in T /\ s[i].id = id

\* Each such packet for jd has one for id in front of it.
Led(s, T, id, jd) ==
  \A j \in DOMAIN s : s[j].t \in T /\ s[j].id = jd =>
    \E i \in DOMAIN s : i < j /\ s[i].t \in T /\ s[i].id = id

\* The packet for id is under way, or the one for jd is not in front of it.
UnderWay(a, b, id) == Has(a, Answers, id) \/ Has(b, Requests, id)
Ahead(a, b, id, jd) ==
  Led(a, Answers, id, jd) /\ (Has(a, Answers, id) \/ Led(b, Requests, id, jd))

LEMMA HasAppend ==
  ASSUME NEW s \in Seq(Packet), NEW e \in Packet, NEW T, NEW id
  PROVE  Has(Append(s, e), T, id) <=> Has(s, T, id) \/ (e.t \in T /\ e.id = id)
<1>1. PICK u : u = Append(s, e)
  OBVIOUS
<1>2. /\ Len(s) \in Nat /\ DOMAIN s = 1 .. Len(s) /\ DOMAIN u = 1 .. Len(s) + 1
      /\ \A i \in 1 .. Len(s) : u[i] = s[i]
      /\ u[Len(s) + 1] = e
  BY <1>1
<1>3. \A i \in DOMAIN u : i \in DOMAIN s \/ i = Len(s) + 1
  BY <1>2
<1>4. Len(s) + 1 \in DOMAIN u /\ DOMAIN s \subseteq DOMAIN u
  BY <1>2
<1>5. Has(u, T, id) <=> Has(s, T, id) \/ (e.t \in T /\ e.id = id)
  <2>1. ASSUME Has(u, T, id) PROVE Has(s, T, id) \/ (e.t \in T /\ e.id = id)
    BY <1>2, <1>3, <2>1 DEF Has
  <2>2. ASSUME Has(s, T, id) PROVE Has(u, T, id)
    BY <1>2, <1>4, <2>2 DEF Has
  <2>3. ASSUME e.t \in T, e.id = id PROVE Has(u, T, id)
    BY <1>2, <1>4, <2>3 DEF Has
  <2> QED BY <2>1, <2>2, <2>3
<1> QED BY <1>1, <1>5

LEMMA LedAppend ==
  ASSUME NEW s \in Seq(Packet), NEW e \in Packet, NEW T, NEW id, NEW jd, Led(s, T, id, jd),
         e.t \in T /\ e.id = jd => Has(s, T, id)
  PROVE  Led(Append(s, e), T, id, jd)
<1>1. PICK u : u = Append(s, e)
  OBVIOUS
<1>2. /\ Len(s) \in Nat /\ DOMAIN s = 1 .. Len(s) /\ DOMAIN u = 1 .. Len(s) + 1
      /\ \A i \in 1 .. Len(s) : u[i] = s[i]
      /\ u[Len(s) + 1] = e
  BY <1>1
<1>3. ASSUME NEW j \in DOMAIN u, u[j].t \in T, u[j].id = jd
      PROVE  \E i \in DOMAIN u : i < j /\ u[i].t \in T /\ u[i].id = id
  <2>1. CASE j \in DOMAIN s
    <3>1. PICK i \in DOMAIN s : i < j /\ s[i].t \in T /\ s[i].id = id
      BY <1>2, <1>3, <2>1 DEF Led
    <3> QED BY <1>2, <3>1
  <2>2. CASE j = Len(s) + 1
    <3>1. PICK i \in DOMAIN s : s[i].t \in T /\ s[i].id = id
      BY <1>2, <1>3, <2>2 DEF Has
    <3>2. i < j /\ i \in DOMAIN u /\ u[i] = s[i]
      BY <1>2, <2>2
    <3> QED BY <3>1, <3>2
  <2> QED BY <1>2, <2>1, <2>2
<1>4. Led(u, T, id, jd)
  BY <1>3 DEF Led
<1> QED BY <1>1, <1>4

\* What Tail leaves of a queue.
LEMMA TailIs ==
  ASSUME NEW s \in Seq(Packet), s # <<>>
  PROVE  /\ Len(s) \in Nat \ {0} /\ DOMAIN s = 1 .. Len(s) /\ DOMAIN Tail(s) = 1 .. Len(s) - 1
         /\ \A i \in 1 .. Len(s) - 1 : Tail(s)[i] = s[i + 1]
         /\ Head(s) = s[1] /\ 1 \in DOMAIN s
OBVIOUS

LEMMA HasTail ==
  ASSUME NEW s \in Seq(Packet), s # <<>>, NEW T, NEW id
  PROVE  /\ Has(s, T, id) /\ ~(Head(s).t \in T /\ Head(s).id = id) => Has(Tail(s), T, id)
         /\ Has(Tail(s), T, id) => Has(s, T, id)
<1>1. PICK u : u = Tail(s)
  OBVIOUS
<1>2. /\ Len(s) \in Nat \ {0} /\ DOMAIN s = 1 .. Len(s) /\ DOMAIN u = 1 .. Len(s) - 1
      /\ \A i \in 1 .. Len(s) - 1 : u[i] = s[i + 1]
      /\ Head(s) = s[1]
  BY <1>1, TailIs
<1>3. ASSUME Has(s, T, id), ~(Head(s).t \in T /\ Head(s).id = id) PROVE Has(u, T, id)
  <2>1. PICK i \in DOMAIN s : s[i].t \in T /\ s[i].id = id
    BY <1>3 DEF Has
  <2>2. i # 1
    BY <1>2, <1>3, <2>1
  <2>3. i - 1 \in DOMAIN u /\ u[i - 1] = s[i]
    BY <1>2, <2>1, <2>2
  <2> QED BY <2>1, <2>3 DEF Has
<1>4. ASSUME Has(u, T, id) PROVE Has(s, T, id)
  <2>1. PICK i \in DOMAIN u : u[i].t \in T /\ u[i].id = id
    BY <1>4 DEF Has
  <2>2. i + 1 \in DOMAIN s /\ s[i + 1] = u[i]
    BY <1>2, <2>1
  <2> QED BY <2>1, <2>2 DEF Has
<1> QED BY <1>1, <1>3, <1>4

LEMMA LedTail ==
  ASSUME NEW s \in Seq(Packet), s # <<>>, NEW T, NEW id, NEW jd, Led(s, T, id, jd)
  PROVE  /\ ~(Head(s).t \in T /\ Head(s).id = jd)
         /\ ~(Head(s).t \in T /\ Head(s).id = id) => Led(Tail(s), T, id, jd)
<1>1. PICK u : u = Tail(s)
  OBVIOUS
<1>2. /\ Len(s) \in Nat \ {0} /\ DOMAIN s = 1 .. Len(s) /\ DOMAIN u = 1 .. Len(s) - 1
      /\ \A i \in 1 .. Len(s) - 1 : u[i] = s[i + 1]
      /\ Head(s) = s[1]
  BY <1>1, TailIs
<1>3. ASSUME Head(s).t \in T, Head(s).id = jd PROVE FALSE
  <2>1. PICK i \in DOMAIN s : i < 1
    BY <1>2, <1>3 DEF Led
  <2> QED BY <1>2, <2>1
<1>4. ASSUME ~(Head(s).t \in T /\ Head(s).id = id),
             NEW j \in DOMAIN u, u[j].t \in T, u[j].id = jd
      PROVE  \E i \in DOMAIN u : i < j /\ u[i].t \in T /\ u[i].id = id
  <2>1. j + 1 \in DOMAIN s /\ s[j + 1] = u[j]
    BY <1>2, <1>4
  <2>2. PICK i \in DOMAIN s : i < j + 1 /\ s[i].t \in T /\ s[i].id = id
    BY <1>4, <2>1 DEF Led
  <2>3. i # 1
    BY <1>2, <1>4, <2>2
  <2>4. i - 1 \in DOMAIN u /\ u[i - 1] = s[i] /\ i - 1 < j
    BY <1>2, <1>4, <2>2, <2>3
  <2> QED BY <2>2, <2>4
<1>5. ~(Head(s).t \in T /\ Head(s).id = id) => Led(u, T, id, jd)
  BY <1>4 DEF Led
<1> QED BY <1>1, <1>3, <1>5

LEMMA EmptyQueue ==
  \A T, id, jd : ~Has(<<>>, T, id) /\ Led(<<>>, T, id, jd)
BY DEF Has, Led

-----------------------------------------------------------------------------
\* Packets of the other direction change nothing.
LEMMA OtherTaken ==
  ASSUME NEW a \in Seq(Packet), NEW b \in Seq(Packet), NEW id, a # <<>>, Head(a).t \notin Answers
  PROVE  /\ UnderWay(a, b, id) => UnderWay(Tail(a), b, id)
         /\ \A jd : Ahead(a, b, id, jd) => Ahead(Tail(a), b, id, jd)
BY HasTail, LedTail DEF UnderWay, Ahead

LEMMA OtherRead ==
  ASSUME NEW a \in Seq(Packet), NEW b \in Seq(Packet), NEW id, b # <<>>, Head(b).t \notin Requests
  PROVE  /\ UnderWay(a, b, id) => UnderWay(a, Tail(b), id)
         /\ \A jd : Ahead(a, b, id, jd) => Ahead(a, Tail(b), id, jd)
BY HasTail, LedTail DEF UnderWay, Ahead

LEMMA OtherSent ==
  ASSUME NEW a \in Seq(Packet), NEW b \in Seq(Packet), NEW id, NEW e \in Packet, e.t \notin Requests
  PROVE  /\ UnderWay(a, b, id) => UnderWay(a, Append(b, e), id)
         /\ \A jd : Ahead(a, b, id, jd) => Ahead(a, Append(b, e), id, jd)
BY HasAppend, LedAppend DEF UnderWay, Ahead

LEMMA OtherOffered ==
  ASSUME NEW a \in Seq(Packet), NEW b \in Seq(Packet), NEW id, NEW e \in Packet, e.t \notin Answers
  PROVE  /\ UnderWay(a, b, id) => UnderWay(Append(a, e), b, id)
         /\ \A jd : Ahead(a, b, id, jd) => Ahead(Append(a, e), b, id, jd)
BY HasAppend, LedAppend DEF UnderWay, Ahead

\* The broker reads a request and answers it.
LEMMA RequestRead ==
  ASSUME NEW a \in Seq(Packet), NEW b \in Seq(Packet), NEW id, b # <<>>, Head(b).t \in Requests,
         NEW q \in Packet, q.t \in Answers, q.id = Head(b).id
  PROVE  /\ UnderWay(a, b, id) => UnderWay(Append(a, q), Tail(b), id)
         /\ \A jd : Ahead(a, b, id, jd) => Ahead(Append(a, q), Tail(b), id, jd)
<1>1. ASSUME UnderWay(a, b, id) PROVE UnderWay(Append(a, q), Tail(b), id)
  BY <1>1, HasAppend, HasTail DEF UnderWay
<1>2. ASSUME NEW jd, Ahead(a, b, id, jd) PROVE Ahead(Append(a, q), Tail(b), id, jd)
  <2>1. q.id = jd => Has(a, Answers, id)
    BY <1>2, LedTail DEF Ahead
  <2>2. Led(Append(a, q), Answers, id, jd)
    BY <1>2, <2>1, LedAppend DEF Ahead
  <2>3. Has(Append(a, q), Answers, id) \/ Led(Tail(b), Requests, id, jd)
    BY <1>2, HasAppend, LedTail DEF Ahead
  <2> QED BY <2>2, <2>3 DEF Ahead
<1> QED BY <1>1, <1>2

\* The client takes the answer to a request: it was in front of all others.
LEMMA AnswerTakenFirst ==
  ASSUME NEW a \in Seq(Packet), NEW b \in Seq(Packet), a # <<>>, Head(a).t \in Answers, NEW id
  PROVE  /\ ~Ahead(a, b, id, Head(a).id)
         /\ id # Head(a).id /\ UnderWay(a, b, id) => UnderWay(Tail(a), b, id)
         /\ \A jd : id # Head(a).id /\ Ahead(a, b, id, jd) => Ahead(Tail(a), b, id, jd)
BY HasTail, LedTail DEF UnderWay, Ahead

\* A request comes last.
LEMMA RequestSent ==
  ASSUME NEW a \in Seq(Packet), NEW b \in Seq(Packet), NEW e \in Packet, e.t \in Requests, NEW id
  PROVE  /\ UnderWay(a, Append(b, e), e.id)
         /\ UnderWay(a, b, id) => UnderWay(a, Append(b, e), id)
         /\ \A jd : Ahead(a, b, id, jd) /\ (jd # e.id \/ UnderWay(a, b, id))
              => Ahead(a, Append(b, e), id, jd)
BY HasAppend, LedAppend DEF UnderWay, Ahead

-----------------------------------------------------------------------------
(* First receipts in order.                                                *)

\* A publication that was given no PUBREC yet.
Open(x) == x.next # "PUBCOMP"

\* While the connection is up, each listed publication has a packet on its way.
OnTheWay == link => \A x \in Elems(outboundMsgs) : UnderWay(toClient, toBroker, x.id)

\* An answer means that the broker has it, or takes it for one that it has.
AnswerMeans ==
  \A q \in Elems(toClient), x \in Elems(outboundMsgs) : x.id = q.id =>
    /\ q.t = "PUBACK" => x.m \in Elems(received)
    /\ q.t = "PUBREC" => x.qos = 2 /\ x.id \in broker.in

\* The list is in the order of the publish calls.
Rising(s) == \A i, j \in DOMAIN s : i < j => s[i].m < s[j].m

\* Later publications are behind an open one.
Queued ==
  \A x, y \in Elems(outboundMsgs) :
    Open(x) /\ x.m < y.m => Ahead(toClient, toBroker, x.id, y.id)

\* An open publication is known to the broker, or newer than all that it was given.
Newer ==
  \A x \in Elems(outboundMsgs) : Open(x) =>
    \/ x.m \in Elems(received)
    \/ x.qos = 2 /\ x.id \in broker.in
    \/ \A r \in Elems(received) : r < x.m

\* What keeps the window: all that was published after an open publication, or MAX_INFLIGHT
\* after any, is still open and behind it.
Follows(x, m) ==
  \E y \in Elems(outboundMsgs) : y.m = m /\ Open(y) /\ Ahead(toClient, toBroker, x.id, y.id)
Window ==
  \A x \in Elems(outboundMsgs), m \in 1 .. published :
    m > x.m /\ (Open(x) \/ m >= x.m + MAX_INFLIGHT) => Follows(x, m)

\* Identifiers are numbered from the last one back.
Age(x) == published - x.m
Numbered ==
  \A x \in Elems(outboundMsgs) :
    x.id = IF Age(x) < msgID THEN msgID - Age(x) ELSE MAX_MSG_ID + msgID - Age(x)

\* Until the first restart the identifiers tell the order, until the second the list does.
OrderInv ==
  /\ restarts \in Nat /\ OnTheWay /\ AnswerMeans /\ FirstReceiptsInOrder
  /\ restarts <= 1 => Rising(outboundMsgs) /\ Queued /\ Newer
  /\ restarts = 0 => Len(outboundMsgs) <= MAX_INFLIGHT /\ Window /\ Numbered

LEMMA EmptyStep ==
  ASSUME OrderInv, outboundMsgs' = <<>>, received' = received, restarts' \in Nat,
         restarts <= restarts'
  PROVE  OrderInv'
<1>1. Elems(outboundMsgs') = {} /\ DOMAIN outboundMsgs' = {} /\ Len(outboundMsgs') = 0
  BY ElemsEmpty
<1>2. OnTheWay' /\ AnswerMeans' /\ Queued' /\ Newer' /\ Window' /\ Numbered'
  BY <1>1 DEF OnTheWay, AnswerMeans, Queued, Newer, Window, Numbered
<1>3. FirstReceiptsInOrder'
  BY DEF OrderInv, FirstReceiptsInOrder
<1>4. Rising(outboundMsgs')
  BY <1>1 DEF Rising
<1>5. Len(outboundMsgs') <= MAX_INFLIGHT
  BY <1>1, WindowAssumption
<1> QED BY <1>2, <1>3, <1>4, <1>5 DEF OrderInv

\* Packets move, the list stays.
LEMMA PipeStep ==
  ASSUME OrderInv,
         UNCHANGED <<outboundMsgs, published, msgID, restarts, received>>,
         broker'.in = broker.in, link' => link,
         \A id : link' /\ UnderWay(toClient, toBroker, id) => UnderWay(toClient', toBroker', id),
         \A id, jd : Ahead(toClient, toBroker, id, jd) => Ahead(toClient', toBroker', id, jd),
         \A q \in Elems(toClient') : q.t \in Answers => q \in Elems(toClient)
  PROVE  OrderInv'
<1>1. OnTheWay'
  BY DEF OrderInv, OnTheWay
<1>2. AnswerMeans'
  BY DEF OrderInv, AnswerMeans, Answers
<1>3. FirstReceiptsInOrder'
  BY DEF OrderInv, FirstReceiptsInOrder
<1>4. restarts <= 1 => Rising(outboundMsgs') /\ Queued' /\ Newer'
  BY DEF OrderInv, Queued, Newer
<1>5. Window => Window'
  BY DEF Window, Follows
<1>6. Numbered => Numbered'
  BY DEF Numbered, Age
<1> QED BY <1>1, <1>2, <1>3, <1>4, <1>5, <1>6 DEF OrderInv

LEMMA SameStep ==
  ASSUME OrderInv,
         UNCHANGED <<outboundMsgs, published, msgID, restarts, received, broker, link>>,
         UNCHANGED <<toClient, toBroker>>
  PROVE  OrderInv'
BY PipeStep

\* The connection is closed: nothing is on the way, and the list stays or is emptied.
LEMMA DownStep ==
  ASSUME OrderInv, UNCHANGED <<restarts, received>>, link' = FALSE, toClient' = <<>>, toBroker' = <<>>,
         \/ outboundMsgs' = <<>>
         \/ UNCHANGED <<outboundMsgs, published, msgID, broker>>
  PROVE  OrderInv'
<1>1. CASE outboundMsgs' = <<>>
  <2>1. restarts' \in Nat /\ restarts <= restarts'
    BY DEF OrderInv
  <2> QED BY <1>1, <2>1, EmptyStep
<1>2. CASE UNCHANGED <<outboundMsgs, published, msgID, broker>>
  <2>1. \A id, jd : Ahead(toClient', toBroker', id, jd)
    BY EmptyQueue DEF Ahead
  <2>2. Elems(toClient') = {}
    BY ElemsEmpty
  <2> QED BY <1>2, <2>1, <2>2, PipeStep
<1> QED BY <1>1, <1>2

LEMMA QuietSteps ==
  ASSUME OrderInv,
         PublishBegin \/ PublishFails \/ WaitBegin \/ WaitEnds \/ Release \/ CallArrived \/ ArrivedReturns
  PROVE  OrderInv'
<1>1. /\ UNCHANGED <<outboundMsgs, published, msgID, restarts, received, broker, link>>
      /\ UNCHANGED <<toClient, toBroker>>
  <2>1. CASE PublishBegin
    BY <2>1 DEF PublishBegin, client, net, peer, hist, count
  <2>2. CASE PublishFails
    BY <2>2 DEF PublishFails, client, net, peer, hist, count
  <2>3. CASE WaitBegin
    BY <2>3 DEF WaitBegin, client, net, peer, hist, count
  <2>4. CASE WaitEnds
    BY <2>4 DEF WaitEnds, client, net, peer, hist
  <2>5. CASE Release
    BY <2>5 DEF Release, net, peer, hist, count
  <2>6. CASE CallArrived
    BY <2>6 DEF CallArrived, net, peer, hist, count
  <2>7. CASE ArrivedReturns
    BY <2>7 DEF ArrivedReturns, net, peer
  <2> QED BY <2>1, <2>2, <2>3, <2>4, <2>5, <2>6, <2>7
<1> QED BY <1>1, SameStep

LEMMA ClosingSteps ==
  ASSUME OrderInv, ConnectFails \/ MQTTClient_disconnect \/ ConnectionLost \/ BreakConnection
  PROVE  OrderInv'
<1>1. /\ UNCHANGED <<restarts, received, published, broker>>
      /\ link' = FALSE /\ toClient' = <<>> /\ toBroker' = <<>>
      /\ outboundMsgs' = <<>> \/ UNCHANGED <<outboundMsgs, msgID>>
  <2>1. CASE ConnectFails
    BY <2>1 DEF ConnectFails, MQTTClient_closeSession, MQTTClient_cleanSession, peer, hist
  <2>2. CASE MQTTClient_disconnect
    BY <2>2 DEF MQTTClient_disconnect, MQTTClient_closeSession, MQTTClient_cleanSession, peer, hist
  <2>3. CASE ConnectionLost
    BY <2>3 DEF ConnectionLost, MQTTClient_closeSession, MQTTClient_cleanSession, peer, hist, count
  <2>4. CASE BreakConnection
    BY <2>4 DEF BreakConnection, client, peer, hist
  <2> QED BY <2>1, <2>2, <2>3, <2>4
<1> QED BY <1>1, DownStep

-----------------------------------------------------------------------------
\* Packets move, and the broker learns what they say.
LEMMA MoveStep ==
  ASSUME OrderInv, UNCHANGED <<outboundMsgs, published, msgID, restarts>>, link' => link,
         \A id : UnderWay(toClient, toBroker, id) => UnderWay(toClient', toBroker', id),
         \A id, jd : Ahead(toClient, toBroker, id, jd) => Ahead(toClient', toBroker', id, jd),
         AnswerMeans', FirstReceiptsInOrder', restarts <= 1 => Newer'
  PROVE  OrderInv'
<1>1. OnTheWay'
  BY DEF OrderInv, OnTheWay
<1>2. restarts <= 1 => Rising(outboundMsgs') /\ Queued'
  BY DEF OrderInv, Queued
<1>3. Window => Window'
  BY DEF Window, Follows
<1>4. Numbered => Numbered'
  BY DEF Numbered, Age
<1> QED BY <1>1, <1>2, <1>3, <1>4 DEF OrderInv

\* The steps of the broker's own flows.
LEMMA InboundSteps ==
  ASSUME SessionInv, OrderInv, HandlePublish \/ HandlePubrel
  PROVE  OrderInv'
<1>1. PICK t \in {"PUBLISH", "PUBREL"} : Take(t)
  BY DEF HandlePublish, HandlePubrel
<1>2. /\ UNCHANGED <<outboundMsgs, published, msgID, restarts, received, broker, link>>
      /\ toClient # <<>> /\ Head(toClient).t = t /\ toClient' = Tail(toClient)
      /\ toClient \in Seq(Packet) /\ toBroker \in Seq(Packet) /\ Head(toClient) \in Packet
      /\ Tail(toClient) \in Seq(Packet) /\ Elems(Tail(toClient)) \subseteq Elems(toClient)
  BY <1>1, TakeFacts, TakeTypes DEF Take, count, HandlePublish, HandlePubrel
<1>3. \/ toBroker' = toBroker
      \/ \E e \in Packet : e.t \notin Requests /\ toBroker' = Append(toBroker, e)
  <2>1. Head(toClient).id \in Nat
    BY <1>2 DEF Packet
  <2>2. \A r \in Answers : /\ Pkt(r, Head(toClient).id, 0, 0, FALSE) \in Packet
                           /\ Pkt(r, Head(toClient).id, 0, 0, FALSE).t \notin Requests
    BY <2>1, ReplyIs DEF Answers, Requests, PacketTypes
  <2>3. \/ toBroker' = toBroker
        \/ \E r \in Answers : Reply(r, Head(toClient).id)
    BY DEF HandlePublish, HandlePubrel, Answers
  <2> QED BY <2>2, <2>3 DEF Reply
<1>4. Head(toClient).t \notin Answers
  BY <1>2 DEF Answers
<1>5. \A id : UnderWay(toClient, toBroker, id) => UnderWay(toClient', toBroker', id)
  BY <1>2, <1>3, <1>4, OtherTaken, OtherSent
<1>6. \A id, jd : Ahead(toClient, toBroker, id, jd) => Ahead(toClient', toBroker', id, jd)
  BY <1>2, <1>3, <1>4, OtherTaken, OtherSent
<1>7. \A q \in Elems(toClient') : q.t \in Answers => q \in Elems(toClient)
  BY <1>2
<1> QED BY <1>2, <1>5, <1>6, <1>7, PipeStep

LEMMA OfferStep ==
  ASSUME SessionInv, SessionInv', OrderInv, BrokerOffers
  PROVE  OrderInv'
<1>1. /\ UNCHANGED <<outboundMsgs, published, msgID, restarts, received, link, toBroker>>
      /\ toClient \in Seq(Packet) /\ toBroker \in Seq(Packet) /\ toClient' \in Seq(Packet)
      /\ broker \in [in : SUBSET Nat, out : Seq(Entry)]
  BY DEF BrokerOffers, client, hist, count, SessionInv, Types, NetType, PeerType
<1>2. PICK e : e.t = "PUBLISH" /\ toClient' = Append(toClient, e)
  BY DEF BrokerOffers, Pkt
<1>3. broker'.in = broker.in
  <2>1. PICK o : broker' = [broker EXCEPT !.out = o]
    BY DEF BrokerOffers
  <2> QED BY <1>1, <2>1
<1>4. e \in Packet
  <2>1. Len(toClient) \in Nat /\ toClient'[Len(toClient) + 1] = e
    BY <1>1, <1>2
  <2>2. Len(toClient) + 1 \in DOMAIN toClient'
    BY <1>1, <1>2, <2>1
  <2> QED BY <1>1, <2>1, <2>2, ElemsOf
<1>5. e.t \notin Answers
  BY <1>2 DEF Answers
<1>6. \A id : UnderWay(toClient, toBroker, id) => UnderWay(toClient', toBroker', id)
  BY <1>1, <1>2, <1>4, <1>5, OtherOffered
<1>7. \A id, jd : Ahead(toClient, toBroker, id, jd) => Ahead(toClient', toBroker', id, jd)
  BY <1>1, <1>2, <1>4, <1>5, OtherOffered
<1>8. \A q \in Elems(toClient') : q.t \in Answers => q \in Elems(toClient)
  BY <1>1, <1>2, <1>4, <1>5, ElemsAppend
<1> QED BY <1>1, <1>3, <1>6, <1>7, <1>8, PipeStep

\* The broker takes an answer to a publication of its own.
LEMMA ListenStep ==
  ASSUME SessionInv, OrderInv, BrokerReceives, Head(toBroker).t \in Answers
  PROVE  OrderInv'
<1>1. PICK p : p = Head(toBroker)
  OBVIOUS
<1>2. /\ p \in Packet /\ p.t \in Answers /\ p.t \notin Requests
  BY <1>1, BrokerTakes DEF Answers, Requests
<1>3. /\ UNCHANGED <<outboundMsgs, published, msgID, restarts, received, link>>
      /\ toBroker' = Tail(toBroker) /\ toBroker # <<>>
      /\ toClient \in Seq(Packet) /\ toBroker \in Seq(Packet) /\ Tail(toBroker) \in Seq(Packet)
  BY <1>1, <1>2, BrokerTakes DEF BrokerReceives, count, Requests
<1>4. broker'.in = broker.in
  <2>1. PICK o : broker' = [broker EXCEPT !.out = o]
    BY <1>1, <1>2, BrokerTakes DEF BrokerAfter, Answers
  <2> QED BY <2>1, BrokerTakes
<1>5. \/ toClient' = toClient
      \/ \E e \in Packet : e.t \notin Answers /\ toClient' = Append(toClient, e)
  <2>1. CASE p.t = "PUBREC"
    <3>1. PICK e : e = Pkt("PUBREL", p.id, 0, 0, FALSE)
      OBVIOUS
    <3>2. e \in Packet /\ e.t \notin Answers
      BY <1>2, <3>1, ReplyIs DEF Packet, PacketTypes, Answers
    <3>3. toClient' = toClient \o <<e>>
      BY <1>1, <2>1, <3>1, BrokerTakes DEF BrokerAnswer
    <3>4. toClient \o <<e>> = Append(toClient, e)
      BY <1>3
    <3> QED BY <3>2, <3>3, <3>4
  <2>2. CASE p.t # "PUBREC"
    <3>1. toClient' = toClient \o <<>>
      BY <1>1, <1>2, <2>2, BrokerTakes DEF BrokerAnswer, Requests
    <3> QED BY <1>3, <3>1
  <2> QED BY <2>1, <2>2
<1>6. \A id : UnderWay(toClient, toBroker, id) => UnderWay(toClient', toBroker', id)
  BY <1>1, <1>2, <1>3, <1>5, OtherRead, OtherOffered
<1>7. \A id, jd : Ahead(toClient, toBroker, id, jd) => Ahead(toClient', toBroker', id, jd)
  BY <1>1, <1>2, <1>3, <1>5, OtherRead, OtherOffered
<1>8. \A q \in Elems(toClient') : q.t \in Answers => q \in Elems(toClient)
  <2>1. ASSUME NEW e \in Packet, e.t \notin Answers, toClient' = Append(toClient, e)
        PROVE  \A q \in Elems(toClient') : q.t \in Answers => q \in Elems(toClient)
    BY <1>3, <2>1, ElemsAppend
  <2> QED BY <1>5, <2>1
<1> QED BY <1>3, <1>4, <1>6, <1>7, <1>8, PipeStep

\* The broker reads a request of the client and answers it.
LEMMA AnswersMove ==
  ASSUME SessionInv, OrderInv, BrokerReceives, Head(toBroker).t \in Requests,
         NEW q \in Packet, q.t \in Answers, q.id = Head(toBroker).id,
         BrokerAnswer(Head(toBroker)) = <<q>>
  PROVE  /\ UNCHANGED <<outboundMsgs, published, msgID, restarts, link>>
         /\ Elems(toClient') = Elems(toClient) \cup {q}
         /\ \A id : UnderWay(toClient, toBroker, id) => UnderWay(toClient', toBroker', id)
         /\ \A id, jd : Ahead(toClient, toBroker, id, jd) => Ahead(toClient', toBroker', id, jd)
         /\ \A id : Ahead(toClient, toBroker, id, q.id) => Has(toClient, Answers, id)
<1>1. /\ UNCHANGED <<outboundMsgs, published, msgID, restarts, link>>
      /\ toBroker # <<>> /\ toBroker' = Tail(toBroker) /\ toBroker \in Seq(Packet) /\ toClient \in Seq(Packet)
  BY BrokerTakes DEF BrokerReceives, count
<1>2. toClient' = Append(toClient, q)
  <2>1. toClient' = toClient \o <<q>>
    BY BrokerTakes
  <2> QED BY <1>1, <2>1
<1>3. Elems(toClient') = Elems(toClient) \cup {q}
  BY <1>1, <1>2, ElemsAppend
<1>4. \A id : Ahead(toClient, toBroker, id, q.id) => Has(toClient, Answers, id)
  BY <1>1, LedTail DEF Ahead
<1>5. \A id : UnderWay(toClient, toBroker, id) => UnderWay(toClient', toBroker', id)
  BY <1>1, <1>2, RequestRead
<1>6. \A id, jd : Ahead(toClient, toBroker, id, jd) => Ahead(toClient', toBroker', id, jd)
  BY <1>1, <1>2, RequestRead
<1> QED BY <1>1, <1>3, <1>4, <1>5, <1>6

\* What is given to the broker is new to it or newer than all it was given.
LEMMA ReadStep ==
  ASSUME SessionInv, OrderInv, BrokerReceives, Head(toBroker).t = "PUBLISH"
  PROVE  OrderInv'
<1>1. PICK p : p = Head(toBroker)
  OBVIOUS
<1>2. p \in Packet /\ p \in Elems(toBroker) /\ p.t = "PUBLISH" /\ p.id \in Nat /\ p.m \in Nat
  BY <1>1, BrokerTakes DEF Packet
<1>3. PICK x0 \in Elems(outboundMsgs) : x0.id = p.id /\ x0.m = p.m /\ x0.qos = p.qos /\ x0.next # "PUBCOMP"
  BY <1>2 DEF SessionInv, Exchange
<1>4. \A x \in Elems(outboundMsgs) : x.id = p.id \/ x.m = p.m => x = x0
  BY <1>3, BrokerTakes, UniqueElems DEF SessionInv, SentInv
<1>0. \A x \in Elems(outboundMsgs) : x \in Entry
  <2>1. outboundMsgs \in Seq(Entry)
    BY BrokerTakes
  <2> QED BY <2>1, ElemsOf
<1>5. p.qos \in {1, 2}
  BY <1>0, <1>3 DEF Entry
<1>6. PICK q : q = Pkt(IF p.qos = 1 THEN "PUBACK" ELSE "PUBREC", p.id, 0, 0, FALSE)
  OBVIOUS
<1>7. /\ q \in Packet /\ q.id = p.id /\ q.t \in Answers
      /\ q.t = IF p.qos = 1 THEN "PUBACK" ELSE "PUBREC"
  BY <1>2, <1>6 DEF Pkt, Packet, PacketTypes, Answers
<1>8. BrokerAnswer(p) = <<q>> /\ BrokerAfter(p) = [broker EXCEPT !.in = IF p.qos = 2 THEN @ \cup {p.id} ELSE @]
  BY <1>2, <1>6 DEF BrokerAnswer, BrokerAfter
<1>9. broker'.in = IF p.qos = 2 THEN broker.in \cup {p.id} ELSE broker.in
  <2>1. broker' = [broker EXCEPT !.in = IF p.qos = 2 THEN @ \cup {p.id} ELSE @]
    BY <1>1, <1>8, BrokerTakes
  <2> QED BY <2>1, BrokerTakes
<1>10. received' = IF p.qos = 2 /\ p.id \in broker.in THEN received ELSE Append(received, p.m)
  BY <1>1, <1>2 DEF BrokerReceives
<1>11. /\ received \in Seq(Nat) /\ Append(received, p.m) \in Seq(Nat)
       /\ Elems(Append(received, p.m)) = Elems(received) \cup {p.m}
  <2>1. received \in Seq(Nat) /\ p.m \in Nat
    BY <1>2, BrokerTakes
  <2> QED BY <2>1, ElemsAppend
<1>12. /\ Elems(received) \subseteq Elems(received') /\ Elems(received') \subseteq Elems(received) \cup {p.m}
       /\ broker.in \subseteq broker'.in
       /\ p.qos = 1 => p.m \in Elems(received')
       /\ p.qos = 2 => p.id \in broker'.in
  BY <1>9, <1>10, <1>11
<1>13. /\ UNCHANGED <<outboundMsgs, published, msgID, restarts, link>>
       /\ Elems(toClient') = Elems(toClient) \cup {q}
       /\ \A id : UnderWay(toClient, toBroker, id) => UnderWay(toClient', toBroker', id)
       /\ \A id, jd : Ahead(toClient, toBroker, id, jd) => Ahead(toClient', toBroker', id, jd)
       /\ \A id : Ahead(toClient, toBroker, id, q.id) => Has(toClient, Answers, id)
  BY <1>1, <1>2, <1>7, <1>8, AnswersMove DEF Requests
<1>14. AnswerMeans'
  <2> SUFFICES ASSUME NEW r \in Elems(toClient'), NEW x \in Elems(outboundMsgs'), x.id = r.id
               PROVE  /\ r.t = "PUBACK" => x.m \in Elems(received')
                      /\ r.t = "PUBREC" => x.qos = 2 /\ x.id \in broker'.in
    BY DEF AnswerMeans
  <2>1. CASE r \in Elems(toClient)
    BY <1>12, <1>13, <2>1 DEF OrderInv, AnswerMeans
  <2>2. CASE r = q
    BY <1>3, <1>4, <1>5, <1>7, <1>12, <1>13, <2>2
  <2> QED BY <1>13, <2>1, <2>2
<1>15. ASSUME restarts <= 1 PROVE Newer'
  <2> SUFFICES ASSUME NEW x \in Elems(outboundMsgs), Open(x)
               PROVE  \/ x.m \in Elems(received')
                      \/ x.qos = 2 /\ x.id \in broker'.in
                      \/ \A r \in Elems(received') : r < x.m
    BY <1>13 DEF Newer
  <2>0. x \in Entry /\ x.m \in Nat
    BY <1>0 DEF Entry
  <2>1. CASE x = x0
    BY <1>3, <1>5, <1>12, <2>1
  <2>2. CASE x.m < p.m
    <3>1. Ahead(toClient, toBroker, x.id, x0.id)
      BY <1>3, <1>15, <2>2 DEF OrderInv, Queued
    <3>2. PICK i \in DOMAIN toClient : toClient[i].t \in Answers /\ toClient[i].id = x.id
      BY <1>3, <1>7, <1>13, <3>1 DEF Has
    <3>3. toClient[i] \in Elems(toClient)
      BY DEF Elems
    <3>4. PICK y \in Elems(outboundMsgs) : y.id = toClient[i].id /\ y.next = toClient[i].t
      BY <3>2, <3>3 DEF SessionInv, Exchange
    <3>5. y = x
      BY <3>2, <3>4, BrokerTakes, UniqueElems
    <3>6. toClient[i].t \in {"PUBACK", "PUBREC"}
      BY <3>2, <3>4, <3>5 DEF Open, Answers
    <3>7. x.m \in Elems(received) \/ (x.qos = 2 /\ x.id \in broker.in)
      BY <3>2, <3>3, <3>6 DEF OrderInv, AnswerMeans
    <3> QED BY <1>12, <3>7
  <2>3. CASE p.m < x.m
    BY <1>12, <1>15, <2>3 DEF OrderInv, Newer
  <2> QED BY <1>2, <1>4, <2>0, <2>1, <2>2, <2>3
<1>16. FirstReceiptsInOrder'
  <2> SUFFICES ASSUME restarts <= 1, NEW i \in DOMAIN received'
               PROVE  \/ \E j \in 1 .. i - 1 : received'[j] = received'[i]
                      \/ \A j \in 1 .. i - 1 : received'[j] < received'[i]
    BY <1>13 DEF FirstReceiptsInOrder
  <2>1. CASE received' = received
    BY <2>1 DEF OrderInv, FirstReceiptsInOrder
  <2>2. CASE received' # received
    <3>1. received' = Append(received, p.m) /\ ~(p.qos = 2 /\ p.id \in broker.in)
      BY <1>10, <2>2
    <3>2. /\ Len(received) \in Nat /\ DOMAIN received = 1 .. Len(received)
          /\ DOMAIN received' = 1 .. Len(received) + 1
          /\ \A j \in 1 .. Len(received) : received'[j] = received[j]
          /\ received'[Len(received) + 1] = p.m
      BY <1>2, <1>11, <3>1
    <3>3. CASE i \in DOMAIN received
      <4>1. \A j \in 1 .. i - 1 : received'[j] = received[j]
        BY <3>2, <3>3
      <4>2. \/ \E j \in 1 .. i - 1 : received[j] = received[i]
            \/ \A j \in 1 .. i - 1 : received[j] < received[i]
        BY <3>3 DEF OrderInv, FirstReceiptsInOrder
      <4> QED BY <3>2, <3>3, <4>1, <4>2
    <3>4. CASE i = Len(received) + 1
      <4>1. i - 1 = Len(received)
        BY <3>2, <3>4
      <4>2. \/ x0.m \in Elems(received)
            \/ \A r \in Elems(received) : r < x0.m
        BY <1>3, <3>1 DEF OrderInv, Newer, Open
      <4> QED BY <1>3, <3>2, <3>4, <4>1, <4>2 DEF Elems
    <3> QED BY <3>2, <3>3, <3>4
  <2> QED BY <2>1, <2>2
<1> QED BY <1>13, <1>14, <1>15, <1>16, MoveStep

\* PUBREL: the broker forgets an identifier, of a publication that is open no more.
LEMMA ForgetStep ==
  ASSUME SessionInv, OrderInv, BrokerReceives, Head(toBroker).t = "PUBREL"
  PROVE  OrderInv'
<1>1. PICK p : p = Head(toBroker)
  OBVIOUS
<1>2. p \in Packet /\ p \in Elems(toBroker) /\ p.t = "PUBREL" /\ p.id \in Nat
  BY <1>1, BrokerTakes DEF Packet
<1>3. PICK x0 \in Elems(outboundMsgs) : x0.id = p.id /\ x0.next = "PUBCOMP"
  BY <1>2 DEF SessionInv, Exchange
<1>4. \A x \in Elems(outboundMsgs) : x.id = p.id => x = x0
  BY <1>3, BrokerTakes, UniqueElems
<1>6. PICK q : q = Pkt("PUBCOMP", p.id, 0, 0, FALSE)
  OBVIOUS
<1>7. q \in Packet /\ q.t = "PUBCOMP" /\ q.id = p.id /\ q.t \in Answers
  BY <1>2, <1>6 DEF Pkt, Packet, PacketTypes, Answers
<1>8. BrokerAnswer(p) = <<q>> /\ BrokerAfter(p) = [broker EXCEPT !.in = @ \ {p.id}]
  BY <1>2, <1>6 DEF BrokerAnswer, BrokerAfter
<1>9. broker'.in = broker.in \ {p.id}
  <2>1. broker' = [broker EXCEPT !.in = @ \ {p.id}]
    BY <1>1, <1>8, BrokerTakes
  <2> QED BY <2>1, BrokerTakes
<1>10. received' = received
  BY <1>1, <1>2 DEF BrokerReceives
<1>11. /\ UNCHANGED <<outboundMsgs, published, msgID, restarts, link>>
       /\ Elems(toClient') = Elems(toClient) \cup {q}
       /\ \A id : UnderWay(toClient, toBroker, id) => UnderWay(toClient', toBroker', id)
       /\ \A id, jd : Ahead(toClient, toBroker, id, jd) => Ahead(toClient', toBroker', id, jd)
  BY <1>1, <1>2, <1>7, <1>8, AnswersMove DEF Requests
<1>12. AnswerMeans'
  <2>1. \A r \in Elems(toClient) : r.t = "PUBREC" => r.id # p.id
    BY <1>2 DEF SessionInv, Exchange, Requests, Answers
  <2> QED BY <1>7, <1>9, <1>10, <1>11, <2>1 DEF OrderInv, AnswerMeans
<1>13. restarts <= 1 => Newer'
  <2>1. \A x \in Elems(outboundMsgs) : Open(x) => x.id # p.id
    BY <1>3, <1>4 DEF Open
  <2> QED BY <1>9, <1>10, <1>11, <2>1 DEF OrderInv, Newer
<1>14. FirstReceiptsInOrder'
  BY <1>10, <1>11 DEF OrderInv, FirstReceiptsInOrder
<1> QED BY <1>11, <1>12, <1>13, <1>14, MoveStep

-----------------------------------------------------------------------------
LEMMA EntryOf ==
  ASSUME NEW msgs \in Seq(Entry), NEW x \in Elems(msgs)
  PROVE  x \in Entry /\ x.m \in Nat /\ x.id \in Nat
<1>1. x \in Entry
  BY ElemsOf
<1> QED BY <1>1 DEF Entry

\* A reconnect repeats the list in its order.
LEMMA RetriesQueue ==
  ASSUME NEW msgs \in Seq(Entry), Unique(msgs), NEW a \in Seq(Packet), NEW b \in Seq(Packet),
         \A q \in Elems(a) : q.t \notin Answers,
         DOMAIN b = DOMAIN msgs, \A i \in DOMAIN msgs : b[i].id = msgs[i].id /\ b[i].t \in Requests
  PROVE  /\ \A x \in Elems(msgs) : UnderWay(a, b, x.id)
         /\ Rising(msgs) => \A x, y \in Elems(msgs) : x.m < y.m => Ahead(a, b, x.id, y.id)
<1>1. ASSUME NEW x \in Elems(msgs) PROVE UnderWay(a, b, x.id)
  <2>1. PICK i \in DOMAIN msgs : msgs[i] = x
    BY ElemsOf
  <2> QED BY <2>1 DEF UnderWay, Has
<1>2. \A id, jd : Led(a, Answers, id, jd)
  BY DEF Led, Elems
<1>3. ASSUME Rising(msgs), NEW x \in Elems(msgs), NEW y \in Elems(msgs), x.m < y.m
      PROVE  Ahead(a, b, x.id, y.id)
  <2>1. PICK i \in DOMAIN msgs, j \in DOMAIN msgs : msgs[i] = x /\ msgs[j] = y
    BY ElemsOf
  <2>2. i < j
    <3>1. DOMAIN msgs = 1 .. Len(msgs) /\ Len(msgs) \in Nat
      BY ElemsOf
    <3>2. x.m \in Nat /\ y.m \in Nat
      BY EntryOf
    <3>3. ~(j < i) /\ i # j
      BY <1>3, <2>1, <3>2 DEF Rising
    <3> QED BY <2>1, <3>1, <3>3
  <2>3. ASSUME NEW k \in DOMAIN b, b[k].id = y.id PROVE k = j
    BY <2>1, <2>3 DEF Unique
  <2>4. Led(b, Requests, x.id, y.id)
    BY <2>1, <2>2, <2>3 DEF Led
  <2> QED BY <1>2, <2>4 DEF Ahead
<1> QED BY <1>1, <1>3

LEMMA ReconnectStep ==
  ASSUME SessionInv, OrderInv, MQTTClient_connect
  PROVE  OrderInv'
<1>1. UNCHANGED <<received, published, restarts>> /\ link' = TRUE
  BY DEF MQTTClient_connect, hist
<1>2. CASE mode.clean
  <2>1. outboundMsgs' = <<>>
    BY <1>2 DEF MQTTClient_connect, MQTTClient_cleanSession
  <2>2. restarts' \in Nat /\ restarts <= restarts'
    BY <1>1 DEF OrderInv
  <2> QED BY <1>1, <2>1, <2>2, EmptyStep
<1>3. CASE ~mode.clean
  <2>1. /\ toBroker' = MQTTProtocol_retries(outboundMsgs) /\ toClient' = BrokerRepeats(broker.out)
        /\ UNCHANGED <<outboundMsgs, msgID, broker>>
    BY <1>3 DEF MQTTClient_connect
  <2>2. outboundMsgs \in Seq(Entry) /\ broker.out \in Seq(Entry) /\ Unique(outboundMsgs)
    BY DEF SessionInv, Types, ClientType, PeerType, Lists
  <2>3. /\ toBroker' \in Seq(Packet) /\ DOMAIN toBroker' = DOMAIN outboundMsgs
        /\ \A i \in DOMAIN outboundMsgs :
             toBroker'[i].id = outboundMsgs[i].id /\ toBroker'[i].t \in Requests
    BY <2>1, <2>2, RetriesAre DEF Requests
  <2>4. toClient' \in Seq(Packet) /\ \A q \in Elems(toClient') : q.t \notin Answers
    BY <2>1, <2>2, RetriesAre
  <2>5. /\ \A x \in Elems(outboundMsgs) : UnderWay(toClient', toBroker', x.id)
        /\ Rising(outboundMsgs) => \A x, y \in Elems(outboundMsgs) :
             x.m < y.m => Ahead(toClient', toBroker', x.id, y.id)
    BY <2>2, <2>3, <2>4, RetriesQueue
  <2>6. OnTheWay' /\ AnswerMeans' /\ FirstReceiptsInOrder'
    BY <1>1, <2>1, <2>4, <2>5 DEF OrderInv, OnTheWay, AnswerMeans, Answers, FirstReceiptsInOrder
  <2>7. restarts <= 1 => Rising(outboundMsgs') /\ Queued' /\ Newer'
    BY <1>1, <2>1, <2>5 DEF OrderInv, Queued, Newer
  <2>8. restarts = 0 => Window'
    <3> SUFFICES ASSUME restarts = 0, NEW x \in Elems(outboundMsgs), NEW m \in 1 .. published,
                        m > x.m, Open(x) \/ m >= x.m + MAX_INFLIGHT
                 PROVE  Follows(x, m)'
      BY <1>1, <2>1 DEF Window
    <3>1. PICK y \in Elems(outboundMsgs) : y.m = m /\ Open(y)
      BY DEF OrderInv, Window, Follows
    <3>2. x.m \in Nat /\ m \in Nat
      BY <2>2, EntryOf
    <3>3. Ahead(toClient', toBroker', x.id, y.id)
      BY <2>5, <3>1, <3>2 DEF OrderInv
    <3> QED BY <2>1, <3>1, <3>3 DEF Follows
  <2>9. Numbered => Numbered'
    BY <1>1, <2>1 DEF Numbered, Age
  <2> QED BY <1>1, <2>1, <2>6, <2>7, <2>8, <2>9 DEF OrderInv
<1> QED BY <1>2, <1>3

-----------------------------------------------------------------------------
(* The client takes the answer to a request.                               *)

LEMMA RisingWithout ==
  ASSUME NEW msgs \in Seq(Entry), NEW id \in Ids(msgs)
  PROVE  /\ Rising(msgs) => Rising(Without(msgs, id))
         /\ Len(Without(msgs, id)) = Len(msgs) - 1
<1>1. PICK i : i = CHOOSE k \in DOMAIN msgs : msgs[k].id = id
  OBVIOUS
<1>2. i \in DOMAIN msgs
  BY <1>1 DEF Ids
<1>3. Without(msgs, id) = Cut(msgs, i)
  BY <1>1 DEF Without, Cut
<1>4. PICK u : u = Cut(msgs, i)
  OBVIOUS
<1>5. /\ u \in Seq(Entry) /\ Len(u) = Len(msgs) - 1 /\ Len(msgs) \in Nat /\ DOMAIN msgs = 1 .. Len(msgs)
      /\ DOMAIN u = 1 .. Len(msgs) - 1
      /\ \A k \in 1 .. Len(msgs) - 1 : k < i => u[k] = msgs[k]
      /\ \A k \in 1 .. Len(msgs) - 1 : k >= i => u[k] = msgs[k + 1]
  <2>1. /\ u \in Seq(Entry) /\ Len(u) = Len(msgs) - 1
        /\ \A k \in 1 .. Len(msgs) - 1 : k < i => u[k] = msgs[k]
        /\ \A k \in 1 .. Len(msgs) - 1 : k >= i => u[k] = msgs[k + 1]
    BY <1>2, <1>4, CutElems
  <2>2. Len(msgs) \in Nat /\ DOMAIN msgs = 1 .. Len(msgs) /\ DOMAIN u = 1 .. Len(u)
    BY <2>1, ElemsOf
  <2> QED BY <2>1, <2>2
<1>6. ASSUME Rising(msgs), NEW k \in DOMAIN u, NEW l \in DOMAIN u, k < l PROVE u[k].m < u[l].m
  <2>1. PICK k1 \in {k, k + 1}, l1 \in {l, l + 1} :
          u[k] = msgs[k1] /\ u[l] = msgs[l1] /\ k1 < l1
    <3>1. CASE l < i
      BY <1>2, <1>5, <1>6, <3>1
    <3>2. CASE k < i /\ l >= i
      BY <1>2, <1>5, <1>6, <3>2
    <3>3. CASE k >= i
      BY <1>2, <1>5, <1>6, <3>3
    <3> QED BY <1>2, <1>5, <3>1, <3>2, <3>3
  <2>2. k1 \in DOMAIN msgs /\ l1 \in DOMAIN msgs
    BY <1>5, <2>1
  <2> QED BY <1>6, <2>1, <2>2 DEF Rising
<1> QED BY <1>3, <1>4, <1>5, <1>6 DEF Rising

\* The packets after an answer for id was taken.
LEMMA TakenQueue ==
  ASSUME SessionInv, OrderInv, NEW t \in Answers, Take(t)
  PROVE  /\ UNCHANGED <<received, published, restarts, msgID, broker, link>>
         /\ \A id : ~Ahead(toClient, toBroker, id, Head(toClient).id)
         /\ \A id : id # Head(toClient).id =>
              /\ UnderWay(toClient, toBroker, id) => UnderWay(toClient', toBroker, id)
              /\ \A jd : Ahead(toClient, toBroker, id, jd) => Ahead(toClient', toBroker, id, jd)
         /\ Elems(toClient') \subseteq Elems(toClient)
<1>1. /\ UNCHANGED <<received, published, restarts, msgID, broker, link>>
      /\ toClient # <<>> /\ Head(toClient).t \in Answers /\ toClient' = Tail(toClient)
  BY TakeFacts DEF Take, count
<1>2. toClient \in Seq(Packet) /\ toBroker \in Seq(Packet) /\ Elems(Tail(toClient)) \subseteq Elems(toClient)
  BY TakeTypes
<1>3. \A id : /\ ~Ahead(toClient, toBroker, id, Head(toClient).id)
              /\ id # Head(toClient).id /\ UnderWay(toClient, toBroker, id)
                   => UnderWay(Tail(toClient), toBroker, id)
              /\ \A jd : id # Head(toClient).id /\ Ahead(toClient, toBroker, id, jd)
                   => Ahead(Tail(toClient), toBroker, id, jd)
  BY <1>1, <1>2, AnswerTakenFirst
<1> QED BY <1>1, <1>2, <1>3

LEMMA EndStep ==
  ASSUME SessionInv, OrderInv, HandlePuback \/ HandlePubcomp
  PROVE  OrderInv'
<1>1. PICK t \in {"PUBACK", "PUBCOMP"}, qos \in {1, 2} :
        Take(t) /\ FlowEnds(Head(toClient), qos) /\ qos = IF t = "PUBACK" THEN 1 ELSE 2
  BY DEF HandlePuback, HandlePubcomp
<1>2. t \in Answers
  BY DEF Answers
<1>3. PICK id : id = Head(toClient).id
  OBVIOUS
<1>4. /\ outboundMsgs \in Seq(Entry) /\ Unique(outboundMsgs)
      /\ Head(toClient).t = t
  BY <1>1, TakeFacts, TakeTypes DEF SessionInv, Lists
<1>5. PICK x0 \in Elems(outboundMsgs) : x0.id = id /\ x0.next = t
  BY <1>1, <1>2, <1>3, AnswerTaken
<1>6. Expected(Head(toClient), qos)
  <2>1. x0.qos = qos
    <3>1. x0 \in Entry
      BY <1>4, ElemsOf
    <3>2. x0.next \in IF x0.qos = 2 THEN {"PUBREC", "PUBCOMP"} ELSE {"PUBACK"}
      BY DEF SessionInv, Exchange, Waits
    <3> QED BY <1>1, <1>5, <3>1, <3>2 DEF Entry
  <2>2. PICK i \in DOMAIN outboundMsgs : outboundMsgs[i] = x0
    BY <1>4, ElemsOf
  <2> QED BY <1>3, <1>4, <1>5, <2>1, <2>2 DEF Expected
<1>7. outboundMsgs' = Without(outboundMsgs, id) /\ toBroker' = toBroker
  BY <1>1, <1>3, <1>6 DEF FlowEnds
<1>8. id \in Ids(outboundMsgs) /\ Elems(outboundMsgs') = {x \in Elems(outboundMsgs) : x.id # id}
  BY <1>4, <1>5, <1>7, IdsElems, WithoutElems
<1>9. /\ UNCHANGED <<received, published, restarts, msgID, broker, link>>
      /\ \A jd : ~Ahead(toClient, toBroker, jd, id)
      /\ \A jd : jd # id =>
           /\ UnderWay(toClient, toBroker, jd) => UnderWay(toClient', toBroker', jd)
           /\ \A kd : Ahead(toClient, toBroker, jd, kd) => Ahead(toClient', toBroker', jd, kd)
      /\ Elems(toClient') \subseteq Elems(toClient)
  BY <1>1, <1>2, <1>3, <1>7, TakenQueue
<1>10. OnTheWay' /\ AnswerMeans' /\ FirstReceiptsInOrder'
  BY <1>8, <1>9 DEF OrderInv, OnTheWay, AnswerMeans, FirstReceiptsInOrder
<1>11. ASSUME restarts <= 1 PROVE Rising(outboundMsgs') /\ Queued' /\ Newer'
  <2>1. Rising(outboundMsgs')
    BY <1>4, <1>7, <1>8, <1>11, RisingWithout DEF OrderInv
  <2>2. Queued'
    BY <1>8, <1>9, <1>11 DEF OrderInv, Queued
  <2>3. Newer'
    BY <1>8, <1>9, <1>11 DEF OrderInv, Newer
  <2> QED BY <2>1, <2>2, <2>3
<1>12. ASSUME restarts = 0 PROVE Len(outboundMsgs') <= MAX_INFLIGHT /\ Window' /\ Numbered'
  <2>1. Len(outboundMsgs') <= MAX_INFLIGHT
    <3>1. Len(outboundMsgs') = Len(outboundMsgs) - 1 /\ Len(outboundMsgs) \in Nat
      BY <1>4, <1>7, <1>8, RisingWithout
    <3> QED BY <1>12, <3>1, WindowAssumption DEF OrderInv
  <2>2. Window'
    <3> SUFFICES ASSUME NEW x \in Elems(outboundMsgs), x.id # id, NEW m \in 1 .. published,
                        m > x.m, Open(x) \/ m >= x.m + MAX_INFLIGHT
                 PROVE  Follows(x, m)'
      BY <1>8, <1>9 DEF Window
    <3>1. PICK y \in Elems(outboundMsgs) : y.m = m /\ Open(y) /\ Ahead(toClient, toBroker, x.id, y.id)
      BY <1>12 DEF OrderInv, Window, Follows
    <3> QED BY <1>8, <1>9, <3>1 DEF Follows
  <2>3. Numbered'
    BY <1>8, <1>9, <1>12 DEF OrderInv, Numbered, Age
  <2> QED BY <2>1, <2>2, <2>3
<1>13. restarts' \in Nat
  BY <1>9 DEF OrderInv
<1> QED BY <1>9, <1>10, <1>11, <1>12, <1>13 DEF OrderInv

-----------------------------------------------------------------------------
(* The window: how far back a listed publication may be.                   *)

LEMMA ListedCount ==
  ASSUME NEW msgs \in Seq(Entry), NEW T, \A m \in T : \E y \in Elems(msgs) : y.m = m
  PROVE  IsFiniteSet(T) /\ Cardinality(T) <= Len(msgs)
<1> DEFINE D == 1 .. Len(msgs)
           f == [i \in D |-> msgs[i].m]
           R == {f[i] : i \in D}
<1>1. Len(msgs) \in Nat /\ DOMAIN msgs = D
  OBVIOUS
<1>2. IsFiniteSet(D) /\ Cardinality(D) = Len(msgs)
  <2>1. \A n \in Nat : IsFiniteSet(1 .. n) /\ Cardinality(1 .. n) = n
    BY FS_Interval
  <2> QED BY <1>1, <2>1
<1>3. f \in Surjection(D, R)
  BY DEF Surjection
<1>4. T \subseteq R
  BY <1>1 DEF Elems
<1> HIDE DEF f, R, D
<1>5. IsFiniteSet(R) /\ Cardinality(R) <= Cardinality(D)
  BY <1>2, <1>3, FS_Surjection
<1>6. IsFiniteSet(T) /\ Cardinality(T) <= Cardinality(R)
  BY <1>4, <1>5, FS_Subset
<1>7. Cardinality(T) \in Nat /\ Cardinality(R) \in Nat
  BY <1>5, <1>6, FS_CardinalityType
<1> QED BY <1>1, <1>2, <1>5, <1>6, <1>7

\* All after an open publication are listed, so they are fewer than MAX_INFLIGHT; after
\* any other there are at most MAX_INFLIGHT - 1 more.
LEMMA AgeBound ==
  ASSUME SessionInv, Window, Len(outboundMsgs) <= MAX_INFLIGHT, NEW x \in Elems(outboundMsgs)
  PROVE  /\ Age(x) \in Nat /\ Age(x) <= 2 * MAX_INFLIGHT - 2
         /\ Open(x) => Age(x) < MAX_INFLIGHT
<1>1. /\ outboundMsgs \in Seq(Entry) /\ published \in Nat /\ Len(outboundMsgs) \in Nat
      /\ x.m \in 1 .. published /\ MAX_INFLIGHT \in Nat \ {0}
  BY WindowAssumption DEF SessionInv, Types, ClientType, PeerType, SentInv
<1>2. ASSUME Open(x) PROVE Age(x) < MAX_INFLIGHT
  <2>1. \A m \in x.m .. published : \E y \in Elems(outboundMsgs) : y.m = m
    <3> SUFFICES ASSUME NEW m \in x.m .. published PROVE \E y \in Elems(outboundMsgs) : y.m = m
      OBVIOUS
    <3>1. CASE m = x.m
      BY <3>1
    <3>2. CASE m # x.m
      <4>1. m \in 1 .. published /\ m > x.m
        BY <1>1, <3>2
      <4> QED BY <1>2, <4>1 DEF Window, Follows
    <3> QED BY <3>1, <3>2
  <2>2. Cardinality(x.m .. published) <= Len(outboundMsgs)
    BY <1>1, <2>1, ListedCount
  <2>3. Cardinality(x.m .. published) = published - x.m + 1
    <3>1. x.m \in Int /\ published \in Int /\ ~(x.m > published)
      BY <1>1
    <3> QED BY <3>1, FS_Interval
  <2> QED BY <1>1, <2>2, <2>3 DEF Age
<1>3. Age(x) <= 2 * MAX_INFLIGHT - 2
  <2>1. CASE published < x.m + MAX_INFLIGHT
    BY <1>1, <2>1 DEF Age
  <2>2. CASE published >= x.m + MAX_INFLIGHT
    <3> DEFINE S == x.m + MAX_INFLIGHT .. published
    <3>1. \A m \in S \cup {x.m} : \E y \in Elems(outboundMsgs) : y.m = m
      <4> SUFFICES ASSUME NEW m \in S PROVE \E y \in Elems(outboundMsgs) : y.m = m
        OBVIOUS
      <4>1. m \in 1 .. published /\ m > x.m /\ m >= x.m + MAX_INFLIGHT
        BY <1>1
      <4> QED BY <4>1 DEF Window, Follows
    <3>2. x.m \notin S
      BY <1>1
    <3>3. IsFiniteSet(S) /\ Cardinality(S) = published - (x.m + MAX_INFLIGHT) + 1
      <4>1. x.m + MAX_INFLIGHT \in Int /\ published \in Int /\ ~(x.m + MAX_INFLIGHT > published)
        BY <1>1, <2>2
      <4> QED BY <4>1, FS_Interval
    <3> HIDE DEF S
    <3>4. Cardinality(S \cup {x.m}) <= Len(outboundMsgs)
      BY <1>1, <3>1, ListedCount
    <3>5. Cardinality(S \cup {x.m}) = Cardinality(S) + 1
      BY <3>2, <3>3, FS_AddElement
    <3> QED BY <1>1, <3>3, <3>4, <3>5 DEF Age
  <2> QED BY <1>1, <2>1, <2>2
<1> QED BY <1>1, <1>2, <1>3 DEF Age

\* PUBREC: the publication is open no more, and its PUBREL goes behind the others.
LEMMA ConfirmOrder ==
  ASSUME SessionInv, OrderInv, HandlePubrec
  PROVE  OrderInv'
<1>1. Take("PUBREC") /\ "PUBREC" \in Answers
  BY DEF HandlePubrec, Answers
<1>2. PICK id : id = Head(toClient).id
  OBVIOUS
<1>3. /\ outboundMsgs \in Seq(Entry) /\ Unique(outboundMsgs) /\ link /\ id \in Nat
      /\ toBroker \in Seq(Packet) /\ Tail(toClient) \in Seq(Packet) /\ toClient' = Tail(toClient)
      /\ Head(toClient).t = "PUBREC"
  <2>1. Head(toClient) \in Packet
    BY <1>1, TakeTypes
  <2> QED BY <1>1, <1>2, <2>1, TakeFacts, TakeTypes DEF SessionInv, Lists, Packet
<1>4. PICK x0 \in Elems(outboundMsgs) : x0.id = id /\ x0.next = "PUBREC"
  BY <1>1, <1>2, AnswerTaken
<1>5. \A x \in Elems(outboundMsgs) : x.id = id => x = x0
  BY <1>3, <1>4, UniqueElems
<1>6. Expected(Head(toClient), 2)
  <2>1. x0.qos = 2
    <3>1. x0.next \in IF x0.qos = 2 THEN {"PUBREC", "PUBCOMP"} ELSE {"PUBACK"}
      BY DEF SessionInv, Exchange, Waits
    <3> QED BY <1>4, <3>1
  <2>2. PICK i \in DOMAIN outboundMsgs : outboundMsgs[i] = x0
    BY <1>3, ElemsOf
  <2> QED BY <1>2, <1>3, <1>4, <2>1, <2>2 DEF Expected
<1>7. PICK e : e = Pkt("PUBREL", id, 0, 0, FALSE)
  OBVIOUS
<1>8. e \in Packet /\ e.t \in Requests /\ e.id = id
  BY <1>3, <1>7, ReplyIs DEF PacketTypes, Requests
<1>9. outboundMsgs' = Confirm(outboundMsgs, id) /\ toBroker' = Append(toBroker, e)
  BY <1>2, <1>6, <1>7 DEF HandlePubrec, Reply, Confirm
<1>10. /\ \A x \in Elems(outboundMsgs) : \E y \in Elems(outboundMsgs') : ConfirmedAs(x, y, id)
       /\ \A y \in Elems(outboundMsgs') : \E x \in Elems(outboundMsgs) : ConfirmedAs(x, y, id)
       /\ \A x \in Elems(outboundMsgs) : x.id # id => x \in Elems(outboundMsgs')
  BY <1>3, <1>9, ConfirmMap, ConfirmElems
<1>11. /\ UNCHANGED <<received, published, restarts, msgID, broker, link>>
       /\ \A jd : ~Ahead(toClient, toBroker, jd, id)
       /\ \A jd : jd # id =>
            /\ UnderWay(toClient, toBroker, jd) => UnderWay(toClient', toBroker, jd)
            /\ \A kd : Ahead(toClient, toBroker, jd, kd) => Ahead(toClient', toBroker, jd, kd)
       /\ Elems(toClient') \subseteq Elems(toClient)
  BY <1>1, <1>2, TakenQueue
<1>12. /\ UnderWay(toClient', toBroker', id)
       /\ \A jd : UnderWay(toClient', toBroker, jd) =>
            /\ UnderWay(toClient', toBroker', jd)
            /\ \A kd : Ahead(toClient', toBroker, jd, kd) => Ahead(toClient', toBroker', jd, kd)
  BY <1>3, <1>8, <1>9, RequestSent
\* The packets of the other publications.
<1>13. ASSUME NEW x \in Elems(outboundMsgs), x.id # id
       PROVE  /\ UnderWay(toClient', toBroker', x.id)
              /\ \A jd : Ahead(toClient, toBroker, x.id, jd) => Ahead(toClient', toBroker', x.id, jd)
  BY <1>3, <1>11, <1>12, <1>13 DEF OrderInv, OnTheWay
\* An entry that is open now was so before.
<1>14. \A y \in Elems(outboundMsgs') : \E x \in Elems(outboundMsgs) :
         /\ y.id = x.id /\ y.m = x.m /\ y.qos = x.qos
         /\ Open(y) => Open(x) /\ x.id # id
  BY <1>10 DEF ConfirmedAs, Open
<1>15. OnTheWay'
  BY <1>12, <1>13, <1>14 DEF OnTheWay
<1>16. AnswerMeans' /\ FirstReceiptsInOrder'
  BY <1>11, <1>14 DEF OrderInv, AnswerMeans, FirstReceiptsInOrder
<1>17. ASSUME restarts <= 1 PROVE Rising(outboundMsgs') /\ Queued' /\ Newer'
  <2>1. Rising(outboundMsgs')
    <3>1. DOMAIN outboundMsgs' = DOMAIN outboundMsgs
      BY <1>9 DEF Confirm
    <3>2. \A i \in DOMAIN outboundMsgs : outboundMsgs'[i].m = outboundMsgs[i].m
      <4> SUFFICES ASSUME NEW i \in DOMAIN outboundMsgs PROVE outboundMsgs'[i].m = outboundMsgs[i].m
        OBVIOUS
      <4>1. outboundMsgs[i] \in Entry
        BY <1>3
      <4> QED BY <1>9, <4>1 DEF Confirm, Entry
    <3> QED BY <1>17, <3>1, <3>2 DEF OrderInv, Rising
  <2>2. Queued'
    <3> SUFFICES ASSUME NEW x1 \in Elems(outboundMsgs'), NEW y1 \in Elems(outboundMsgs'),
                        Open(x1), x1.m < y1.m
                 PROVE  Ahead(toClient', toBroker', x1.id, y1.id)
      BY DEF Queued
    <3>1. PICK x \in Elems(outboundMsgs) : x1.id = x.id /\ x1.m = x.m /\ Open(x) /\ x.id # id
      BY <1>14
    <3>2. PICK y \in Elems(outboundMsgs) : y1.id = y.id /\ y1.m = y.m
      BY <1>14
    <3>3. Ahead(toClient, toBroker, x.id, y.id)
      BY <1>17, <3>1, <3>2 DEF OrderInv, Queued
    <3> QED BY <1>13, <3>1, <3>2, <3>3
  <2>3. Newer'
    BY <1>11, <1>14, <1>17 DEF OrderInv, Newer
  <2> QED BY <2>1, <2>2, <2>3
<1>18. ASSUME restarts = 0 PROVE Len(outboundMsgs') <= MAX_INFLIGHT /\ Window' /\ Numbered'
  <2>1. Len(outboundMsgs') <= MAX_INFLIGHT
    <3>1. Len(outboundMsgs') = Len(outboundMsgs)
      <4>1. outboundMsgs' \in Seq(Entry) /\ DOMAIN outboundMsgs' = DOMAIN outboundMsgs
        BY <1>3, <1>9, ConfirmElems DEF Confirm
      <4> QED BY <1>3, <4>1
    <3> QED BY <1>18, <3>1 DEF OrderInv
  <2>2. Window'
    <3> SUFFICES ASSUME NEW x1 \in Elems(outboundMsgs'), NEW m \in 1 .. published,
                        m > x1.m, Open(x1) \/ m >= x1.m + MAX_INFLIGHT
                 PROVE  Follows(x1, m)'
      BY <1>11 DEF Window
    <3>1. PICK x \in Elems(outboundMsgs) :
            x1.id = x.id /\ x1.m = x.m /\ (Open(x1) => Open(x) /\ x.id # id)
      BY <1>14
    <3>2. CASE x.id # id
      <4>1. PICK y \in Elems(outboundMsgs) : y.m = m /\ Open(y) /\ Ahead(toClient, toBroker, x.id, y.id)
        BY <1>18, <3>1 DEF OrderInv, Window, Follows
      <4>2. y \in Elems(outboundMsgs')
        BY <1>10, <1>11, <4>1
      <4> QED BY <1>13, <3>1, <3>2, <4>1, <4>2 DEF Follows
    <3>3. CASE x.id = id
      <4>1. Open(x)
        BY <1>4, <1>5, <3>3 DEF Open
      <4>2. Age(x) < MAX_INFLIGHT
        BY <1>18, <4>1, AgeBound DEF OrderInv
      <4>3. m >= x.m + MAX_INFLIGHT
        BY <3>1, <3>3
      <4>4. published \in Nat /\ x.m \in Nat /\ MAX_INFLIGHT \in Nat
        BY <1>3, EntryOf, WindowAssumption DEF SessionInv, Types, PeerType
      <4> QED BY <4>2, <4>3, <4>4 DEF Age
    <3> QED BY <3>2, <3>3
  <2>3. Numbered'
    BY <1>11, <1>14, <1>18 DEF OrderInv, Numbered, Age
  <2> QED BY <2>1, <2>2, <2>3
<1>19. restarts' \in Nat
  BY <1>11 DEF OrderInv
<1> QED BY <1>11, <1>15, <1>16, <1>17, <1>18, <1>19 DEF OrderInv

-----------------------------------------------------------------------------
(* Publishing.                                                             *)

LEMMA Around ==
  ASSUME NEW n \in Nat, NEW b \in 0 .. n, NEW i \in 1 .. n
  PROVE  (i - b - 1) % n = IF b < i THEN i - b - 1 ELSE i - b - 1 + n
<1>1. CASE b < i
  BY <1>1
<1>2. CASE i <= b
  BY <1>2
<1> QED BY <1>1, <1>2

\* assignMsgId gives the successor of the last identifier: while the identifiers are
\* numbered from it, that one is free.
LEMMA AssignedIsNext ==
  ASSUME SessionInv, Window, Numbered, Len(outboundMsgs) <= MAX_INFLIGHT,
         4 * MAX_INFLIGHT - 3 <= MAX_MSG_ID
  PROVE  MQTTProtocol_assignMsgId = IF msgID < MAX_MSG_ID THEN msgID + 1 ELSE 1
<1> DEFINE free == ((1 .. MAX_MSG_ID) \ Ids(outboundMsgs)) \ {msgID}
           dist(i) == (i - msgID - 1) % MAX_MSG_ID
           c == IF msgID < MAX_MSG_ID THEN msgID + 1 ELSE 1
<1>1. /\ outboundMsgs \in Seq(Entry) /\ msgID \in 0 .. MAX_MSG_ID /\ published \in Nat
      /\ MAX_INFLIGHT \in Nat \ {0} /\ MAX_MSG_ID \in Nat /\ MAX_INFLIGHT < MAX_MSG_ID
  BY WindowAssumption DEF SessionInv, Types, ClientType, PeerType
<1>2. \A i \in 1 .. MAX_MSG_ID : dist(i) = IF msgID < i THEN i - msgID - 1 ELSE i - msgID - 1 + MAX_MSG_ID
  BY <1>1, Around
<1> HIDE DEF dist
<1>3. c \in 1 .. MAX_MSG_ID /\ c # msgID /\ dist(c) = 0
  BY <1>1, <1>2
<1>4. \A i \in 1 .. MAX_MSG_ID : dist(i) = 0 => i = c
  BY <1>1, <1>2
<1>5. \A i \in 1 .. MAX_MSG_ID : dist(i) >= 0
  BY <1>1, <1>2
<1>6. c \notin Ids(outboundMsgs)
  <2> SUFFICES ASSUME NEW x \in Elems(outboundMsgs) PROVE x.id # c
    BY <1>1, IdsElems
  <2>1. Age(x) \in Nat /\ Age(x) < MAX_MSG_ID - 1
    BY <1>1, AgeBound
  <2>2. x.id = IF Age(x) < msgID THEN msgID - Age(x) ELSE MAX_MSG_ID + msgID - Age(x)
    BY DEF Numbered
  <2> QED BY <1>1, <2>1, <2>2
<1>7. c \in free
  BY <1>3, <1>6
<1>8. MQTTProtocol_assignMsgId = CHOOSE i \in free : \A j \in free : dist(i) <= dist(j)
  BY <1>7 DEF MQTTProtocol_assignMsgId, dist
<1>9. \A j \in free : dist(c) <= dist(j)
  BY <1>3, <1>5
<1>10. \A i \in free : (\A j \in free : dist(i) <= dist(j)) => i = c
  <2> SUFFICES ASSUME NEW i \in free, \A j \in free : dist(i) <= dist(j) PROVE i = c
    OBVIOUS
  <2>1. i \in 1 .. MAX_MSG_ID /\ dist(i) <= dist(c)
    BY <1>7
  <2>2. dist(i) = 0
    <3>1. dist(i) \in Int /\ dist(i) >= 0
      BY <1>1, <1>2, <1>5, <2>1
    <3> QED BY <1>3, <2>1, <3>1
  <2> QED BY <1>4, <2>1, <2>2
<1> HIDE DEF free, c
<1>11. MQTTProtocol_assignMsgId = c
  BY <1>7, <1>8, <1>9, <1>10
<1> QED BY <1>11 DEF c

\* A publication is listed: it is the newest, and nothing is on the way for its identifier.
LEMMA ListedOrder ==
  ASSUME SessionInv, OrderInv, NEW x \in Entry, x.m = published + 1, Open(x),
         Quiet(toBroker, toClient, x.id), x.id \notin Ids(outboundMsgs),
         restarts = 0 => x.id = IF msgID < MAX_MSG_ID THEN msgID + 1 ELSE 1,
         Len(outboundMsgs) < MAX_INFLIGHT, 4 * MAX_INFLIGHT - 3 <= MAX_MSG_ID,
         outboundMsgs' = Append(outboundMsgs, x), msgID' = x.id, published' = published + 1,
         UNCHANGED <<received, broker, restarts>>,
         Elems(toClient') \subseteq Elems(toClient),
         link' => link /\ UnderWay(toClient', toBroker', x.id),
         link' => \A id : UnderWay(toClient, toBroker, id) => UnderWay(toClient', toBroker', id),
         \A y, z \in Elems(outboundMsgs) :
           Ahead(toClient, toBroker, y.id, z.id) => Ahead(toClient', toBroker', y.id, z.id),
         \A y \in Elems(outboundMsgs) : Ahead(toClient', toBroker', y.id, x.id)
  PROVE  OrderInv'
<1>1. /\ outboundMsgs \in Seq(Entry) /\ published \in Nat /\ msgID \in 0 .. MAX_MSG_ID
      /\ Len(outboundMsgs) \in Nat /\ restarts \in Nat
      /\ MAX_INFLIGHT \in Nat \ {0} /\ MAX_MSG_ID \in Nat /\ MAX_INFLIGHT < MAX_MSG_ID
  BY WindowAssumption DEF SessionInv, Types, ClientType, PeerType, OrderInv
<1>2. /\ Elems(outboundMsgs') = Elems(outboundMsgs) \cup {x}
      /\ \A y \in Elems(outboundMsgs) : y.id # x.id /\ y.m \in 1 .. published
  BY <1>1, ElemsAppend, IdsElems DEF SessionInv, SentInv
<1>3. OnTheWay'
  BY <1>2 DEF OrderInv, OnTheWay
<1>4. AnswerMeans'
  <2> SUFFICES ASSUME NEW q \in Elems(toClient), NEW y \in Elems(outboundMsgs'), y.id = q.id
               PROVE  /\ q.t = "PUBACK" => y.m \in Elems(received)
                      /\ q.t = "PUBREC" => y.qos = 2 /\ y.id \in broker.in
    BY DEF AnswerMeans
  <2>1. CASE y = x
    BY <2>1 DEF Quiet, Answers
  <2>2. CASE y \in Elems(outboundMsgs)
    BY <2>2 DEF OrderInv, AnswerMeans
  <2> QED BY <1>2, <2>1, <2>2
<1>5. FirstReceiptsInOrder'
  BY DEF OrderInv, FirstReceiptsInOrder
<1>6. ASSUME restarts <= 1 PROVE Rising(outboundMsgs') /\ Queued' /\ Newer'
  <2>1. Rising(outboundMsgs')
    <3> SUFFICES ASSUME NEW i \in DOMAIN outboundMsgs', NEW j \in DOMAIN outboundMsgs', i < j
                 PROVE  outboundMsgs'[i].m < outboundMsgs'[j].m
      BY DEF Rising
    <3>1. /\ DOMAIN outboundMsgs' = 1 .. Len(outboundMsgs) + 1 /\ DOMAIN outboundMsgs = 1 .. Len(outboundMsgs)
          /\ \A k \in 1 .. Len(outboundMsgs) : outboundMsgs'[k] = outboundMsgs[k]
          /\ outboundMsgs'[Len(outboundMsgs) + 1] = x
      BY <1>1
    <3>2. i \in DOMAIN outboundMsgs /\ outboundMsgs'[i] = outboundMsgs[i]
      BY <1>1, <3>1
    <3>3. CASE j \in DOMAIN outboundMsgs
      BY <1>6, <3>1, <3>2, <3>3 DEF OrderInv, Rising
    <3>4. CASE j = Len(outboundMsgs) + 1
      <4>1. outboundMsgs[i].m \in 1 .. published
        BY <1>1, <1>2, <3>2, ElemsOf
      <4> QED BY <1>1, <3>1, <3>2, <3>4, <4>1
    <3> QED BY <1>1, <3>1, <3>3, <3>4
  <2>2. Queued'
    <3> SUFFICES ASSUME NEW y \in Elems(outboundMsgs'), NEW z \in Elems(outboundMsgs'), Open(y), y.m < z.m
                 PROVE  Ahead(toClient', toBroker', y.id, z.id)
      BY DEF Queued
    <3>1. y \in Elems(outboundMsgs)
      BY <1>1, <1>2
    <3>2. CASE z = x
      BY <3>1, <3>2
    <3>3. CASE z \in Elems(outboundMsgs)
      BY <1>6, <3>1, <3>3 DEF OrderInv, Queued
    <3> QED BY <1>2, <3>2, <3>3
  <2>3. Newer'
    <3>1. \A r \in Elems(received) : r < x.m
      <4>1. Elems(received) \subseteq 1 .. published
        BY DEF SessionInv, SentInv
      <4> QED BY <1>1, <4>1
    <3> QED BY <1>2, <1>6, <3>1 DEF OrderInv, Newer
  <2> QED BY <2>1, <2>2, <2>3
<1>7. ASSUME restarts = 0 PROVE Len(outboundMsgs') <= MAX_INFLIGHT /\ Window' /\ Numbered'
  <2>1. Len(outboundMsgs') <= MAX_INFLIGHT
    BY <1>1
  <2>2. Window'
    <3> SUFFICES ASSUME NEW y \in Elems(outboundMsgs'), NEW m \in 1 .. published + 1,
                        m > y.m, Open(y) \/ m >= y.m + MAX_INFLIGHT
                 PROVE  Follows(y, m)'
      BY DEF Window
    <3>1. y \in Elems(outboundMsgs)
      BY <1>1, <1>2
    <3>2. CASE m = published + 1
      BY <1>2, <3>1, <3>2 DEF Follows
    <3>3. CASE m \in 1 .. published
      <4>1. PICK z \in Elems(outboundMsgs) : z.m = m /\ Open(z) /\ Ahead(toClient, toBroker, y.id, z.id)
        BY <1>7, <3>1, <3>3 DEF OrderInv, Window, Follows
      <4> QED BY <1>2, <3>1, <4>1 DEF Follows
    <3> QED BY <1>1, <3>2, <3>3
  <2>3. Numbered'
    <3>1. x.id = IF msgID < MAX_MSG_ID THEN msgID + 1 ELSE 1
      BY <1>7
    <3>2. ASSUME NEW y \in Elems(outboundMsgs'), NEW a, a = published + 1 - y.m
          PROVE  y.id = IF a < x.id THEN x.id - a ELSE MAX_MSG_ID + x.id - a
      <4>1. CASE y = x
        <5>1. a = 0 /\ x.id \in Nat \ {0}
          BY <1>1, <3>1, <3>2, <4>1
        <5> QED BY <4>1, <5>1
      <4>2. CASE y \in Elems(outboundMsgs)
        <5>1. y.id = IF Age(y) < msgID THEN msgID - Age(y) ELSE MAX_MSG_ID + msgID - Age(y)
          BY <1>7, <4>2 DEF OrderInv, Numbered
        <5>2. Age(y) \in Nat /\ Age(y) < MAX_MSG_ID
          BY <1>1, <1>7, <4>2, AgeBound DEF OrderInv
        <5>3. y.m \in 1 .. published /\ Age(y) = published - y.m
          BY <1>2, <4>2 DEF Age
        <5>4. a = Age(y) + 1
          BY <1>1, <3>2, <5>3
        <5>5. CASE msgID < MAX_MSG_ID
          BY <1>1, <3>1, <5>1, <5>2, <5>4, <5>5
        <5>6. CASE msgID = MAX_MSG_ID
          BY <1>1, <3>1, <5>1, <5>2, <5>4, <5>6
        <5> QED BY <1>1, <5>5, <5>6
      <4> QED BY <1>2, <4>1, <4>2
    <3>3. \A y \in Elems(outboundMsgs') : Age(y)' = published + 1 - y.m
      <4> SUFFICES ASSUME NEW y \in Elems(outboundMsgs') PROVE published' - y.m = published + 1 - y.m
        BY DEF Age
      <4>1. y.m \in Int
        BY <1>1, <1>2
      <4> QED BY <1>1, <4>1
    <3> QED BY <3>2, <3>3 DEF Numbered
  <2> QED BY <2>1, <2>2, <2>3
<1> QED BY <1>1, <1>3, <1>4, <1>5, <1>6, <1>7 DEF OrderInv

LEMMA PublishOrder ==
  ASSUME SessionInv, OrderInv, Publish, 4 * MAX_INFLIGHT - 3 <= MAX_MSG_ID
  PROVE  OrderInv'
<1> DEFINE id == MQTTProtocol_assignMsgId
           x == [id |-> id, m |-> work.m, qos |-> work.qos,
                 next |-> IF work.qos = 2 THEN "PUBREC" ELSE "PUBACK"]
           p == Pkt("PUBLISH", id, work.m, work.qos, FALSE)
<1>1. /\ pc = "publish" /\ id # 0 /\ published' = work.m /\ Len(outboundMsgs) < MAX_INFLIGHT
      /\ UNCHANGED <<broker, received, restarts>>
  BY DEF Publish, peer
<1>2. /\ work \in [m : Nat, qos : {0, 1, 2}, id : Nat, conn : Nat] /\ work.qos # 0
      /\ work.m = published + 1 /\ published \in Nat
      /\ msgID \in 0 .. MAX_MSG_ID /\ outboundMsgs \in Seq(Entry)
      /\ toBroker \in Seq(Packet) /\ toClient \in Seq(Packet)
  BY <1>1 DEF SessionInv, Types, AppType, PeerType, ClientType, NetType
<1>3. id \in Id \ Ids(outboundMsgs)
  BY <1>1, <1>2, AssignedIsFree
<1>4. restarts = 0 => id = IF msgID < MAX_MSG_ID THEN msgID + 1 ELSE 1
  BY AssignedIsNext DEF OrderInv
<1>5. id \in Nat /\ id \in 0 .. MAX_MSG_ID
  BY <1>3 DEF Id
<1> HIDE DEF id
<1>6. /\ x \in Entry /\ x.id = id /\ x.m = work.m /\ Open(x)
      /\ x.next \in IF x.qos = 2 THEN {"PUBREC", "PUBCOMP"} ELSE {"PUBACK"}
  BY <1>2, <1>5 DEF Entry, Open
<1>7. p \in Packet /\ p.id = id /\ p.t \in Requests
  BY <1>2, <1>5 DEF Packet, Pkt, PacketTypes, Requests
<1>8. \/ /\ toBroker' = IF link THEN Append(toBroker, p) ELSE toBroker
         /\ msgID' = id /\ outboundMsgs' = Append(outboundMsgs, x)
         /\ UNCHANGED <<link, toClient>>
      \/ /\ link' = FALSE /\ toBroker' = <<>> /\ toClient' = <<>>
         /\ \/ outboundMsgs' = <<>>
            \/ msgID' = id /\ outboundMsgs' = Append(outboundMsgs, x)
  BY DEF Publish, MQTTClient_cleanSession, id
<1> HIDE DEF x, p
<1>9. Quiet(toBroker, toClient, x.id)
  BY <1>2, <1>3, <1>6, ListGrows DEF SessionInv
<1>10. ASSUME outboundMsgs' = Append(outboundMsgs, x), msgID' = id,
              Elems(toClient') \subseteq Elems(toClient),
              link' => link /\ UnderWay(toClient', toBroker', id),
              link' => \A jd : UnderWay(toClient, toBroker, jd) => UnderWay(toClient', toBroker', jd),
              \A y, z \in Elems(outboundMsgs) :
                Ahead(toClient, toBroker, y.id, z.id) => Ahead(toClient', toBroker', y.id, z.id),
              \A y \in Elems(outboundMsgs) : Ahead(toClient', toBroker', y.id, id)
       PROVE  OrderInv'
  BY <1>1, <1>2, <1>3, <1>4, <1>6, <1>9, <1>10, ListedOrder
<1>11. \A jd : Ahead(<<>>, <<>>, jd, id) /\ \A kd : Ahead(<<>>, <<>>, jd, kd)
  BY EmptyQueue DEF Ahead
<1>12. CASE /\ link' = FALSE /\ toBroker' = <<>> /\ toClient' = <<>>
            /\ \/ outboundMsgs' = <<>>
               \/ msgID' = id /\ outboundMsgs' = Append(outboundMsgs, x)
  <2>1. CASE outboundMsgs' = <<>>
    <3>1. restarts' \in Nat /\ restarts <= restarts'
      BY <1>1 DEF OrderInv
    <3> QED BY <1>1, <2>1, <3>1, EmptyStep
  <2>2. CASE msgID' = id /\ outboundMsgs' = Append(outboundMsgs, x)
    <3>1. Elems(toClient') = {}
      BY <1>12, ElemsEmpty
    <3> QED BY <1>10, <1>11, <1>12, <2>2, <3>1
  <2> QED BY <1>12, <2>1, <2>2
<1>13. CASE /\ toBroker' = IF link THEN Append(toBroker, p) ELSE toBroker
            /\ msgID' = id /\ outboundMsgs' = Append(outboundMsgs, x)
            /\ UNCHANGED <<link, toClient>>
  <2>1. CASE ~link
    <3>1. toBroker = <<>> /\ toClient = <<>>
      BY <2>1 DEF SessionInv, Types, NetType
    <3> QED BY <1>10, <1>11, <1>13, <2>1, <3>1
  <2>2. CASE link
    <3>1. toBroker' = Append(toBroker, p) /\ toClient' = toClient
      BY <1>13, <2>2
    <3>2. /\ UnderWay(toClient', toBroker', id)
          /\ \A jd : UnderWay(toClient, toBroker, jd) => UnderWay(toClient', toBroker', jd)
          /\ \A jd, kd : Ahead(toClient, toBroker, jd, kd) /\ (kd # id \/ UnderWay(toClient, toBroker, jd))
               => Ahead(toClient', toBroker', jd, kd)
      BY <1>2, <1>7, <3>1, RequestSent
    <3>3. \A y \in Elems(outboundMsgs) : UnderWay(toClient, toBroker, y.id)
      BY <2>2 DEF OrderInv, OnTheWay
    <3>4. \A jd : Ahead(toClient, toBroker, jd, id)
      BY <1>6, <1>9 DEF Ahead, Led, Quiet, Elems
    <3> QED BY <1>10, <1>13, <2>2, <3>1, <3>2, <3>3, <3>4
  <2> QED BY <2>1, <2>2
<1> QED BY <1>8, <1>12, <1>13

-----------------------------------------------------------------------------
(* The first restart: the order of the identifiers, from the widest gap on. *)

\* Two publications whose identifiers are from before (H) or after the last wrap.
LEMMA Spread ==
  ASSUME NEW c \in Int, NEW d \in Nat, 2 * d < MAX_MSG_ID, NEW H,
         NEW x \in Entry, NEW y \in Entry, x.m - y.m <= d, y.m - x.m <= d,
         x.id = IF x \in H THEN x.m + c + MAX_MSG_ID ELSE x.m + c,
         y.id = IF y \in H THEN y.m + c + MAX_MSG_ID ELSE y.m + c
  PROVE  /\ x.id < y.id /\ x \in H => y \in H
         /\ x.id < y.id /\ (x \in H <=> y \in H) => x.m < y.m
         /\ (x \in H => y \in H) => (y.id - x.id > d <=> x \notin H /\ y \in H)
         /\ (x \in H => y \in H) => (MAX_MSG_ID - y.id + x.id > d <=> (x \in H <=> y \in H))
<1>0. x.m \in Nat /\ y.m \in Nat /\ MAX_MSG_ID \in Nat
  BY WindowAssumption DEF Entry
<1>1. CASE x \in H /\ y \in H
  <2>1. x.id = x.m + c + MAX_MSG_ID /\ y.id = y.m + c + MAX_MSG_ID
    BY <1>1
  <2> QED BY <1>0, <1>1, <2>1
<1>2. CASE x \in H /\ y \notin H
  <2>1. x.id = x.m + c + MAX_MSG_ID /\ y.id = y.m + c
    BY <1>2
  <2> QED BY <1>0, <1>2, <2>1
<1>3. CASE x \notin H /\ y \in H
  <2>1. x.id = x.m + c /\ y.id = y.m + c + MAX_MSG_ID
    BY <1>3
  <2> QED BY <1>0, <1>3, <2>1
<1>4. CASE x \notin H /\ y \notin H
  <2>1. x.id = x.m + c /\ y.id = y.m + c
    BY <1>4
  <2> QED BY <1>0, <1>4, <2>1
<1> QED BY <1>1, <1>2, <1>3, <1>4

\* A list in the order of its identifiers, which are the numbers of the publications
\* with c added; those of H are from before the last wrap, with MAX_MSG_ID added too.
LEMMA WrapRises ==
  ASSUME NEW s \in Seq(Entry), NEW c \in Int, NEW d \in Nat, 2 * d < MAX_MSG_ID, NEW H,
         \A x \in Elems(s) : x.id = IF x \in H THEN x.m + c + MAX_MSG_ID ELSE x.m + c,
         \A x, y \in Elems(s) : x.m - y.m <= d,
         \A x, y \in Elems(s) : x \in H /\ y \notin H => x.m < y.m,
         \A i, j \in DOMAIN s : i < j => s[i].id < s[j].id
  PROVE  Rising(MQTTPersistence_wrapMsgID(s))
<1>1. /\ Len(s) \in Nat /\ DOMAIN s = 1 .. Len(s) /\ MAX_MSG_ID \in Nat
      /\ \A i \in DOMAIN s : s[i] \in Elems(s) /\ s[i].m \in Nat /\ s[i].id \in Nat
  BY ElemsOf, EntryOf, WindowAssumption
<1>2. CASE s = <<>>
  BY <1>2 DEF MQTTPersistence_wrapMsgID, Rising
<1>3. CASE s # <<>>
  <2>0. 1 \in DOMAIN s /\ Len(s) \in DOMAIN s
    BY <1>1, <1>3
  <2>1. \A i \in DOMAIN s : s[i].id = IF s[i] \in H THEN s[i].m + c + MAX_MSG_ID ELSE s[i].m + c
    BY <1>1
  <2>2. \A i, j \in DOMAIN s : s[i].m - s[j].m <= d
    BY <1>1
  <2>12. ASSUME NEW i \in DOMAIN s, NEW j \in DOMAIN s
         PROVE  /\ s[i].id < s[j].id /\ s[i] \in H => s[j] \in H
                /\ s[i].id < s[j].id /\ (s[i] \in H <=> s[j] \in H) => s[i].m < s[j].m
                /\ (s[i] \in H => s[j] \in H) =>
                     (s[j].id - s[i].id > d <=> s[i] \notin H /\ s[j] \in H)
                /\ (s[i] \in H => s[j] \in H) =>
                     (MAX_MSG_ID - s[j].id + s[i].id > d <=> (s[i] \in H <=> s[j] \in H))
    <3>1. s[i] \in Entry /\ s[j] \in Entry
      OBVIOUS
    <3> QED BY <2>1, <2>2, <3>1, Spread
  <2>3. \A i, j \in DOMAIN s : i < j /\ s[i] \in H => s[j] \in H
    BY <2>12
  <2>4. \A i, j \in DOMAIN s : i < j /\ (s[i] \in H <=> s[j] \in H) => s[i].m < s[j].m
    BY <2>12
  <2>5. ASSUME NEW i \in DOMAIN s, i # 1
        PROVE  /\ i - 1 \in DOMAIN s
               /\ GapAt(s, i) > d <=> s[i - 1] \notin H /\ s[i] \in H
    <3>1. i - 1 \in DOMAIN s /\ GapAt(s, i) = s[i].id - s[i - 1].id
      BY <1>1, <2>5 DEF GapAt
    <3>2. s[i - 1] \in H => s[i] \in H
      BY <1>1, <2>3, <3>1
    <3> QED BY <2>12, <3>1, <3>2
  <2>6. GapAt(s, 1) > d <=> (s[1] \in H <=> s[Len(s)] \in H)
    <3>1. GapAt(s, 1) = MAX_MSG_ID - s[Len(s)].id + s[1].id
      BY DEF GapAt
    <3>2. s[1] \in H => s[Len(s)] \in H
      <4>1. CASE Len(s) = 1
        BY <4>1
      <4>2. CASE Len(s) # 1
        <5>1. 1 < Len(s)
          BY <1>1, <2>0, <4>2
        <5> QED BY <2>0, <2>3, <5>1
      <4> QED BY <4>1, <4>2
    <3> QED BY <2>0, <2>12, <3>1, <3>2
  <2>7. PICK f \in DOMAIN s :
          /\ Widest(s, f)
          /\ MQTTPersistence_wrapMsgID(s) \in Seq(Entry)
          /\ Len(MQTTPersistence_wrapMsgID(s)) = Len(s)
          /\ \A k \in 1 .. Len(s) : k <= Len(s) - f + 1
               => MQTTPersistence_wrapMsgID(s)[k] = s[k + f - 1]
          /\ \A k \in 1 .. Len(s) : k > Len(s) - f + 1
               => MQTTPersistence_wrapMsgID(s)[k] = s[k - (Len(s) - f + 1)]
    <3>1. \A x \in Entry : x.id \in Nat
      BY DEF Entry
    <3> QED BY <1>3, <3>1, WrapElems
  \* The widest gap is the one across the wrap.
  <2>8. GapAt(s, f) > d
    <3>1. \E h \in DOMAIN s : GapAt(s, h) > d
      <4>1. CASE s[1] \in H <=> s[Len(s)] \in H
        BY <2>0, <2>6, <4>1
      <4>2. CASE ~(s[1] \in H <=> s[Len(s)] \in H)
        <5> DEFINE T == {i \in DOMAIN s : s[i] \in H}
        <5>1. T \subseteq Nat /\ T # {} /\ 1 \notin T
          <6>1. s[1] \notin H /\ s[Len(s)] \in H
            <7>1. 1 < Len(s)
              BY <1>1, <2>0, <4>2
            <7>2. s[1] \in H => s[Len(s)] \in H
              BY <2>0, <2>3, <7>1
            <7> QED BY <4>2, <7>2
          <6> QED BY <1>1, <2>0, <6>1
        <5>2. PICK h \in T : \A i \in T : h <= i
          <6> HIDE DEF T
          <6> QED BY <5>1, LeastNat
        <5>3. h \in DOMAIN s /\ h # 1 /\ s[h] \in H
          BY <5>1
        <5>4. h - 1 \in DOMAIN s /\ ~(h <= h - 1)
          BY <1>1, <5>3
        <5>5. s[h - 1] \notin H
          BY <5>2, <5>4
        <5> QED BY <2>5, <5>3, <5>5
      <4> QED BY <4>1, <4>2
    <3>2. PICK h \in DOMAIN s : GapAt(s, h) > d
      BY <3>1
    <3>3. GapAt(s, h) <= GapAt(s, f) /\ GapAt(s, h) \in Int /\ GapAt(s, f) \in Int
      <4>1. GapAt(s, h) \in Int /\ GapAt(s, f) \in Int
        <5>1. \A x \in Entry : x.id \in Nat
          BY DEF Entry
        <5> QED BY <5>1, GapType
      <4> QED BY <2>7, <4>1 DEF Widest
    <3> QED BY <3>2, <3>3
  <2>9. PICK u : u = MQTTPersistence_wrapMsgID(s)
    OBVIOUS
  <2>10. /\ DOMAIN u = DOMAIN s
         /\ \A k \in 1 .. Len(s) : k <= Len(s) - f + 1 => u[k] = s[k + f - 1]
         /\ \A k \in 1 .. Len(s) : k > Len(s) - f + 1 => u[k] = s[k - (Len(s) - f + 1)]
    BY <1>1, <2>7, <2>9
  <2>11. ASSUME NEW k \in DOMAIN u, NEW l \in DOMAIN u, k < l PROVE u[k].m < u[l].m
    <3>1. CASE f = 1
      <4>1. \A i \in DOMAIN s : s[i] \in H <=> s[1] \in H
        <5> SUFFICES ASSUME NEW i \in DOMAIN s PROVE s[i] \in H <=> s[1] \in H
          OBVIOUS
        <5>1. s[1] \in H <=> s[Len(s)] \in H
          BY <2>6, <2>8, <3>1
        <5>2. i = 1 \/ (s[1] \in H => s[i] \in H)
          <6>1. i = 1 \/ 1 < i
            BY <1>1
          <6> QED BY <2>0, <2>3, <6>1
        <5>3. i = Len(s) \/ (s[i] \in H => s[Len(s)] \in H)
          <6>1. i = Len(s) \/ i < Len(s)
            BY <1>1
          <6> QED BY <2>0, <2>3, <6>1
        <5> QED BY <5>1, <5>2, <5>3
      <4>2. u[k] = s[k] /\ u[l] = s[l]
        BY <1>1, <2>10, <2>11, <3>1
      <4> QED BY <2>4, <2>10, <2>11, <4>1, <4>2
    <3>2. CASE f # 1
      <4>0. f - 1 \in DOMAIN s /\ s[f - 1] \notin H /\ s[f] \in H
        BY <2>5, <2>8, <3>2
      <4>1. \A i \in DOMAIN s : s[i] \in H <=> f <= i
        <5> SUFFICES ASSUME NEW i \in DOMAIN s PROVE s[i] \in H <=> f <= i
          OBVIOUS
        <5>1. f <= i => s[i] \in H
          BY <1>1, <2>3, <4>0
        <5>2. i < f => s[i] \notin H
          BY <1>1, <2>3, <4>0
        <5> QED BY <1>1, <5>1, <5>2
      <4>2. CASE l <= Len(s) - f + 1
        <5>1. /\ u[k] = s[k + f - 1] /\ u[l] = s[l + f - 1]
              /\ k + f - 1 \in DOMAIN s /\ l + f - 1 \in DOMAIN s /\ k + f - 1 < l + f - 1
              /\ f <= k + f - 1 /\ f <= l + f - 1
          <6>1. k \in 1 .. Len(s) /\ l \in 1 .. Len(s) /\ f \in 1 .. Len(s) /\ k <= Len(s) - f + 1
            BY <1>1, <2>10, <2>11, <4>2
          <6>2. u[k] = s[k + f - 1] /\ u[l] = s[l + f - 1]
            BY <2>10, <4>2, <6>1
          <6> QED BY <1>1, <2>11, <4>2, <6>1, <6>2
        <5> QED BY <2>4, <4>1, <5>1
      <4>3. CASE k <= Len(s) - f + 1 /\ l > Len(s) - f + 1
        <5>1. /\ u[k] = s[k + f - 1] /\ u[l] = s[l - (Len(s) - f + 1)]
              /\ k + f - 1 \in DOMAIN s /\ l - (Len(s) - f + 1) \in DOMAIN s
              /\ f <= k + f - 1 /\ ~(f <= l - (Len(s) - f + 1))
          BY <1>1, <2>10, <2>11, <4>3
        <5> QED BY <1>1, <4>1, <5>1
      <4>4. CASE k > Len(s) - f + 1
        <5>1. /\ u[k] = s[k - (Len(s) - f + 1)] /\ u[l] = s[l - (Len(s) - f + 1)]
              /\ k - (Len(s) - f + 1) \in DOMAIN s /\ l - (Len(s) - f + 1) \in DOMAIN s
              /\ k - (Len(s) - f + 1) < l - (Len(s) - f + 1)
              /\ ~(f <= k - (Len(s) - f + 1)) /\ ~(f <= l - (Len(s) - f + 1))
          BY <1>1, <2>10, <2>11, <4>4
        <5> QED BY <2>4, <4>1, <5>1
      <4> QED BY <1>1, <2>10, <2>11, <4>2, <4>3, <4>4
    <3> QED BY <3>1, <3>2
  <2> QED BY <2>9, <2>11 DEF Rising
<1> QED BY <1>2, <1>3

\* wrapMsgID finds where the identifiers wrapped around.
LEMMA RestoredRises ==
  ASSUME SessionInv, OrderInv, restarts = 0, 4 * MAX_INFLIGHT - 3 <= MAX_MSG_ID
  PROVE  Rising(MQTTPersistence_wrapMsgID(InOrder(Elems(outboundMsgs))))
<1>1. /\ outboundMsgs \in Seq(Entry) /\ Unique(outboundMsgs) /\ published \in Nat
      /\ msgID \in 0 .. MAX_MSG_ID /\ MAX_INFLIGHT \in Nat \ {0} /\ MAX_MSG_ID \in Nat
  BY WindowAssumption DEF SessionInv, Types, ClientType, PeerType, Lists
<1>2. PICK S, s : S = Elems(outboundMsgs) /\ s = InOrder(S)
  OBVIOUS
<1>3. /\ S \subseteq Entry /\ IsFiniteSet(S) /\ \A x, y \in S : x.id = y.id => x = y
      /\ \A x \in S : x.id \in Nat /\ x.m \in Nat
  BY <1>1, <1>2, EntryOf, ElemsFinite, UniqueElems
<1>4. /\ s \in Seq(S) /\ Elems(s) = S
      /\ \A i, j \in DOMAIN s : i < j => s[i].id < s[j].id
  BY <1>2, <1>3, InOrderElems
<1>5. s \in Seq(Entry)
  BY <1>3, <1>4
<1>6. \A x \in S : /\ Age(x) \in Nat /\ Age(x) <= 2 * MAX_INFLIGHT - 2
                   /\ x.id = IF Age(x) < msgID THEN msgID - Age(x) ELSE MAX_MSG_ID + msgID - Age(x)
  BY <1>2, AgeBound DEF OrderInv, Numbered
<1>7. PICK H : H = {x \in S : ~(Age(x) < msgID)}
  OBVIOUS
<1>8. PICK c \in Int, d \in Nat : c = msgID - published /\ d = 2 * MAX_INFLIGHT - 2
  BY <1>1
<1>9. ASSUME NEW x \in S
      PROVE  x.id = IF x \in H THEN x.m + c + MAX_MSG_ID ELSE x.m + c
  <2>1. x.m \in Nat /\ Age(x) = published - x.m
    BY <1>3 DEF Age
  <2>2. CASE x \in H
    <3>1. x.id = MAX_MSG_ID + msgID - Age(x)
      BY <1>6, <1>7, <2>2
    <3> QED BY <1>1, <1>8, <2>1, <2>2, <3>1
  <2>3. CASE x \notin H
    <3>1. x.id = msgID - Age(x)
      BY <1>6, <1>7, <2>3
    <3> QED BY <1>1, <1>8, <2>1, <2>3, <3>1
  <2> QED BY <2>2, <2>3
<1>10. ASSUME NEW x \in S, NEW y \in S
       PROVE  x.m - y.m <= d /\ (x \in H /\ y \notin H => x.m < y.m)
  <2>1. /\ x.m \in Nat /\ Age(x) = published - x.m /\ y.m \in Nat /\ Age(y) = published - y.m
        /\ Age(x) \in Nat /\ Age(y) \in Nat /\ Age(y) <= 2 * MAX_INFLIGHT - 2
    BY <1>3, <1>6 DEF Age
  <2>2. x.m - y.m <= d
    BY <1>1, <1>8, <2>1
  <2>3. ASSUME x \in H, y \notin H PROVE x.m < y.m
    <3>1. ~(Age(x) < msgID) /\ Age(y) < msgID
      BY <1>7, <2>3
    <3> QED BY <1>1, <2>1, <3>1
  <2> QED BY <2>2, <2>3
<1>11. 2 * d < MAX_MSG_ID
  BY <1>1, <1>8
<1>12. Rising(MQTTPersistence_wrapMsgID(s))
  BY <1>4, <1>5, <1>9, <1>10, <1>11, WrapRises
<1> QED BY <1>2, <1>12

LEMMA RestartOrder ==
  ASSUME SessionInv, OrderInv, Restart, 4 * MAX_INFLIGHT - 3 <= MAX_MSG_ID
  PROVE  OrderInv'
<1>1. /\ restarts' = restarts + 1 /\ restarts \in Nat /\ MQTTPersistence_restorePackets
      /\ link' = FALSE /\ toBroker' = <<>> /\ toClient' = <<>>
      /\ UNCHANGED <<broker, received, published>>
  BY DEF Restart, peer, OrderInv
<1>2. /\ outboundMsgs' \in Seq(Entry)
      /\ Elems(outboundMsgs') = (IF mode.persist THEN Elems(outboundMsgs) ELSE {})
      /\ mode.persist => outboundMsgs' = MQTTPersistence_wrapMsgID(InOrder(Elems(outboundMsgs)))
  BY <1>1, RestoredLists
<1>3. Elems(toClient') = {} /\ \A id, jd : Ahead(toClient', toBroker', id, jd)
  BY <1>1, ElemsEmpty, EmptyQueue DEF Ahead
<1>4. OnTheWay' /\ AnswerMeans'
  BY <1>1, <1>3 DEF OnTheWay, AnswerMeans
<1>5. FirstReceiptsInOrder'
  BY <1>1 DEF OrderInv, FirstReceiptsInOrder
<1>6. ASSUME restarts' <= 1 PROVE Rising(outboundMsgs') /\ Queued' /\ Newer'
  <2>1. restarts = 0
    BY <1>1, <1>6
  <2>2. Rising(outboundMsgs')
    <3>1. CASE mode.persist
      BY <1>2, <2>1, <3>1, RestoredRises
    <3>2. CASE ~mode.persist
      <4>1. DOMAIN outboundMsgs' = {}
        BY <1>2, <3>2 DEF Elems
      <4> QED BY <4>1 DEF Rising
    <3> QED BY <3>1, <3>2
  <2>3. Queued'
    BY <1>3 DEF Queued
  <2>4. Newer'
    BY <1>1, <1>2, <2>1 DEF OrderInv, Newer
  <2> QED BY <2>2, <2>3, <2>4
<1>7. restarts' \in Nat /\ restarts' # 0
  BY <1>1
<1> QED BY <1>4, <1>5, <1>6, <1>7 DEF OrderInv

-----------------------------------------------------------------------------
LEMMA OrderInvInit ==
  ASSUME Init
  PROVE  OrderInv
<1>1. outboundMsgs = <<>> /\ received = <<>> /\ restarts = 0 /\ link = FALSE
  BY DEF Init
<1>2. Elems(outboundMsgs) = {} /\ DOMAIN outboundMsgs = {} /\ Len(outboundMsgs) = 0 /\ DOMAIN received = {}
  BY <1>1, ElemsEmpty
<1>3. OnTheWay /\ AnswerMeans /\ Queued /\ Newer /\ Window /\ Numbered
  BY <1>2 DEF OnTheWay, AnswerMeans, Queued, Newer, Window, Numbered
<1>4. FirstReceiptsInOrder /\ Rising(outboundMsgs)
  BY <1>2 DEF FirstReceiptsInOrder, Rising
<1>5. Len(outboundMsgs) <= MAX_INFLIGHT
  BY <1>2, WindowAssumption
<1> QED BY <1>1, <1>3, <1>4, <1>5 DEF OrderInv

LEMMA OrderInvNext ==
  ASSUME SessionInv, SessionInv', OrderInv, Next, 4 * MAX_INFLIGHT - 3 <= MAX_MSG_ID
  PROVE  OrderInv'
<1>1. CASE MQTTClient_connect
  BY <1>1, ReconnectStep
<1>2. CASE Publish
  BY <1>2, PublishOrder
<1>3. CASE PublishBegin \/ PublishFails \/ WaitBegin \/ WaitEnds \/ Release \/ CallArrived \/ ArrivedReturns
  BY <1>3, QuietSteps
<1>4. CASE ConnectFails \/ MQTTClient_disconnect \/ ConnectionLost \/ BreakConnection
  BY <1>4, ClosingSteps
<1>5. CASE HandlePublish \/ HandlePubrel
  BY <1>5, InboundSteps
<1>6. CASE HandlePuback \/ HandlePubcomp
  BY <1>6, EndStep
<1>7. CASE HandlePubrec
  BY <1>7, ConfirmOrder
<1>8. CASE Restart
  BY <1>8, RestartOrder
<1>9. CASE BrokerOffers
  BY <1>9, OfferStep
<1>10. CASE BrokerReceives
  <2>1. Head(toBroker).t \in {"PUBLISH", "PUBREL"} \cup Answers
    BY <1>10, BrokerTakes DEF Packet, PacketTypes, Answers
  <2> QED BY <1>10, <2>1, ReadStep, ForgetStep, ListenStep
<1> QED BY <1>1, <1>2, <1>3, <1>4, <1>5, <1>6, <1>7, <1>8, <1>9, <1>10
        DEF Next, Application, MQTTClient_run, Broker

\* Publications first reach the broker in the order of their publish calls, through
\* broken connections, reconnects (retries sends the list in its order) and one restart
\* (insertInOrder and wrapMsgID restore that order from the identifiers, also where they
\* wrapped around). For wrapMsgID to find the wrap the identifiers must be many enough: a
\* listed publication is at most 2 * MAX_INFLIGHT - 2 behind the newest one, and the gap
\* across the wrap is the widest when twice that is less than MAX_MSG_ID, as it is with
\* the 65535 identifiers and the window of 1 or 10 that connect sets.
THEOREM FirstReceiptsOrdered ==
  ASSUME 4 * MAX_INFLIGHT - 3 <= MAX_MSG_ID
  PROVE  Spec => []FirstReceiptsInOrder
<1>1. Init => OrderInv
  BY OrderInvInit
<1>2. SessionInv /\ SessionInv' /\ OrderInv /\ [Next]_vars => OrderInv'
  <2>1. ASSUME OrderInv, UNCHANGED vars PROVE OrderInv'
    BY <2>1, SameStep DEF vars, client, net, peer, hist, count
  <2> QED BY <2>1, OrderInvNext
<1>3. OrderInv => FirstReceiptsInOrder
  BY DEF OrderInv
<1> QED BY <1>1, <1>2, <1>3, SessionInvAlways, PTL DEF Spec
=============================================================================
