---------------------------- MODULE StorageProofs ----------------------------
EXTENDS Storage, FiniteSetTheorems, WellFoundedInduction, TLAPS

\* Sets of numbers have a least member, so induction over a set is sound.
LEMMA LessWF == IsWellFoundedOn({p \in Nat \X Nat : p[1] < p[2]}, Nat)
BY NatLessThanWellFounded DEF OpToRel

LEMMA Smallest ==
  ASSUME NEW S, S \subseteq Nat, S # {}
  PROVE \E n \in S : \A k \in S : n <= k
<1> DEFINE R == {p \in Nat \X Nat : p[1] < p[2]}
<1>1. IsWellFoundedOn(R, Nat) BY LessWF
<1> HIDE DEF R
<1>2. PICK n \in S : \A k \in S : ~(<<k, n>> \in R) BY <1>1, WFMin
<1>3. \A k \in S : ~(k < n) BY <1>2 DEF R
<1>4. QED BY <1>3

LEMMA Induction ==
  ASSUME NEW S, 0 \in S, \A n \in Nat : n \in S => n + 1 \in S
  PROVE Nat \subseteq S
<1> SUFFICES ASSUME NEW z \in Nat, z \notin S PROVE FALSE OBVIOUS
<1> DEFINE T == {n \in Nat : n \notin S}
<1>1. PICK n \in T : \A k \in T : n <= k BY Smallest
<1>2. n # 0 OBVIOUS
<1>3. n - 1 \in Nat /\ n - 1 \notin T BY <1>1, <1>2
<1>4. QED BY <1>3

LEMMA Largest ==
  ASSUME NEW S, S \subseteq Nat, S # {}, NEW N \in Nat, \A k \in S : k <= N
  PROVE \E n \in S : \A k \in S : k <= n
<1> DEFINE T == {N - k : k \in S}
<1>0. \A k \in S : k \in Nat /\ k <= N /\ N - k \in Nat OBVIOUS
<1>1. T \subseteq Nat /\ T # {} BY <1>0
<1>2. PICK n \in T : \A k \in T : n <= k BY <1>1, Smallest
<1>3. PICK x \in S : n = N - x BY <1>2
<1>4. \A k \in S : N - x <= N - k BY <1>2, <1>3
<1>5. QED BY <1>4

\* A function defined by recursion over 0..N exists.
Recursive(W, base, N, st) ==
  \E f \in [0..N -> W] : f[0] = base /\ \A j \in 1..N : f[j] = st[<<j, f[j - 1]>>]

LEMMA Recursion ==
  ASSUME NEW W, NEW base \in W, NEW N \in Nat, NEW st \in [(1..N) \X W -> W]
  PROVE Recursive(W, base, N, st)
<1> DEFINE Upto(n) == \E f \in [0..n -> W] : f[0] = base /\ \A j \in 1..n : f[j] = st[<<j, f[j - 1]>>]
           S == {n \in Nat : n <= N => Upto(n)}
<1>1. Upto(0)
  <2> DEFINE f == [i \in 0..0 |-> base]
  <2>1. f \in [0..0 -> W] /\ f[0] = base OBVIOUS
  <2>2. \A j \in 1..0 : f[j] = st[<<j, f[j - 1]>>] OBVIOUS
  <2> HIDE DEF f
  <2>3. QED BY <2>1, <2>2
<1>2. ASSUME NEW n \in Nat, n \in S PROVE n + 1 \in S
  <2> SUFFICES ASSUME n + 1 <= N PROVE Upto(n + 1) BY DEF Upto
  <2>1. PICK f \in [0..n -> W] : f[0] = base /\ \A j \in 1..n : f[j] = st[<<j, f[j - 1]>>] BY <1>2
  <2> DEFINE g == [i \in 0..n + 1 |-> IF i = n + 1 THEN st[<<n + 1, f[n]>>] ELSE f[i]]
  <2>2. f[n] \in W OBVIOUS
  <2>3. <<n + 1, f[n]>> \in (1..N) \X W BY <2>2
  <2>4. g \in [0..n + 1 -> W] BY <2>3
  <2>5. g[0] = base BY <2>1
  <2>6. ASSUME NEW j \in 1..n + 1 PROVE g[j] = st[<<j, g[j - 1]>>]
    <3>1. CASE j = n + 1 BY <3>1
    <3>2. CASE j # n + 1
      <4>1. j \in 1..n /\ j - 1 \in 0..n BY <3>2
      <4>2. g[j] = f[j] /\ g[j - 1] = f[j - 1] BY <4>1
      <4>3. QED BY <4>1, <4>2, <2>1
    <3>3. QED BY <3>1, <3>2
  <2>7. QED BY <2>4, <2>5, <2>6
<1> HIDE DEF Upto
<1>3. 0 \in S BY <1>1
<1>4. Nat \subseteq S
  <2> HIDE DEF S
  <2>1. QED BY <1>2, <1>3, Induction
<1>5. Upto(N) BY <1>4
<1>6. QED BY <1>5 DEF Upto, Recursive

\* Nth counts the members of a finite set of numbers in their order.
LEMMA RankLess ==
  ASSUME NEW K, IsFiniteSet(K), K \subseteq Nat, NEW k \in K, NEW l \in K, k < l
  PROVE Cardinality({j \in K : j < k}) < Cardinality({j \in K : j < l})
<1> DEFINE A == {j \in K : j < k}
           B == {j \in K : j < l}
<1>1. IsFiniteSet(A) /\ IsFiniteSet(B) BY FS_Subset
<1>0. k \in Nat /\ l \in Nat /\ \A j \in K : j \in Nat OBVIOUS
<1>2. k \notin A /\ A \cup {k} \subseteq B
  <2>1. \A j \in K : j < k => j < l BY <1>0
  <2>2. ~(k < k) BY <1>0
  <2>3. QED BY <2>1, <2>2
<1> HIDE DEF A, B
<1>3. IsFiniteSet(A \cup {k}) /\ Cardinality(A \cup {k}) = Cardinality(A) + 1 BY <1>1, <1>2, FS_AddElement
<1>4. Cardinality(A \cup {k}) <= Cardinality(B) BY <1>1, <1>2, FS_Subset
<1>5. Cardinality(A) \in Nat /\ Cardinality(B) \in Nat BY <1>1, FS_CardinalityType
<1>6. Cardinality(A) < Cardinality(B) BY <1>3, <1>4, <1>5
<1>7. QED BY <1>6 DEF A, B

LEMMA RankType ==
  ASSUME NEW K, IsFiniteSet(K), K \subseteq Nat, NEW k \in K
  PROVE Cardinality({j \in K : j < k}) \in 0..Cardinality(K) - 1
<1> DEFINE A == {j \in K : j < k}
<1>1. A \subseteq K \ {k} OBVIOUS
<1>2. IsFiniteSet(K \ {k}) /\ Cardinality(K \ {k}) = Cardinality(K) - 1 BY FS_RemoveElement
<1> HIDE DEF A
<1>3. IsFiniteSet(A) /\ Cardinality(A) <= Cardinality(K \ {k}) BY <1>1, <1>2, FS_Subset
<1>4. Cardinality(A) \in Nat /\ Cardinality(K) \in Nat BY <1>3, FS_CardinalityType
<1>5. Cardinality(A) \in 0..Cardinality(K) - 1 BY <1>2, <1>3, <1>4
<1>6. QED BY <1>5 DEF A

LEMMA RankOnto ==
  ASSUME NEW K, IsFiniteSet(K), K \subseteq Nat, NEW i \in 1..Cardinality(K)
  PROVE \E k \in K : Cardinality({j \in K : j < k}) = i - 1
<1> DEFINE r == [k \in K |-> Cardinality({j \in K : j < k})]
           T == 0..Cardinality(K) - 1
<1>0. Cardinality(K) \in Nat BY FS_CardinalityType
<1>1. \A k \in K : r[k] \in T BY RankType
<1>2. \A k \in K, l \in K : k < l => r[k] < r[l] BY RankLess
<1>3. \A k \in K, l \in K : k = l \/ k < l \/ l < k OBVIOUS
<1>4. r \in [K -> T] BY <1>1
<1> HIDE DEF r
<1>5. \A k \in K, l \in K : r[k] = r[l] => k = l
  <2>1. \A k \in K : r[k] \in Int BY <1>1
  <2>2. QED BY <2>1, <1>2, <1>3
<1>6. r \in Injection(K, T) BY <1>4, <1>5 DEF Injection, IsInjective
<1>7. IsFiniteSet(T) /\ Cardinality(T) = Cardinality(K)
  <2> DEFINE n == Cardinality(K)
  <2> HIDE DEF n
  <2>1. n \in Nat BY <1>0 DEF n
  <2>2. IsFiniteSet(0..n - 1) /\ Cardinality(0..n - 1) = IF 0 > n - 1 THEN 0 ELSE n - 1 - 0 + 1 BY <2>1, FS_Interval
  <2>3. Cardinality(0..n - 1) = n BY <2>1, <2>2
  <2>4. QED BY <2>2, <2>3 DEF n
<1> HIDE DEF T
<1>8. r \in Surjection(K, T) BY <1>6, <1>7, FS_Injection
<1>9. i - 1 \in T BY <1>0 DEF T
<1>10. PICK k \in K : r[k] = i - 1 BY <1>8, <1>9 DEF Surjection
<1>11. QED BY <1>10 DEF r

LEMMA NthRank ==
  ASSUME NEW K, IsFiniteSet(K), K \subseteq Nat, NEW i \in 1..Cardinality(K)
  PROVE Nth(K, i) \in K /\ Cardinality({j \in K : j < Nth(K, i)}) = i - 1
BY RankOnto DEF Nth

LEMMA NthLess ==
  ASSUME NEW K, IsFiniteSet(K), K \subseteq Nat,
         NEW i \in 1..Cardinality(K), NEW j \in 1..Cardinality(K), i < j
  PROVE Nth(K, i) < Nth(K, j)
<1> DEFINE k == Nth(K, i)
           l == Nth(K, j)
<1>1. k \in K /\ Cardinality({x \in K : x < k}) = i - 1 BY NthRank
<1>2. l \in K /\ Cardinality({x \in K : x < l}) = j - 1 BY NthRank
<1> HIDE DEF k, l
<1>3. l < k => j - 1 < i - 1 BY <1>1, <1>2, RankLess
<1>4. l # k BY <1>1, <1>2
<1>5. Cardinality(K) \in Nat BY FS_CardinalityType
<1>6. k < l BY <1>1, <1>2, <1>3, <1>4, <1>5
<1>7. QED BY <1>6 DEF k, l

LEMMA NthOnto ==
  ASSUME NEW K, IsFiniteSet(K), K \subseteq Nat, NEW k \in K
  PROVE \E i \in 1..Cardinality(K) : Nth(K, i) = k /\ i = Cardinality({j \in K : j < k}) + 1
<1> DEFINE i == Cardinality({j \in K : j < k}) + 1
<1>1. Cardinality(K) \in Nat BY FS_CardinalityType
<1>0. Cardinality({j \in K : j < k}) \in 0..Cardinality(K) - 1 BY RankType
<1>2. i \in 1..Cardinality(K) BY <1>1, <1>0
<1>3. i - 1 = Cardinality({j \in K : j < k}) BY <1>1, <1>0
<1>4. Nth(K, i) \in K /\ Cardinality({j \in K : j < Nth(K, i)}) = i - 1 BY <1>2, NthRank
<1> HIDE DEF i
<1> DEFINE l == Nth(K, i)
<1> HIDE DEF l
<1>5. l \in K /\ Cardinality({j \in K : j < l}) = i - 1 BY <1>4 DEF l
<1>6. ~(l < k) /\ ~(k < l)
  <2>1. i \in Int BY <1>2, <1>1
  <2>2. l < k => Cardinality({j \in K : j < l}) < Cardinality({j \in K : j < k}) BY <1>5, RankLess
  <2>3. k < l => Cardinality({j \in K : j < k}) < Cardinality({j \in K : j < l}) BY <1>5, RankLess
  <2>4. QED BY <1>3, <1>5, <2>1, <2>2, <2>3
<1>7. l = k BY <1>5, <1>6
<1>8. QED BY <1>7, <1>2 DEF l, i

\* Nothing of the set lies between two that follow one another.
LEMMA NthNext ==
  ASSUME NEW K, IsFiniteSet(K), K \subseteq Nat, NEW i \in 1..Cardinality(K), NEW k \in K, Nth(K, i) < k
  PROVE i + 1 \in 1..Cardinality(K) /\ Nth(K, i + 1) <= k
<1>1. Cardinality(K) \in Nat BY FS_CardinalityType
<1>2. PICK j \in 1..Cardinality(K) : Nth(K, j) = k BY NthOnto
<1>3. Nth(K, i) \in Nat BY NthRank
<1>8. j < i => Nth(K, j) < Nth(K, i) BY NthLess
<1>4. ~(j < i) /\ j # i BY <1>2, <1>3, <1>8
<1>5. i + 1 \in 1..Cardinality(K) /\ (i + 1 = j \/ i + 1 < j) BY <1>1, <1>4
<1>6. Nth(K, i + 1) \in Nat BY <1>5, NthRank
<1>9. i + 1 < j => Nth(K, i + 1) < Nth(K, j) BY <1>5, NthLess
<1>7. QED BY <1>2, <1>5, <1>6, <1>9

------------------------------------------------------------------------------
\* Blocks that lie behind one another from HDSGPT on.
Cell    == [p : BOOLEAN, a : Int]
BlockOf == [a : Int, id : Strings \cup Ids, cells : Seq(Cell), link : Int]
Laid(h) ==
  /\ h \in Seq(BlockOf) /\ (Len(h) > 0 => h[1].a = HDSGPT)
  /\ \A k \in 1..Len(h) - 1 : h[k + 1].a = h[k].a + Size(h[k])

LEMMA SizeType ==
  ASSUME StorageAssumption, NEW b \in BlockOf
  PROVE Size(b) \in Nat /\ Size(b) >= 1
<1>1. Len(b.cells) \in Nat BY DEF BlockOf
<1>2. b.id \in Strings => Words[b.id] \in Nat BY DEF StorageAssumption
<1>3. CASE b.id \in Strings BY <1>2, <1>3 DEF Size
<1>4. CASE b.id \notin Strings BY <1>1, <1>4 DEF Size
<1>5. QED BY <1>3, <1>4

LEMMA LaidType ==
  ASSUME StorageAssumption, NEW h, Laid(h), NEW k \in DOMAIN h
  PROVE h[k] \in BlockOf /\ h[k].a \in Int /\ Size(h[k]) \in Nat /\ Size(h[k]) >= 1 /\ k \in Nat /\ k >= 1 /\ k <= Len(h)
<1>1. h \in Seq(BlockOf) BY DEF Laid
<1>2. h[k] \in BlockOf /\ k \in Nat /\ k >= 1 /\ k <= Len(h) BY <1>1
<1>3. QED BY <1>2, SizeType DEF BlockOf

LEMMA LaidOrder ==
  ASSUME StorageAssumption, NEW h, Laid(h)
  PROVE \A j, k \in DOMAIN h : j < k => h[j].a + Size(h[j]) <= h[k].a
<1> DEFINE S == {n \in Nat : n \in DOMAIN h => \A j \in DOMAIN h : j < n => h[j].a + Size(h[j]) <= h[n].a}
<1>0. h \in Seq(BlockOf) /\ Len(h) \in Nat /\ DOMAIN h = 1..Len(h) BY DEF Laid
<1>1. 0 \in S BY <1>0
<1>2. ASSUME NEW n \in Nat, n \in S PROVE n + 1 \in S
  <2> SUFFICES ASSUME n + 1 \in DOMAIN h, NEW j \in DOMAIN h, j < n + 1
               PROVE h[j].a + Size(h[j]) <= h[n + 1].a
    OBVIOUS
  <2>1. j \in Nat /\ j >= 1 BY <1>0
  <2>2. n \in DOMAIN h /\ n \in 1..Len(h) - 1 BY <1>0, <2>1
  <2>3. h[n + 1].a = h[n].a + Size(h[n]) BY <2>2 DEF Laid
  <2>4. h[n].a \in Int /\ Size(h[n]) \in Nat /\ h[j].a \in Int /\ Size(h[j]) \in Nat BY <2>2, LaidType
  <2>5. CASE j = n BY <2>3, <2>4, <2>5
  <2>6. CASE j < n
    <3>1. h[j].a + Size(h[j]) <= h[n].a BY <1>2, <2>2, <2>6
    <3>2. QED BY <3>1, <2>3, <2>4
  <2>7. QED BY <2>1, <2>5, <2>6
<1> HIDE DEF S
<1>3. Nat \subseteq S BY <1>1, <1>2, Induction
<1>4. QED BY <1>0, <1>3 DEF S

LEMMA LaidEnds ==
  ASSUME StorageAssumption, NEW h, Laid(h)
  PROVE /\ FRSGPT(h) \in Int /\ HDSGPT <= FRSGPT(h)
        /\ \A k \in DOMAIN h : HDSGPT <= h[k].a /\ h[k].a + Size(h[k]) <= FRSGPT(h)
<1>0. h \in Seq(BlockOf) /\ Len(h) \in Nat /\ DOMAIN h = 1..Len(h) BY DEF Laid
<1>1. HDSGPT \in Nat BY DEF StorageAssumption
<1>2. CASE Len(h) = 0
  <2>1. h = <<>> BY <1>0, <1>2
  <2>2. QED BY <1>0, <1>1, <1>2, <2>1 DEF FRSGPT
<1>3. CASE Len(h) # 0
  <2>1. 1 \in DOMAIN h /\ Len(h) \in DOMAIN h /\ h # <<>> BY <1>0, <1>3
  <2>2. h[1].a = HDSGPT BY <1>0, <1>3 DEF Laid
  <2>3. Last(h) = h[Len(h)] BY DEF Last
  <2>4. FRSGPT(h) = h[Len(h)].a + Size(h[Len(h)]) BY <2>1, <2>3 DEF FRSGPT
  <2>5. \A k \in DOMAIN h : h[k].a \in Int /\ Size(h[k]) \in Nat BY LaidType
  <2>6. \A k \in DOMAIN h : HDSGPT <= h[k].a
    <3> SUFFICES ASSUME NEW k \in DOMAIN h PROVE HDSGPT <= h[k].a OBVIOUS
    <3>1. k = 1 \/ 1 < k BY <1>0
    <3>2. 1 < k => h[1].a + Size(h[1]) <= h[k].a BY <2>1, LaidOrder
    <3>3. QED BY <1>1, <2>1, <2>2, <2>5, <3>1, <3>2
  <2>7. \A k \in DOMAIN h : h[k].a + Size(h[k]) <= FRSGPT(h)
    <3> SUFFICES ASSUME NEW k \in DOMAIN h PROVE h[k].a + Size(h[k]) <= FRSGPT(h) OBVIOUS
    <3>1. k = Len(h) \/ k < Len(h) BY <1>0
    <3>2. k < Len(h) => h[k].a + Size(h[k]) <= h[Len(h)].a BY <2>1, LaidOrder
    <3>3. QED BY <2>1, <2>4, <2>5, <3>1, <3>2
  <2>8. FRSGPT(h) \in Int /\ HDSGPT <= FRSGPT(h) BY <1>1, <2>1, <2>4, <2>5, <2>6
  <2>9. QED BY <2>6, <2>7, <2>8
<1>4. QED BY <1>2, <1>3

LEMMA TopIs ==
  ASSUME StorageAssumption, NEW h, Laid(h), NEW k \in DOMAIN h, NEW a \in Int,
         h[k].a <= a, a < h[k].a + Size(h[k])
  PROVE Top(h, a) = k
<1>0. h \in Seq(BlockOf) /\ Len(h) \in Nat /\ DOMAIN h = 1..Len(h) BY DEF Laid
<1>1. \A j \in DOMAIN h : h[j].a \in Int /\ Size(h[j]) \in Nat BY LaidType
<1>2. ASSUME NEW j \in DOMAIN h PROVE h[j].a <= a <=> j <= k
  <2>1. j < k => h[j].a + Size(h[j]) <= h[k].a BY LaidOrder
  <2>2. k < j => h[k].a + Size(h[k]) <= h[j].a BY LaidOrder
  <2>3. j = k \/ j < k \/ k < j BY <1>0
  <2>4. j \in Int /\ k \in Int BY <1>0
  <2>5. QED BY <1>1, <2>1, <2>2, <2>3, <2>4
<1>3. {j \in DOMAIN h : h[j].a <= a} = 1..k BY <1>0, <1>2
<1>4. k \in Nat /\ k >= 1 BY <1>0
<1>5. Cardinality(1..k) = k BY <1>4, FS_Interval
<1>6. QED BY <1>3, <1>5 DEF Top

LEMMA TopBelow ==
  ASSUME StorageAssumption, NEW h, Laid(h), NEW a \in Int, a < HDSGPT
  PROVE Top(h, a) = 0
<1>1. \A k \in DOMAIN h : HDSGPT <= h[k].a /\ h[k].a \in Int BY LaidEnds, LaidType
<1>2. HDSGPT \in Int BY DEF StorageAssumption
<1>3. {k \in DOMAIN h : h[k].a <= a} = {} BY <1>1, <1>2
<1>4. QED BY <1>3, FS_EmptySet DEF Top

\* Every address in storage is in one block.
LEMMA TopIn ==
  ASSUME StorageAssumption, NEW h, Laid(h), NEW a \in Int, HDSGPT <= a, a < FRSGPT(h)
  PROVE /\ Top(h, a) \in DOMAIN h /\ h[Top(h, a)].a <= a
        /\ a < h[Top(h, a)].a + Size(h[Top(h, a)])
<1>0. h \in Seq(BlockOf) /\ Len(h) \in Nat /\ DOMAIN h = 1..Len(h) BY DEF Laid
<1>1. \A j \in DOMAIN h : h[j].a \in Int /\ Size(h[j]) \in Nat BY LaidType
<1>2. HDSGPT \in Int BY DEF StorageAssumption
<1>3. Len(h) # 0 BY <1>0, <1>2 DEF FRSGPT
<1>4. h[1].a = HDSGPT /\ 1 \in DOMAIN h BY <1>0, <1>3 DEF Laid
<1> DEFINE S == {k \in DOMAIN h : h[k].a <= a}
<1>5. S \subseteq Nat /\ 1 \in S /\ \A k \in S : k <= Len(h) BY <1>0, <1>4
<1>6. PICK k \in S : \A j \in S : j <= k
  <2> HIDE DEF S
  <2>1. QED BY <1>0, <1>5, Largest
<1>7. k \in DOMAIN h /\ h[k].a <= a OBVIOUS
<1>8. a < h[k].a + Size(h[k])
  <2>1. CASE k = Len(h)
    <3>1. FRSGPT(h) = h[k].a + Size(h[k]) BY <1>0, <1>3, <2>1 DEF FRSGPT, Last
    <3>2. QED BY <3>1
  <2>2. CASE k # Len(h)
    <3>1. k \in 1..Len(h) - 1 /\ k + 1 \in DOMAIN h BY <1>0, <2>2
    <3>2. h[k + 1].a = h[k].a + Size(h[k]) BY <3>1 DEF Laid
    <3>3. k + 1 \notin S BY <1>0, <1>6, <1>7
    <3>4. QED BY <1>1, <3>1, <3>2, <3>3
  <2>3. QED BY <2>1, <2>2
<1>9. Top(h, a) = k BY <1>7, <1>8, TopIs
<1>10. QED BY <1>7, <1>8, <1>9

------------------------------------------------------------------------------
\* The strings of a bin, by their places in storage: those of its texts, each once,
\* in the order of their ascension numbers, each linked to the one behind it.
Asc(s, k)   == Hash[s.heap[k].id].asc
OfBin(s, b) == {k \in DOMAIN s.heap : s.heap[k].id \in Strings /\ Hash[s.heap[k].id].bin = b}
At(s, q, i) == IF i \in DOMAIN q THEN s.heap[q[i]].a ELSE 0
Strung(s, b, q) ==
  /\ q \in Seq(DOMAIN s.heap) /\ \A k \in OfBin(s, b) : \E i \in DOMAIN q : q[i] = k
  /\ \A i \in DOMAIN q : q[i] \in OfBin(s, b)
  /\ \A i, j \in DOMAIN q : i < j => q[i] # q[j] /\ Asc(s, q[i]) <= Asc(s, q[j])
  /\ s.bins[b] = At(s, q, 1) /\ \A i \in DOMAIN q : s.heap[q[i]].link = At(s, q, i + 1)
Links(s, b, c) ==
  /\ c \in Seq(Int) /\ Len(c) >= 1 /\ c[1] = -b /\ Link(s, c[Len(c)]) = 0
  /\ \A i \in 1..Len(c) - 1 : c[i + 1] # 0 /\ Link(s, c[i]) = c[i + 1]

LEMMA SameSeq ==
  ASSUME NEW S, NEW c \in Seq(S), NEW d \in Seq(S), Len(c) = Len(d), \A i \in 1..Len(c) : c[i] = d[i]
  PROVE c = d
OBVIOUS

LEMMA BinType ==
  ASSUME StorageAssumption, NEW b \in Bins
  PROVE b \in Nat /\ b > 0
BY DEF StorageAssumption, Bins

\* Walking along links that end gives the chain.
LEMMA ChainWalked ==
  ASSUME NEW s, Len(s.heap) \in Nat, NEW b, NEW c, Links(s, b, c), Len(c) <= Len(s.heap) + 1
  PROVE Chain(s, b) = c
<1> DEFINE N == Len(s.heap)
           G(w) == [n \in 0..N |-> IF n = 0 THEN <<-b>>
                     ELSE LET v == w[n - 1]
                              a == Link(s, Last(v))
                          IN IF a = 0 THEN v ELSE Append(v, a)]
           walk == CHOOSE w : w = G(w)
           upto(n) == IF n + 1 <= Len(c) THEN n + 1 ELSE Len(c)
           f == [n \in 0..N |-> SubSeq(c, 1, upto(n))]
<1>0. c \in Seq(Int) /\ Len(c) \in Nat /\ Len(c) >= 1 /\ c[1] = -b /\ Link(s, c[Len(c)]) = 0 BY DEF Links
<1>00. N \in Nat OBVIOUS
<1>1. Chain(s, b) = walk[N] BY DEF Chain
<1>2. ASSUME NEW n \in 0..N PROVE upto(n) \in 1..Len(c) /\ upto(n) \in Nat BY <1>0
<1>3. ASSUME NEW n \in 0..N
      PROVE /\ f[n] \in Seq(Int) /\ Len(f[n]) = upto(n) /\ \A i \in 1..upto(n) : f[n][i] = c[i]
            /\ Last(f[n]) = c[upto(n)]
  <2>1. upto(n) \in 1..Len(c) BY <1>2
  <2>2. f[n] = SubSeq(c, 1, upto(n)) OBVIOUS
  <2> HIDE DEF upto, f
  <2>3. f[n] \in Seq(Int) /\ Len(f[n]) = upto(n) /\ \A i \in 1..upto(n) : f[n][i] = c[i] BY <1>0, <2>1, <2>2
  <2>4. Last(f[n]) = c[upto(n)] BY <2>1, <2>3 DEF Last
  <2>5. QED BY <2>3, <2>4
<1>4. f[0] = <<-b>>
  <2>1. upto(0) = 1 /\ 0 \in 0..N BY <1>0, <1>00
  <2>2. f[0] = SubSeq(c, 1, 1) BY <2>1
  <2>3. SubSeq(c, 1, 1) = <<c[1]>>
    <3> DEFINE u == SubSeq(c, 1, 1)
               v == <<c[1]>>
    <3>1. u \in Seq(Int) /\ Len(u) = 1 /\ u[1] = c[1] BY <1>0
    <3>2. c[1] \in Int BY <1>0
    <3>3. v \in Seq(Int) /\ Len(v) = 1 /\ v[1] = c[1] BY <3>2
    <3> HIDE DEF u, v
    <3>4. \A i \in 1..1 : u[i] = v[i] BY <3>1, <3>3
    <3>5. u = v BY <3>1, <3>3, <3>4, SameSeq
    <3>6. QED BY <3>5 DEF u, v
  <2>4. QED BY <1>0, <2>2, <2>3
<1>5. ASSUME NEW n \in 1..N
      PROVE f[n] = IF Link(s, Last(f[n - 1])) = 0 THEN f[n - 1] ELSE Append(f[n - 1], Link(s, Last(f[n - 1])))
  <2>1. n \in 0..N /\ n - 1 \in 0..N BY <1>00
  <2>2. CASE n < Len(c)
    <3>1. upto(n - 1) = n /\ upto(n) = n + 1 BY <1>0, <2>2
    <3>2. Last(f[n - 1]) = c[n] BY <1>3, <2>1, <3>1
    <3>3. c[n + 1] # 0 /\ Link(s, c[n]) = c[n + 1] BY <1>0, <2>2 DEF Links
    <3>4. f[n - 1] \in Seq(Int) /\ Len(f[n - 1]) = n /\ \A i \in 1..n : f[n - 1][i] = c[i] BY <1>3, <2>1, <3>1
    <3>5. f[n] \in Seq(Int) /\ Len(f[n]) = n + 1 /\ \A i \in 1..n + 1 : f[n][i] = c[i] BY <1>3, <2>1, <3>1
    <3> HIDE DEF f, upto
    <3>6. c[n + 1] \in Int BY <1>0, <2>2
    <3> DEFINE g == Append(f[n - 1], c[n + 1])
    <3>7. g \in Seq(Int) /\ Len(g) = n + 1 /\ (\A i \in 1..n : g[i] = f[n - 1][i]) /\ g[n + 1] = c[n + 1] BY <3>4, <3>6
    <3> HIDE DEF g
    <3>8. \A i \in 1..n + 1 : i \in 1..n \/ i = n + 1 OBVIOUS
    <3>9. \A i \in 1..n + 1 : f[n][i] = g[i] BY <3>4, <3>5, <3>7, <3>8
    <3>10. f[n] = g BY <3>5, <3>7, <3>9
    <3>11. QED BY <3>2, <3>3, <3>10 DEF g
  <2>3. CASE ~(n < Len(c))
    <3>1. upto(n - 1) = Len(c) /\ upto(n) = Len(c) BY <1>0, <2>3
    <3>2. Last(f[n - 1]) = c[Len(c)] BY <1>3, <2>1, <3>1
    <3>3. f[n] = f[n - 1] BY <2>1, <3>1
    <3>4. QED BY <1>0, <3>2, <3>3
  <2>4. QED BY <2>2, <2>3
<1>6. f[N] = c
  <2>1. N \in 0..N /\ upto(N) = Len(c) BY <1>00, <1>0
  <2>2. f[N] \in Seq(Int) /\ Len(f[N]) = Len(c) /\ \A i \in 1..Len(c) : f[N][i] = c[i] BY <1>3, <2>1
  <2> DEFINE g == f[N]
  <2> HIDE DEF g, f, upto
  <2>3. g \in Seq(Int) /\ Len(g) = Len(c) /\ \A i \in 1..Len(c) : g[i] = c[i] BY <2>2 DEF g
  <2>4. g = c BY <1>0, <2>3, SameSeq
  <2>5. QED BY <2>4 DEF g
<1>7. DOMAIN f = 0..N OBVIOUS
<1> HIDE DEF f, upto
<1>8. f = G(f)
  <2>1. \A n \in 0..N : n = 0 \/ n \in 1..N OBVIOUS
  <2>2. \A n \in 0..N : f[n] = IF n = 0 THEN <<-b>>
                     ELSE LET v == f[n - 1]
                              a == Link(s, Last(v))
                          IN IF a = 0 THEN v ELSE Append(v, a) BY <1>4, <1>5, <2>1
  <2>3. f = [n \in 0..N |-> f[n]]
    <3>1. f = [n \in DOMAIN f |-> f[n]]
      <4>1. f = [n \in 0..N |-> SubSeq(c, 1, upto(n))] BY DEF f
      <4>2. QED BY <4>1
    <3>2. QED BY <1>7, <3>1
  <2>4. QED BY <2>2, <2>3
<1>9. walk = G(walk) BY <1>8
<1> HIDE DEF walk
<1> DEFINE S == {n \in Nat : n \in 0..N => walk[n] = f[n]}
<1>10. 0 \in S BY <1>9, <1>4
<1>11. ASSUME NEW n \in Nat, n \in S PROVE n + 1 \in S
  <2> SUFFICES ASSUME n + 1 \in 0..N PROVE walk[n + 1] = f[n + 1] OBVIOUS
  <2>1. n + 1 \in 1..N /\ n \in 0..N /\ n + 1 # 0 /\ n + 1 - 1 = n BY <1>00
  <2>2. walk[n] = f[n] BY <1>11, <2>1
  <2>3. walk[n + 1] = IF Link(s, Last(walk[n])) = 0 THEN walk[n] ELSE Append(walk[n], Link(s, Last(walk[n])))
    <3>1. G(walk)[n + 1] = IF Link(s, Last(walk[n])) = 0 THEN walk[n] ELSE Append(walk[n], Link(s, Last(walk[n]))) BY <2>1
    <3>2. QED BY <1>9, <3>1
  <2>4. QED BY <1>5, <2>1, <2>2, <2>3
<1> HIDE DEF S
<1>12. Nat \subseteq S BY <1>10, <1>11, Induction
<1>13. walk[N] = f[N] BY <1>00, <1>12 DEF S
<1>14. QED BY <1>1, <1>6, <1>13

LEMMA TopOwn ==
  ASSUME StorageAssumption, NEW h, Laid(h), NEW k \in DOMAIN h
  PROVE Top(h, h[k].a) = k /\ h[k].a \in Int /\ h[k].a >= HDSGPT /\ h[k].a > 0
<1>1. h[k].a \in Int /\ Size(h[k]) \in Nat /\ Size(h[k]) >= 1 BY LaidType
<1>2. h[k].a >= HDSGPT /\ HDSGPT \in Nat /\ HDSGPT # 0 BY LaidEnds DEF StorageAssumption
<1>3. h[k].a <= h[k].a /\ h[k].a < h[k].a + Size(h[k]) BY <1>1
<1>4. QED BY <1>1, <1>2, <1>3, TopIs

LEMMA StrungShort ==
  ASSUME NEW s, NEW X, s.heap \in Seq(X), NEW b, NEW q, Strung(s, b, q)
  PROVE Len(q) \in Nat /\ Len(q) <= Len(s.heap) /\ DOMAIN q = 1..Len(q) /\ \A i \in DOMAIN q : q[i] \in DOMAIN s.heap
<1>1. Len(s.heap) \in Nat /\ DOMAIN s.heap = 1..Len(s.heap) OBVIOUS
<1>2. q \in Seq(DOMAIN s.heap) BY DEF Strung
<1>3. Len(q) \in Nat /\ DOMAIN q = 1..Len(q) /\ q \in [1..Len(q) -> DOMAIN s.heap] BY <1>2
<1>4. \A i, j \in 1..Len(q) : q[i] = q[j] => i = j
  <2>1. \A i, j \in 1..Len(q) : i < j => q[i] # q[j] BY <1>3 DEF Strung
  <2>2. \A i, j \in 1..Len(q) : i = j \/ i < j \/ j < i OBVIOUS
  <2>3. QED BY <2>1, <2>2
<1>5. q \in Injection(1..Len(q), 1..Len(s.heap)) BY <1>1, <1>3, <1>4 DEF Injection, IsInjective
<1>6. IsFiniteSet(1..Len(s.heap)) /\ Cardinality(1..Len(s.heap)) = Len(s.heap) /\ Cardinality(1..Len(q)) = Len(q)
  <2>1. \A n \in Nat : IsFiniteSet(1..n) /\ Cardinality(1..n) = n
    <3> SUFFICES ASSUME NEW n \in Nat PROVE IsFiniteSet(1..n) /\ Cardinality(1..n) = n OBVIOUS
    <3>1. IsFiniteSet(1..n) /\ Cardinality(1..n) = IF 1 > n THEN 0 ELSE n - 1 + 1 BY FS_Interval
    <3>2. QED BY <3>1
  <2>2. QED BY <1>1, <1>3, <2>1
<1>7. Cardinality(1..Len(q)) <= Cardinality(1..Len(s.heap)) BY <1>5, <1>6, FS_Injection
<1>8. QED BY <1>3, <1>6, <1>7

Along(s, b, q) == [i \in 1..Len(q) + 1 |-> IF i = 1 THEN -b ELSE s.heap[q[i - 1]].a]

\* So the chain of a bin is what LOCA1 and GC find along it.
LEMMA ChainOf ==
  ASSUME StorageAssumption, NEW s, Laid(s.heap), NEW b \in Bins, NEW q, Strung(s, b, q)
  PROVE Chain(s, b) = Along(s, b, q)
<1> DEFINE c == Along(s, b, q)
           N == Len(q)
<1>0. s.heap \in Seq(BlockOf) /\ Len(s.heap) \in Nat BY DEF Laid
<1>1. N \in Nat /\ N <= Len(s.heap) /\ DOMAIN q = 1..N /\ \A i \in 1..N : q[i] \in DOMAIN s.heap BY <1>0, StrungShort
<1>2. \A k \in DOMAIN s.heap : Top(s.heap, s.heap[k].a) = k /\ s.heap[k].a \in Int /\ s.heap[k].a > 0 BY TopOwn
<1>3. b \in Nat /\ b > 0 /\ -b \in Int /\ -b < 0 /\ -(-b) = b BY BinType
<1>4. \A i \in 2..N + 1 : i - 1 \in 1..N /\ i # 1 BY <1>1
<1>5. \A i \in 1..N + 1 : i = 1 \/ i \in 2..N + 1 BY <1>1
<1>6. c[1] = -b BY <1>1 DEF Along
<1>7. \A i \in 2..N + 1 : c[i] = s.heap[q[i - 1]].a BY <1>1, <1>4 DEF Along
<1>8. c \in Seq(Int) /\ Len(c) = N + 1
  <2>1. \A i \in 1..N + 1 : c[i] \in Int BY <1>1, <1>2, <1>3, <1>4, <1>5, <1>6, <1>7
  <2>2. c = [i \in 1..N + 1 |-> c[i]] BY DEF Along
  <2> HIDE DEF c
  <2>3. c \in [1..N + 1 -> Int] BY <2>1, <2>2
  <2>4. N + 1 \in Nat BY <1>1
  <2> HIDE DEF N
  <2>5. QED BY <2>3, <2>4
<1> HIDE DEF c, N
<1>9. ASSUME NEW i \in 1..N + 1 PROVE Link(s, c[i]) = At(s, q, i)
  <2>1. CASE i = 1
    <3>1. Link(s, -b) = s.bins[b] BY <1>3 DEF Link
    <3>2. s.bins[b] = At(s, q, 1) BY DEF Strung
    <3>3. QED BY <1>6, <2>1, <3>1, <3>2
  <2>2. CASE i # 1
    <3>1. i \in 2..N + 1 /\ i - 1 \in 1..N /\ i - 1 + 1 = i BY <1>1, <2>2
    <3>2. q[i - 1] \in DOMAIN s.heap BY <1>1, <3>1
    <3>3. Link(s, s.heap[q[i - 1]].a) = s.heap[q[i - 1]].link BY <1>2, <3>2 DEF Link
    <3>4. i - 1 \in DOMAIN q BY <1>1, <3>1
    <3>5. s.heap[q[i - 1]].link = At(s, q, i - 1 + 1) BY <3>4 DEF Strung
    <3>6. QED BY <1>7, <3>1, <3>3, <3>5
  <2>3. QED BY <2>1, <2>2
<1>10. ASSUME NEW i \in 1..N PROVE At(s, q, i) = c[i + 1] /\ c[i + 1] # 0
  <2>1. i + 1 \in 2..N + 1 /\ i + 1 - 1 = i BY <1>1
  <2>2. c[i + 1] = s.heap[q[i]].a BY <1>7, <2>1
  <2>3. s.heap[q[i]].a > 0 /\ s.heap[q[i]].a \in Int BY <1>1, <1>2
  <2>4. QED BY <1>1, <2>2, <2>3 DEF At
<1>11. At(s, q, N + 1) = 0
  <2>1. N + 1 \notin DOMAIN q BY <1>1
  <2>2. QED BY <2>1 DEF At
<1>12. Links(s, b, c)
  <2>1. N + 1 \in 1..N + 1 /\ Len(c) >= 1 BY <1>1, <1>8
  <2>2. Link(s, c[Len(c)]) = 0 BY <1>8, <1>9, <1>11, <2>1
  <2>3. \A i \in 1..N : c[i + 1] # 0 /\ Link(s, c[i]) = c[i + 1]
    <3>1. \A i \in 1..N : i \in 1..N + 1 BY <1>1
    <3>2. QED BY <1>9, <1>10, <3>1
  <2>4. Len(c) - 1 = N BY <1>1, <1>8
  <2>5. QED BY <1>6, <1>8, <2>1, <2>2, <2>3, <2>4 DEF Links
<1>13. Len(c) <= Len(s.heap) + 1 BY <1>0, <1>1, <1>8
<1>14. Chain(s, b) = c BY <1>0, <1>12, <1>13, ChainWalked
<1>15. QED BY <1>14 DEF c

------------------------------------------------------------------------------
\* What GCM marks: the blocks it is given and what can be reached from them.
LEMMA TopType ==
  ASSUME NEW h, NEW X, h \in Seq(X), NEW a
  PROVE Top(h, a) \in 0..Len(h)
<1>1. Len(h) \in Nat /\ DOMAIN h = 1..Len(h) OBVIOUS
<1> DEFINE T == {k \in DOMAIN h : h[k].a <= a}
<1>2. IsFiniteSet(1..Len(h)) /\ Cardinality(1..Len(h)) = Len(h)
  <2>1. \A n \in Nat : IsFiniteSet(1..n) /\ Cardinality(1..n) = n
    <3> SUFFICES ASSUME NEW n \in Nat PROVE IsFiniteSet(1..n) /\ Cardinality(1..n) = n OBVIOUS
    <3>1. IsFiniteSet(1..n) /\ Cardinality(1..n) = IF 1 > n THEN 0 ELSE n - 1 + 1 BY FS_Interval
    <3>2. QED BY <3>1
  <2>2. QED BY <1>1, <2>1
<1>3. T \in SUBSET (1..Len(h)) BY <1>1
<1> HIDE DEF T
<1>4. Cardinality(T) \in Nat /\ Cardinality(T) <= Len(h) BY <1>2, <1>3, FS_Subset, FS_CardinalityType
<1>5. QED BY <1>1, <1>4 DEF T, Top

LEMMA TargetsType ==
  ASSUME NEW s, NEW X, s.heap \in Seq(X), NEW cells
  PROVE Targets(s, cells) \subseteq DOMAIN s.heap
<1>1. Len(s.heap) \in Nat /\ DOMAIN s.heap = 1..Len(s.heap) OBVIOUS
<1>2. \A a : Top(s.heap, a) \in 0..Len(s.heap) BY TopType
<1>3. \A a : Top(s.heap, a) # 0 => Top(s.heap, a) \in DOMAIN s.heap BY <1>1, <1>2
<1>4. QED BY <1>3 DEF Targets

Reach(s, R) == Targets(s, UNION {Range(Scanned(s.heap[k])) : k \in R})

LEMMA ReachGrows ==
  ASSUME NEW s, NEW Q, NEW R, Q \subseteq R
  PROVE Reach(s, Q) \subseteq Reach(s, R)
BY DEF Reach, Targets

LEMMA MarkClosed ==
  ASSUME NEW s, NEW X, s.heap \in Seq(X), NEW some, some \subseteq DOMAIN s.heap
  PROVE /\ some \subseteq Mark(s, some) /\ Mark(s, some) \subseteq DOMAIN s.heap
        /\ Reach(s, Mark(s, some)) \subseteq Mark(s, some)
<1> DEFINE N == Len(s.heap)
           D == DOMAIN s.heap
           G(w) == [n \in 0..N |-> some \cup IF n = 0 THEN {} ELSE Reach(s, w[n - 1])]
           reach == CHOOSE w : w = G(w)
           st == [p \in (1..N) \X SUBSET D |-> some \cup Reach(s, p[2])]
<1>0. N \in Nat /\ D = 1..N OBVIOUS
<1>1. Mark(s, some) = reach[N] BY DEF Mark, Reach
<1>2. \A R : Reach(s, R) \subseteq D BY TargetsType DEF Reach
<1>3. st \in [(1..N) \X SUBSET D -> SUBSET D] BY <1>2
<1>4. PICK f \in [0..N -> SUBSET D] : f[0] = some /\ \A j \in 1..N : f[j] = st[<<j, f[j - 1]>>]
  <2> DEFINE W == SUBSET D
  <2>1. some \in W /\ N \in Nat BY <1>0
  <2>2. st \in [(1..N) \X W -> W] BY <1>3
  <2> HIDE DEF st, N, D, W, G, reach
  <2>3. Recursive(W, some, N, st) BY <2>1, <2>2, Recursion
  <2>4. QED BY <2>3 DEF W, Recursive
<1>5. \A j \in 1..N : f[j] = some \cup Reach(s, f[j - 1])
  <2> SUFFICES ASSUME NEW j \in 1..N PROVE f[j] = some \cup Reach(s, f[j - 1]) OBVIOUS
  <2>1. j - 1 \in 0..N BY <1>0
  <2>2. f[j - 1] \in SUBSET D BY <2>1
  <2>3. <<j, f[j - 1]>> \in (1..N) \X SUBSET D BY <2>2
  <2> HIDE DEF D
  <2>4. st[<<j, f[j - 1]>>] = some \cup Reach(s, <<j, f[j - 1]>>[2]) BY <2>3
  <2>5. QED BY <1>4, <2>4
<1>6. f = G(f)
  <2>1. \A n \in 0..N : n = 0 \/ n \in 1..N OBVIOUS
  <2>2. \A n \in 0..N : f[n] = some \cup IF n = 0 THEN {} ELSE Reach(s, f[n - 1]) BY <1>4, <1>5, <2>1
  <2>3. QED BY <2>2
<1>7. reach = G(reach) BY <1>6
<1> HIDE DEF reach, D, N
<1> DEFINE g(n) == reach[n]
<1>8. \A n \in 0..N : reach[n] = some \cup IF n = 0 THEN {} ELSE Reach(s, reach[n - 1])
  <2>1. \A n \in 0..N : G(reach)[n] = some \cup IF n = 0 THEN {} ELSE Reach(s, reach[n - 1]) OBVIOUS
  <2>2. QED BY <1>7, <2>1
<1>9. reach[0] = some
  <2>1. 0 \in 0..N BY <1>0
  <2>2. reach[0] = some \cup {} BY <1>8, <2>1
  <2>3. QED BY <2>2
<1>10. \A n \in 1..N : reach[n] = some \cup Reach(s, reach[n - 1])
  <2>1. \A n \in 1..N : n \in 0..N /\ n # 0 BY <1>0
  <2>2. QED BY <1>8, <2>1
<1>11. some \subseteq D BY DEF D
<1>12. \A n \in 0..N : some \subseteq reach[n] /\ reach[n] \subseteq D BY <1>2, <1>8, <1>11
<1> HIDE DEF G
\* Each step finds something new until nothing is left to be found.
<1> DEFINE Closed(n) == Reach(s, reach[n]) \subseteq reach[n]
           S == {n \in Nat : n \in 0..N => ((n > 0 => reach[n - 1] \subseteq reach[n])
                                            /\ (Closed(n) \/ Cardinality(reach[n]) >= n + 1))}
<1>13. IsFiniteSet(D) /\ Cardinality(D) = N
  <2>1. IsFiniteSet(1..N) /\ Cardinality(1..N) = IF 1 > N THEN 0 ELSE N - 1 + 1 BY <1>0, FS_Interval
  <2>2. QED BY <1>0, <2>1
<1>14. \A n \in 0..N : IsFiniteSet(reach[n]) /\ Cardinality(reach[n]) \in Nat /\ Cardinality(reach[n]) <= N
  BY <1>12, <1>13, FS_Subset, FS_CardinalityType
<1>15. 0 \in S
  <2>1. CASE some = {}
    <3>1. Reach(s, {}) = {} BY DEF Reach, Targets
    <3>2. Closed(0) BY <2>1, <3>1, <1>9
    <3>3. QED BY <3>2
  <2>2. CASE some # {}
    <3>1. 0 \in 0..N BY <1>0
    <3>2. Cardinality(reach[0]) # 0 BY <2>2, <1>9, <1>14, <3>1, FS_EmptySet
    <3>3. QED BY <3>1, <3>2, <1>14
  <2>3. QED BY <2>1, <2>2
<1>16. ASSUME NEW n \in Nat, n \in S PROVE n + 1 \in S
  <2> SUFFICES ASSUME n + 1 \in 0..N
               PROVE reach[n] \subseteq reach[n + 1] /\ (Closed(n + 1) \/ Cardinality(reach[n + 1]) >= n + 1 + 1)
    BY <1>0
  <2>1. n \in 0..N /\ n + 1 \in 1..N /\ n + 1 - 1 = n BY <1>0
  <2>2. reach[n + 1] = some \cup Reach(s, reach[n]) BY <1>10, <2>1
  <2>3. reach[n] \subseteq reach[n + 1]
    <3>1. CASE n = 0 BY <1>9, <2>2, <3>1
    <3>2. CASE n # 0
      <4>1. n \in 1..N /\ n > 0 BY <2>1, <3>2
      <4>2. reach[n] = some \cup Reach(s, reach[n - 1]) BY <1>10, <4>1
      <4>3. reach[n - 1] \subseteq reach[n]
        <5>1. n \in 0..N => (n > 0 => reach[n - 1] \subseteq reach[n]) BY <1>16
        <5>2. QED BY <5>1, <2>1, <4>1
      <4>4. Reach(s, reach[n - 1]) \subseteq Reach(s, reach[n]) BY <4>3, ReachGrows
      <4>5. QED BY <2>2, <4>2, <4>4
    <3>3. QED BY <3>1, <3>2
  <2>4. CASE Closed(n)
    <3>1. reach[n + 1] = reach[n] BY <1>12, <2>1, <2>2, <2>3, <2>4
    <3>2. QED BY <2>3, <2>4, <3>1
  <2>5. CASE ~Closed(n)
    <3>1. Cardinality(reach[n]) >= n + 1 BY <1>16, <2>1, <2>5
    <3>2. reach[n] # reach[n + 1] BY <2>2, <2>5
    <3>3. Cardinality(reach[n]) <= Cardinality(reach[n + 1]) /\ Cardinality(reach[n]) # Cardinality(reach[n + 1])
      BY <1>14, <2>1, <2>3, <3>2, FS_Subset
    <3>4. QED BY <1>14, <2>1, <2>3, <3>1, <3>3
  <2>6. QED BY <2>4, <2>5
<1> HIDE DEF S
<1>17. Nat \subseteq S BY <1>15, <1>16, Induction
<1>18. N \in 0..N BY <1>0
<1>19. Closed(N) \/ Cardinality(reach[N]) >= N + 1 BY <1>0, <1>17, <1>18 DEF S
<1>20. Closed(N) BY <1>0, <1>14, <1>18, <1>19
<1>21. QED BY <1>1, <1>12, <1>18, <1>20 DEF D

------------------------------------------------------------------------------
\* Where the blocks K go: f[j] is where CPYCL is behind the first j blocks.
Copying(s, K, f) ==
  /\ f \in [0..Len(s.heap) -> Int] /\ f[0] = HDSGPT
  /\ \A j \in 1..Len(s.heap) : f[j] = f[j - 1] + (IF j \in K THEN Size(s.heap[j]) ELSE 0)
EndOf(h, j) == IF j = 0 THEN HDSGPT ELSE h[j].a + Size(h[j])

LEMMA EndOfIs ==
  ASSUME StorageAssumption, NEW h, Laid(h)
  PROVE /\ \A j \in 0..Len(h) : EndOf(h, j) \in Int /\ EndOf(h, j) <= FRSGPT(h)
        /\ \A k \in DOMAIN h : k - 1 \in 0..Len(h) /\ h[k].a = EndOf(h, k - 1) /\ EndOf(h, k) = h[k].a + Size(h[k])
        /\ FRSGPT(h) = EndOf(h, Len(h))
<1>0. h \in Seq(BlockOf) /\ Len(h) \in Nat /\ DOMAIN h = 1..Len(h) BY DEF Laid
<1>1. HDSGPT \in Int /\ HDSGPT <= FRSGPT(h) BY LaidEnds DEF StorageAssumption
<1>2. \A j \in DOMAIN h : h[j].a \in Int /\ Size(h[j]) \in Nat /\ h[j].a + Size(h[j]) <= FRSGPT(h) BY LaidType, LaidEnds
<1>3. \A j \in 0..Len(h) : j = 0 \/ j \in DOMAIN h BY <1>0
<1>4. \A j \in 0..Len(h) : EndOf(h, j) \in Int /\ EndOf(h, j) <= FRSGPT(h) BY <1>1, <1>2, <1>3 DEF EndOf
<1>5. ASSUME NEW k \in DOMAIN h
      PROVE k - 1 \in 0..Len(h) /\ h[k].a = EndOf(h, k - 1) /\ EndOf(h, k) = h[k].a + Size(h[k])
  <2>1. k \in 1..Len(h) /\ k # 0 /\ k - 1 \in 0..Len(h) BY <1>0
  <2>2. CASE k = 1
    <3>1. h[1].a = HDSGPT BY <1>0, <2>1, <2>2 DEF Laid
    <3>2. QED BY <2>1, <2>2, <3>1 DEF EndOf
  <2>3. CASE k # 1
    <3>1. k - 1 \in 1..Len(h) - 1 /\ k - 1 # 0 /\ k - 1 + 1 = k BY <1>0, <2>1, <2>3
    <3>2. h[k - 1 + 1].a = h[k - 1].a + Size(h[k - 1]) BY <3>1 DEF Laid
    <3>3. QED BY <2>1, <3>1, <3>2 DEF EndOf
  <2>4. QED BY <2>2, <2>3
<1>6. FRSGPT(h) = EndOf(h, Len(h))
  <2>1. CASE Len(h) = 0 BY <1>0, <2>1 DEF FRSGPT, EndOf
  <2>2. CASE Len(h) # 0
    <3>1. h # <<>> BY <1>0, <2>2
    <3>2. QED BY <2>2, <3>1 DEF FRSGPT, EndOf, Last
  <2>3. QED BY <2>1, <2>2
<1>7. QED BY <1>4, <1>5, <1>6

LEMMA CopyExists ==
  ASSUME StorageAssumption, NEW s, Laid(s.heap), NEW K, K \subseteq DOMAIN s.heap
  PROVE \E f : Copying(s, K, f) /\ \A k \in K : Forward(s, K, k) = f[k - 1]
<1> DEFINE N == Len(s.heap)
           size(j) == IF j \in K THEN Size(s.heap[j]) ELSE 0
           G(w) == [j \in 0..N |-> IF j = 0 THEN HDSGPT ELSE w[j - 1] + (IF j \in K THEN Size(s.heap[j]) ELSE 0)]
           cpycl == CHOOSE w : w = G(w)
           W == Int
           st == [p \in (1..N) \X W |-> p[2] + size(p[1])]
<1>0. s.heap \in Seq(BlockOf) /\ N \in Nat /\ DOMAIN s.heap = 1..N BY DEF Laid
<1>1. \A k \in K : Forward(s, K, k) = cpycl[k - 1] BY DEF Forward
<1>2. \A j \in 1..N : size(j) \in Int
  <2>1. \A j \in DOMAIN s.heap : Size(s.heap[j]) \in Nat BY LaidType
  <2>2. QED BY <1>0, <2>1
<1>3. st \in [(1..N) \X W -> W]
  <2>1. \A p \in (1..N) \X W : p[1] \in 1..N /\ p[2] \in Int OBVIOUS
  <2> HIDE DEF size, N
  <2>2. QED BY <1>2, <2>1
<1>4. HDSGPT \in W BY DEF StorageAssumption
<1>5. PICK f \in [0..N -> Int] : f[0] = HDSGPT /\ \A j \in 1..N : f[j] = st[<<j, f[j - 1]>>]
  <2> HIDE DEF N, G, cpycl, st, W, size
  <2>1. Recursive(W, HDSGPT, N, st) BY <1>0, <1>3, <1>4, Recursion
  <2>2. QED BY <2>1 DEF Recursive, W
<1>6. \A j \in 1..N : f[j] = f[j - 1] + size(j)
  <2> SUFFICES ASSUME NEW j \in 1..N PROVE f[j] = f[j - 1] + size(j) OBVIOUS
  <2>1. j - 1 \in 0..N BY <1>0
  <2>2. f[j - 1] \in Int BY <2>1
  <2>3. <<j, f[j - 1]>> \in (1..N) \X W BY <2>2
  <2> HIDE DEF size
  <2>4. st[<<j, f[j - 1]>>] = f[j - 1] + size(j) BY <2>3
  <2>5. QED BY <1>5, <2>4
<1>7. f = G(f)
  <2>1. \A n \in 0..N : n = 0 \/ n \in 1..N OBVIOUS
  <2>2. \A n \in 0..N : f[n] = IF n = 0 THEN HDSGPT ELSE f[n - 1] + (IF n \in K THEN Size(s.heap[n]) ELSE 0)
    BY <1>5, <1>6, <2>1
  <2> HIDE DEF N
  <2>3. QED BY <2>2
<1>8. cpycl = G(cpycl) BY <1>7
<1> HIDE DEF cpycl
<1>9. cpycl[0] = HDSGPT /\ \A j \in 1..N : cpycl[j] = cpycl[j - 1] + size(j)
  <2>1. 0 \in 0..N /\ \A j \in 1..N : j \in 0..N /\ j # 0 BY <1>0
  <2>2. G(cpycl)[0] = HDSGPT /\ \A j \in 1..N : G(cpycl)[j] = cpycl[j - 1] + size(j) BY <2>1
  <2>3. QED BY <1>8, <2>2
<1>10. DOMAIN cpycl = 0..N
  <2>1. DOMAIN G(cpycl) = 0..N OBVIOUS
  <2>2. QED BY <1>8, <2>1
<1>11. cpycl = [j \in 0..N |-> cpycl[j]]
  <2>1. G(cpycl) = [j \in 0..N |-> G(cpycl)[j]] OBVIOUS
  <2>2. QED BY <1>8, <2>1
<1> HIDE DEF N, G, size
<1> DEFINE S == {n \in Nat : n \in 0..N => cpycl[n] \in Int}
<1>12. 0 \in S BY <1>4, <1>9
<1>13. ASSUME NEW n \in Nat, n \in S PROVE n + 1 \in S
  <2> SUFFICES ASSUME n + 1 \in 0..N PROVE cpycl[n + 1] \in Int OBVIOUS
  <2>1. n \in 0..N /\ n + 1 \in 1..N /\ n + 1 - 1 = n BY <1>0
  <2>2. cpycl[n] \in Int /\ size(n + 1) \in Int BY <1>2, <1>13, <2>1
  <2>3. cpycl[n + 1] = cpycl[n + 1 - 1] + size(n + 1) BY <1>9, <2>1
  <2>4. QED BY <2>1, <2>2, <2>3
<1> HIDE DEF S
<1>14. Nat \subseteq S BY <1>12, <1>13, Induction
<1>15. \A n \in 0..N : cpycl[n] \in Int BY <1>0, <1>14 DEF S
<1>16. cpycl \in [0..N -> Int] BY <1>11, <1>15
<1>17. Copying(s, K, cpycl) BY <1>9, <1>16 DEF Copying, size, N
<1>18. QED BY <1>1, <1>17

LEMMA CopyIs ==
  ASSUME StorageAssumption, NEW s, Laid(s.heap), NEW K, K \subseteq DOMAIN s.heap, NEW f, Copying(s, K, f)
  PROVE /\ \A j \in 0..Len(s.heap) : f[j] \in Int /\ f[j] <= EndOf(s.heap, j)
        /\ \A j \in 0..Len(s.heap) : (\A k \in 1..j : k \in K) => f[j] = EndOf(s.heap, j)
        /\ \A k \in K : f[k] = f[k - 1] + Size(s.heap[k])
<1> DEFINE N == Len(s.heap)
           S == {n \in Nat : n \in 0..N => (f[n] <= EndOf(s.heap, n)
                               /\ ((\A k \in 1..n : k \in K) => f[n] = EndOf(s.heap, n)))}
<1>0. s.heap \in Seq(BlockOf) /\ N \in Nat /\ DOMAIN s.heap = 1..N BY DEF Laid
<1>1. \A j \in 0..N : f[j] \in Int BY DEF Copying
<1>2. f[0] = HDSGPT /\ \A j \in 1..N : f[j] = f[j - 1] + (IF j \in K THEN Size(s.heap[j]) ELSE 0) BY DEF Copying
<1>3. \A j \in DOMAIN s.heap : Size(s.heap[j]) \in Nat BY LaidType
<1> HIDE DEF N
<1>4. 0 \in S
  <2>1. EndOf(s.heap, 0) = HDSGPT BY DEF EndOf
  <2>2. HDSGPT \in Int BY DEF StorageAssumption
  <2>3. QED BY <1>2, <2>1, <2>2
<1>5. ASSUME NEW n \in Nat, n \in S PROVE n + 1 \in S
  <2> SUFFICES ASSUME n + 1 \in 0..N
               PROVE f[n + 1] <= EndOf(s.heap, n + 1) /\ ((\A k \in 1..n + 1 : k \in K) => f[n + 1] = EndOf(s.heap, n + 1))
    OBVIOUS
  <2>1. n \in 0..N /\ n + 1 \in 1..N /\ n + 1 - 1 = n /\ n + 1 \in DOMAIN s.heap BY <1>0
  <2>2. f[n] <= EndOf(s.heap, n) /\ ((\A k \in 1..n : k \in K) => f[n] = EndOf(s.heap, n)) BY <1>5, <2>1
  <2>3. f[n + 1] = f[n] + (IF n + 1 \in K THEN Size(s.heap[n + 1]) ELSE 0) BY <1>2, <2>1
  <2>4. s.heap[n + 1].a = EndOf(s.heap, n) /\ EndOf(s.heap, n + 1) = s.heap[n + 1].a + Size(s.heap[n + 1])
    BY <2>1, EndOfIs
  <2>5. f[n] \in Int /\ EndOf(s.heap, n) \in Int /\ Size(s.heap[n + 1]) \in Nat BY <1>0, <1>1, <1>3, <2>1, EndOfIs DEF N
  <2>6. (\A k \in 1..n + 1 : k \in K) => n + 1 \in K /\ \A k \in 1..n : k \in K OBVIOUS
  <2>7. QED BY <2>2, <2>3, <2>4, <2>5, <2>6
<1> HIDE DEF S
<1>6. Nat \subseteq S BY <1>4, <1>5, Induction
<1>7. \A j \in 0..N : j \in S BY <1>6
<1>8. \A k \in K : k \in 1..N BY <1>0
<1>9. QED BY <1>1, <1>2, <1>7, <1>8 DEF S, N

\* What lies between is dropped.
LEMMA CopyBetween ==
  ASSUME StorageAssumption, NEW s, Laid(s.heap), NEW K, K \subseteq DOMAIN s.heap, NEW f, Copying(s, K, f),
         NEW i \in 0..Len(s.heap), NEW j \in 0..Len(s.heap), i <= j, \A k \in K : ~(i < k /\ k <= j)
  PROVE f[j] = f[i]
<1> DEFINE N == Len(s.heap)
           S == {n \in Nat : i + n <= j => f[i + n] = f[i]}
<1>0. s.heap \in Seq(BlockOf) /\ N \in Nat BY DEF Laid
<1>1. \A k \in 0..N : f[k] \in Int BY DEF Copying
<1>2. \A k \in 1..N : f[k] = f[k - 1] + (IF k \in K THEN Size(s.heap[k]) ELSE 0) BY DEF Copying
<1>3. i \in Nat /\ j \in Nat /\ j <= N BY <1>0
<1> HIDE DEF N
<1>4. 0 \in S BY <1>3
<1>5. ASSUME NEW n \in Nat, n \in S PROVE n + 1 \in S
  <2> SUFFICES ASSUME i + (n + 1) <= j PROVE f[i + (n + 1)] = f[i] OBVIOUS
  <2>1. i + n <= j /\ i + (n + 1) \in 1..N /\ i + (n + 1) - 1 = i + n /\ i + n \in 0..N /\ i < i + (n + 1) BY <1>0, <1>3
  <2>2. i + (n + 1) \notin K BY <2>1
  <2>3. f[i + (n + 1)] = f[i + n] + 0 BY <1>2, <2>1, <2>2
  <2>4. f[i + n] = f[i] BY <1>5, <2>1
  <2>5. f[i + n] \in Int BY <1>1, <2>1
  <2>6. QED BY <2>3, <2>4, <2>5
<1> HIDE DEF S
<1>6. Nat \subseteq S BY <1>4, <1>5, Induction
<1>7. j - i \in Nat /\ i + (j - i) = j BY <1>3
<1>8. QED BY <1>6, <1>7 DEF S

------------------------------------------------------------------------------
\* A cell that names a place names one in a block, in a block of K.
Held(h, c)      == c \in Cell /\ (In(c) => c.a < FRSGPT(h))
Rooted(s, K, c) == In(c) => Top(s.heap, c.a) \in K

LEMMA MinIs ==
  ASSUME NEW S, S \subseteq Nat, S # {}
  PROVE Min(S) \in S /\ \A x \in S : Min(S) <= x
<1>1. \E x \in S : \A y \in S : x <= y BY Smallest
<1>2. QED BY <1>1 DEF Min

LEMMA FirstMoved ==
  ASSUME StorageAssumption, NEW s, Laid(s.heap), NEW K, K \subseteq DOMAIN s.heap
  PROVE /\ MVSGPT(s, K) \in Int /\ HDSGPT <= MVSGPT(s, K)
        /\ \A k \in DOMAIN s.heap \ K : MVSGPT(s, K) <= s.heap[k].a
<1> DEFINE S == {s.heap[k].a : k \in DOMAIN s.heap \ K} \cup {FRSGPT(s.heap)}
<1>1. FRSGPT(s.heap) \in Int /\ HDSGPT <= FRSGPT(s.heap) BY LaidEnds
<1>2. \A k \in DOMAIN s.heap : s.heap[k].a \in Int /\ HDSGPT <= s.heap[k].a BY TopOwn
<1>3. HDSGPT \in Nat BY DEF StorageAssumption
<1>4. \A x \in S : x \in Nat /\ HDSGPT <= x BY <1>1, <1>2, <1>3
<1>5. S # {} /\ S \subseteq Nat BY <1>4
<1>6. MVSGPT(s, K) = Min(S) BY DEF MVSGPT
<1> HIDE DEF S
<1>7. Min(S) \in S /\ \A x \in S : Min(S) <= x BY <1>5, MinIs
<1>8. QED BY <1>4, <1>6, <1>7 DEF S

LEMMA RelocatedIs ==
  ASSUME StorageAssumption, NEW s, Laid(s.heap), NEW K, K \subseteq DOMAIN s.heap,
         NEW c, Held(s.heap, c), Rooted(s, K, c)
  PROVE /\ ~In(c) => Relocated(s, K, c) = c
        /\ In(c) => Relocated(s, K, c) =
                      [p |-> TRUE, a |-> Forward(s, K, Top(s.heap, c.a)) + c.a - s.heap[Top(s.heap, c.a)].a]
<1> DEFINE k == Top(s.heap, c.a)
<1>0. s.heap \in Seq(BlockOf) /\ Len(s.heap) \in Nat /\ DOMAIN s.heap = 1..Len(s.heap) BY DEF Laid
<1>1. c \in Cell /\ c.a \in Int /\ c = [p |-> c.p, a |-> c.a] /\ c.p \in BOOLEAN BY DEF Held, Cell
<1>2. MVSGPT(s, K) \in Int /\ HDSGPT <= MVSGPT(s, K) /\ \A j \in DOMAIN s.heap \ K : MVSGPT(s, K) <= s.heap[j].a
  BY FirstMoved
<1>3. HDSGPT \in Int BY DEF StorageAssumption
<1>4. ASSUME ~In(c) PROVE Relocated(s, K, c) = c
  <2>1. ~(c.p /\ c.a >= MVSGPT(s, K)) BY <1>1, <1>2, <1>3, <1>4 DEF In
  <2>2. QED BY <2>1 DEF Relocated
<1>5. ASSUME In(c) PROVE Relocated(s, K, c) = [p |-> TRUE, a |-> Forward(s, K, k) + c.a - s.heap[k].a]
  <2>1. c.p = TRUE /\ HDSGPT <= c.a /\ c.a < FRSGPT(s.heap) BY <1>1, <1>5 DEF In, Held
  <2>2. k \in K BY <1>5 DEF Rooted
  <2>3. k \in DOMAIN s.heap /\ s.heap[k].a <= c.a BY <1>1, <2>1, TopIn
  <2>4. s.heap[k].a \in Int BY <2>3, TopOwn
  <2>5. CASE c.a >= MVSGPT(s, K)
    <3>1. Relocated(s, K, c) = [c EXCEPT !.a = Forward(s, K, k) + c.a - s.heap[k].a] BY <2>1, <2>5 DEF Relocated
    <3> HIDE DEF k
    <3>2. QED BY <1>1, <2>1, <3>1
  <2>6. CASE ~(c.a >= MVSGPT(s, K))
    <3>1. Relocated(s, K, c) = c BY <2>6 DEF Relocated
    <3>2. PICK f : Copying(s, K, f) /\ \A j \in K : Forward(s, K, j) = f[j - 1] BY CopyExists
    <3>3. \A j \in 1..k - 1 : j \in K
      <4> SUFFICES ASSUME NEW j \in 1..k - 1, j \notin K PROVE FALSE OBVIOUS
      <4>1. k \in Nat /\ j \in DOMAIN s.heap /\ j < k BY <1>0, <2>3
      <4>2. s.heap[j].a + Size(s.heap[j]) <= s.heap[k].a BY <2>3, <4>1, LaidOrder
      <4>3. s.heap[j].a \in Int /\ Size(s.heap[j]) \in Nat BY <4>1, LaidType
      <4>4. MVSGPT(s, K) <= s.heap[j].a BY <1>2, <4>1
      <4> HIDE DEF k
      <4>5. QED BY <1>1, <1>2, <2>3, <2>4, <2>6, <4>2, <4>3, <4>4
    <3>4. k - 1 \in 0..Len(s.heap) /\ s.heap[k].a = EndOf(s.heap, k - 1) BY <2>3, EndOfIs
    <3>5. f[k - 1] = EndOf(s.heap, k - 1) BY <3>2, <3>3, <3>4, CopyIs
    <3>6. Forward(s, K, k) = s.heap[k].a BY <2>2, <3>2, <3>4, <3>5
    <3> HIDE DEF k
    <3>7. s.heap[k].a + c.a - s.heap[k].a = c.a BY <1>1, <2>4
    <3>8. QED BY <1>1, <2>1, <3>1, <3>6, <3>7
  <2>7. QED BY <2>5, <2>6
<1>6. QED BY <1>4, <1>5

\* The link behind a place of a bin goes to the next string that is kept.
Place(s, b, q, i) == IF i = 0 THEN -b ELSE s.heap[q[i]].a

LEMMA RelinkedAt ==
  ASSUME StorageAssumption, NEW s, Laid(s.heap), NEW K, NEW b \in Bins, NEW q, Strung(s, b, q), NEW i \in 0..Len(q),
         NEW later, later = {j \in DOMAIN q : j > i /\ q[j] \in K}
  PROVE Relinked(s, K, b, Place(s, b, q, i)) = IF later = {} THEN 0 ELSE Forward(s, K, q[Min(later)])
<1> DEFINE N == Len(q)
           c == Along(s, b, q)
           a == Place(s, b, q, i)
           x == CHOOSE x \in DOMAIN c : c[x] = a
           marked == {j \in DOMAIN c : j > x /\ Top(s.heap, c[j]) \in K}
<1>0. s.heap \in Seq(BlockOf) BY DEF Laid
<1>1. N \in Nat /\ DOMAIN q = 1..N /\ \A j \in 1..N : q[j] \in DOMAIN s.heap BY <1>0, StrungShort
<1>2. \A k \in DOMAIN s.heap : Top(s.heap, s.heap[k].a) = k /\ s.heap[k].a \in Int /\ s.heap[k].a > 0 BY TopOwn
<1>3. -b \in Int /\ -b < 0 BY BinType
<1>4. Relinked(s, K, b, a) = IF marked = {} THEN 0 ELSE Forward(s, K, Top(s.heap, c[Min(marked)]))
  BY ChainOf DEF Relinked
<1>5. DOMAIN c = 1..N + 1 /\ c[1] = -b /\ \A j \in 1..N : c[j + 1] = s.heap[q[j]].a
  <2>1. \A j \in 1..N : j + 1 \in 1..N + 1 /\ j + 1 # 1 /\ j + 1 - 1 = j BY <1>1
  <2>2. 1 \in 1..N + 1 BY <1>1
  <2>3. QED BY <2>1, <2>2 DEF Along
<1> HIDE DEF N, c
<1>6. i \in 0..N /\ i \in Nat /\ i + 1 \in 1..N + 1 BY <1>1 DEF N
<1>7. \A j, l \in 1..N : q[j] = q[l] => j = l
  <2>1. \A j, l \in 1..N : j < l => q[j] # q[l] BY <1>1 DEF Strung
  <2>2. \A j, l \in 1..N : j = l \/ j < l \/ l < j OBVIOUS
  <2>3. QED BY <2>1, <2>2
<1>8. c[i + 1] = a /\ \A j \in 1..N + 1 : c[j] = a => j = i + 1
  <2>1. \A j \in 1..N : c[j + 1] > 0 /\ Top(s.heap, c[j + 1]) = q[j] BY <1>1, <1>2, <1>5
  <2>2. \A j \in 1..N + 1 : j = 1 \/ (j - 1 \in 1..N /\ j = j - 1 + 1) BY <1>1
  <2>3. CASE i = 0
    <3>1. a = -b BY <2>3 DEF Place
    <3>5. \A j \in 1..N : s.heap[q[j]].a > 0 /\ s.heap[q[j]].a \in Int BY <1>1, <1>2
    <3>6. \A y \in Int : y > 0 => y # -b BY <1>3
    <3>2. \A j \in 1..N : c[j + 1] # a BY <1>5, <3>1, <3>5, <3>6
    <3>3. \A j \in 1..N + 1 : c[j] = a => j = 1 BY <2>2, <3>2
    <3>4. QED BY <1>5, <2>3, <3>1, <3>3
  <2>4. CASE i # 0
    <3>1. i \in 1..N /\ a = c[i + 1] BY <1>5, <1>6, <2>4 DEF Place
    <3>2. a > 0 /\ Top(s.heap, a) = q[i] BY <2>1, <3>1
    <3>3. a \in Int /\ c[1] # a BY <1>1, <1>2, <1>3, <1>5, <3>1, <3>2
    <3>4. \A j \in 1..N : c[j + 1] = a => j = i BY <1>7, <2>1, <3>1, <3>2
    <3>5. ASSUME NEW j \in 1..N + 1, c[j] = a PROVE j = i + 1
      <4>1. j # 1 BY <3>3, <3>5
      <4>2. j - 1 \in 1..N /\ j = j - 1 + 1 BY <2>2, <4>1
      <4>3. j - 1 = i BY <3>4, <3>5, <4>2
      <4>4. QED BY <4>2, <4>3
    <3>6. QED BY <3>1, <3>5
  <2>5. QED BY <2>3, <2>4
<1>9. x = i + 1 BY <1>5, <1>6, <1>8
<1> HIDE DEF x, a
<1>10. \A j \in 1..N : Top(s.heap, c[j + 1]) = q[j] BY <1>1, <1>2, <1>5
<1>11. later \subseteq Nat /\ \A j : j \in later <=> j \in 1..N /\ j > i /\ q[j] \in K BY <1>1
<1>12. \A j : j \in marked <=> j \in 1..N + 1 /\ j > i + 1 /\ Top(s.heap, c[j]) \in K BY <1>5, <1>9
<1>13. \A j \in later : j + 1 \in marked
  <2>1. \A j \in 1..N : j > i => j + 1 \in 1..N + 1 /\ j + 1 > i + 1 BY <1>1, <1>6
  <2>2. QED BY <1>10, <1>11, <1>12, <2>1
<1>14. \A j \in marked : j - 1 \in later
  <2>1. \A j \in 1..N + 1 : j > i + 1 => j - 1 \in 1..N /\ j - 1 > i /\ j - 1 + 1 = j BY <1>1, <1>6
  <2>2. QED BY <1>10, <1>11, <1>12, <2>1
<1>15. marked \subseteq Nat BY <1>1, <1>12
<1> HIDE DEF marked
<1>16. CASE later = {}
  <2>1. marked = {} BY <1>14, <1>16
  <2>2. QED BY <1>4, <1>16, <2>1 DEF a
<1>17. CASE later # {}
  <2>1. marked # {} BY <1>13, <1>17
  <2>2. Min(later) \in later /\ \A j \in later : Min(later) <= j BY <1>11, <1>17, MinIs
  <2>3. Min(marked) \in marked /\ \A j \in marked : Min(marked) <= j BY <1>15, <2>1, MinIs
  <2> DEFINE u == Min(later)
             v == Min(marked)
  <2> HIDE DEF u, v
  <2>4. u \in later /\ u \in Nat /\ v \in marked /\ v \in Nat BY <1>11, <1>15, <2>2, <2>3 DEF u, v
  <2>5. u <= v - 1 BY <1>14, <2>2, <2>4 DEF u
  <2>6. v <= u + 1 BY <1>13, <2>3, <2>4 DEF v
  <2>7. v = u + 1 BY <2>4, <2>5, <2>6
  <2>8. u \in 1..N BY <1>11, <2>4
  <2>9. Top(s.heap, c[v]) = q[u] BY <1>10, <2>7, <2>8
  <2>10. QED BY <1>4, <1>17, <2>1, <2>9 DEF a, u, v
<1>18. QED BY <1>16, <1>17

Kepts(q, K) == {j \in DOMAIN q : q[j] \in K}
NthOr0(J, n) == IF n = 0 THEN 0 ELSE Nth(J, n)

LEMMA RelinkedNth ==
  ASSUME StorageAssumption, NEW s, Laid(s.heap), NEW K, NEW b \in Bins, NEW q, Strung(s, b, q),
         NEW n \in 0..Cardinality(Kepts(q, K))
  PROVE Relinked(s, K, b, Place(s, b, q, NthOr0(Kepts(q, K), n)))
          = IF n = Cardinality(Kepts(q, K)) THEN 0 ELSE Forward(s, K, q[Nth(Kepts(q, K), n + 1)])
<1> DEFINE J == Kepts(q, K)
           N == Len(q)
           C == Cardinality(J)
           i == NthOr0(J, n)
           later == {j \in DOMAIN q : j > i /\ q[j] \in K}
<1>0. s.heap \in Seq(BlockOf) BY DEF Laid
<1>1. N \in Nat /\ DOMAIN q = 1..N /\ \A j \in 1..N : q[j] \in DOMAIN s.heap BY <1>0, StrungShort
<1>2. J \subseteq 1..N BY <1>1 DEF Kepts
<1>3. IsFiniteSet(1..N) BY <1>1, FS_Interval
<1>4. IsFiniteSet(J) /\ J \subseteq Nat BY <1>1, <1>2, <1>3, FS_Subset
<1>5. C \in Nat BY <1>4, FS_CardinalityType
<1> HIDE DEF N
<1>6. n \in 0..C /\ n \in Nat BY <1>5
<1> HIDE DEF J, C
<1>7. \A m1 \in 1..C : Nth(J, m1) \in J BY <1>4, NthRank DEF C
<1>8. i \in 0..N
  <2>1. CASE n = 0 BY <1>1, <2>1 DEF NthOr0
  <2>2. CASE n # 0
    <3>1. n \in 1..C BY <1>6, <2>2
    <3>2. i = Nth(J, n) /\ i \in 1..N BY <1>2, <1>7, <2>2, <3>1 DEF NthOr0
    <3>3. QED BY <1>1, <3>2
  <2>3. QED BY <2>1, <2>2
<1>9. \A j : j \in later <=> j \in J /\ j > i BY DEF J, Kepts
<1> HIDE DEF i
<1>10. Relinked(s, K, b, Place(s, b, q, i)) = IF later = {} THEN 0 ELSE Forward(s, K, q[Min(later)])
  BY <1>8, RelinkedAt DEF N
<1> HIDE DEF later
<1>11. i \in Nat /\ \A j \in J : j \in Nat BY <1>1, <1>4, <1>8
<1>12. CASE n = C
  <2>1. later = {}
    <3> SUFFICES ASSUME NEW j \in J, j > i PROVE FALSE BY <1>9
    <3>1. PICK m1 \in 1..C : Nth(J, m1) = j BY <1>4, NthOnto DEF C
    <3>2. n # 0 /\ n \in 1..C BY <1>5, <1>6, <1>12, <3>1
    <3>3. i = Nth(J, n) BY <3>2 DEF i, NthOr0
    <3>4. m1 = n \/ m1 < n BY <1>5, <1>12, <3>1
    <3>5. m1 < n => Nth(J, m1) < Nth(J, n) BY <1>4, <3>1, <3>2, NthLess DEF C
    <3>6. QED BY <1>11, <3>1, <3>3, <3>4, <3>5
  <2>2. QED BY <1>10, <1>12, <2>1 DEF i, J, C
<1>13. CASE n # C
  <2>1. n + 1 \in 1..C BY <1>5, <1>6, <1>13
  <2> DEFINE u == Nth(J, n + 1)
  <2>2. u \in J BY <1>7, <2>1
  <2>3. u > i
    <3>1. CASE n = 0
      <4>1. i = 0 BY <3>1 DEF i, NthOr0
      <4>2. u \in 1..N BY <1>2, <2>2
      <4>3. QED BY <1>1, <4>1, <4>2
    <3>2. CASE n # 0
      <4>1. n \in 1..C /\ n < n + 1 /\ i = Nth(J, n) BY <1>5, <1>6, <3>2 DEF i, NthOr0
      <4>2. Nth(J, n) < Nth(J, n + 1) BY <1>4, <2>1, <4>1, NthLess DEF C
      <4>3. QED BY <1>11, <2>2, <4>1, <4>2
    <3>3. QED BY <3>1, <3>2
  <2>4. ASSUME NEW j \in J, j > i PROVE u <= j
    <3>1. CASE n = 0
      <4>1. PICK m1 \in 1..C : Nth(J, m1) = j BY <1>4, NthOnto DEF C
      <4>2. n + 1 = m1 \/ n + 1 < m1 BY <1>5, <3>1, <4>1
      <4>3. n + 1 < m1 => Nth(J, n + 1) < Nth(J, m1) BY <1>4, <2>1, NthLess DEF C
      <4>4. QED BY <1>11, <2>2, <4>1, <4>2, <4>3
    <3>2. CASE n # 0
      <4>1. n \in 1..C /\ i = Nth(J, n) BY <1>5, <1>6, <3>2 DEF i, NthOr0
      <4>2. Nth(J, n) < j BY <1>11, <2>4, <4>1
      <4>3. QED BY <1>4, <4>1, <4>2, NthNext DEF C
    <3>3. QED BY <3>1, <3>2
  <2>5. u \in later /\ later \subseteq J /\ \A j \in later : u <= j BY <1>9, <2>2, <2>3, <2>4
  <2>6. Min(later) \in later /\ \A j \in later : Min(later) <= j BY <1>4, <2>5, MinIs
  <2>7. Min(later) \in J /\ u <= Min(later) /\ Min(later) <= u BY <2>5, <2>6
  <2> DEFINE v == Min(later)
  <2> HIDE DEF u, v
  <2>8. v \in J /\ u <= v /\ v <= u /\ u \in J BY <2>2, <2>7 DEF v
  <2>9. v = u BY <1>11, <2>8
  <2>10. later # {} BY <2>5
  <2>11. QED BY <1>10, <1>13, <2>9, <2>10 DEF i, J, C, u, v
<1>14. QED BY <1>12, <1>13

------------------------------------------------------------------------------
\* What GC makes of the blocks it keeps.
Moved(s, K)    == [i \in 1..Cardinality(K) |-> Kept(s, K, Nth(K, i))]
NewPlace(K, k) == Cardinality({j \in K : j < k}) + 1
BinsOf(s)      == s.bins \in [Bins -> Int] /\ \A b \in Bins : \E q : Strung(s, b, q)
CellsOf(h)     == \A k \in DOMAIN h : /\ h[k].id \in Strings => Len(h[k].cells) = 2
                                      /\ \A i \in DOMAIN h[k].cells : Held(h, h[k].cells[i])
IdsOf(h)       == \A j, k \in DOMAIN h : h[j].id = h[k].id => j = k
\* K are blocks whose cells name blocks of K.
Keeps(s, K)    == K \subseteq DOMAIN s.heap
                    /\ \A k \in K : \A i \in DOMAIN s.heap[k].cells : Rooted(s, K, s.heap[k].cells[i])

LEMMA Counts ==
  ASSUME NEW N \in Nat, NEW K, K \subseteq 1..N
  PROVE IsFiniteSet(K) /\ K \subseteq Nat /\ Cardinality(K) \in Nat
<1>1. IsFiniteSet(1..N) BY FS_Interval
<1>2. IsFiniteSet(K) BY <1>1, FS_Subset
<1>3. QED BY <1>2, FS_CardinalityType

LEMMA ForwardType ==
  ASSUME StorageAssumption, NEW s, Laid(s.heap), NEW K, K \subseteq DOMAIN s.heap, NEW k \in K
  PROVE Forward(s, K, k) \in Int
<1>1. PICK f : Copying(s, K, f) /\ \A j \in K : Forward(s, K, j) = f[j - 1] BY CopyExists
<1>2. k - 1 \in 0..Len(s.heap) BY EndOfIs
<1>3. f[k - 1] \in Int BY <1>1, <1>2, CopyIs
<1>4. QED BY <1>1, <1>3

LEMMA KeptLink ==
  ASSUME StorageAssumption, NEW s, Laid(s.heap), NEW K, K \subseteq DOMAIN s.heap, NEW b \in Bins,
         NEW q, Strung(s, b, q), NEW n \in 1..Cardinality(Kepts(q, K))
  PROVE /\ q[Nth(Kepts(q, K), n)] \in K
        /\ Kept(s, K, q[Nth(Kepts(q, K), n)]).link
             = IF n = Cardinality(Kepts(q, K)) THEN 0 ELSE Forward(s, K, q[Nth(Kepts(q, K), n + 1)])
<1> DEFINE J == Kepts(q, K)
           C == Cardinality(J)
           k == q[Nth(J, n)]
<1>0. s.heap \in Seq(BlockOf) BY DEF Laid
<1>1. Len(q) \in Nat /\ DOMAIN q = 1..Len(q) BY <1>0, StrungShort
<1>2. J \subseteq 1..Len(q) /\ \A j \in J : q[j] \in K BY <1>1 DEF Kepts
<1>3. IsFiniteSet(J) /\ J \subseteq Nat /\ C \in Nat BY <1>1, <1>2, Counts
<1>4. Nth(J, n) \in J BY <1>3, NthRank
<1>5. k \in K /\ Nth(J, n) \in DOMAIN q BY <1>1, <1>2, <1>4
<1>6. k \in OfBin(s, b) BY <1>5 DEF Strung
<1>7. s.heap[k].id \in Strings /\ Hash[s.heap[k].id].bin = b BY <1>6 DEF OfBin
<1>8. s.heap[k] \in BlockOf BY <1>5, LaidType
<1>9. Kept(s, K, k).link = Relinked(s, K, b, s.heap[k].a)
  <2> HIDE DEF k
  <2>1. QED BY <1>7, <1>8 DEF Kept, BlockOf
<1>10. n \in 0..C /\ n # 0 BY <1>3
<1>11. Place(s, b, q, NthOr0(J, n)) = s.heap[k].a
  <2>1. NthOr0(J, n) = Nth(J, n) BY <1>10 DEF NthOr0
  <2>2. Nth(J, n) # 0 BY <1>1, <1>2, <1>4
  <2>3. QED BY <2>1, <2>2 DEF Place
<1>12. Relinked(s, K, b, Place(s, b, q, NthOr0(J, n))) = IF n = C THEN 0 ELSE Forward(s, K, q[Nth(J, n + 1)])
  BY <1>10, RelinkedNth
<1>13. QED BY <1>5, <1>9, <1>11, <1>12

KeptAs(s, K, k) ==
  /\ Kept(s, K, k) \in BlockOf /\ Kept(s, K, k).a = Forward(s, K, k) /\ Kept(s, K, k).id = s.heap[k].id
  /\ Size(Kept(s, K, k)) = Size(s.heap[k]) /\ Len(Kept(s, K, k).cells) = Len(s.heap[k].cells)
  /\ DOMAIN Kept(s, K, k).cells = DOMAIN s.heap[k].cells
  /\ \A i \in DOMAIN s.heap[k].cells : Kept(s, K, k).cells[i] = Relocated(s, K, s.heap[k].cells[i])

LEMMA KeptIs ==
  ASSUME StorageAssumption, NEW s, Laid(s.heap), CellsOf(s.heap), BinsOf(s), NEW K, Keeps(s, K), NEW k \in K
  PROVE KeptAs(s, K, k)
<1> DEFINE b == s.heap[k]
           cells == [i \in DOMAIN b.cells |-> Relocated(s, K, b.cells[i])]
           link == IF b.id \in Strings THEN Relinked(s, K, Hash[b.id].bin, b.a) ELSE 0
<1>0. K \subseteq DOMAIN s.heap /\ s.heap \in Seq(BlockOf) BY DEF Keeps, Laid
<1>1. k \in DOMAIN s.heap /\ b \in BlockOf BY <1>0, LaidType
<1>2. b.cells \in Seq(Cell) /\ Len(b.cells) \in Nat /\ DOMAIN b.cells = 1..Len(b.cells) BY <1>1 DEF BlockOf
<1>3. Forward(s, K, k) \in Int BY <1>0, ForwardType
<1>4. ASSUME NEW i \in DOMAIN b.cells PROVE Relocated(s, K, b.cells[i]) \in Cell
  <2>1. Held(s.heap, b.cells[i]) /\ Rooted(s, K, b.cells[i]) BY <1>1 DEF CellsOf, Keeps
  <2> DEFINE c == b.cells[i]
             j == Top(s.heap, c.a)
  <2>2. Held(s.heap, c) /\ Rooted(s, K, c) BY <2>1
  <2> HIDE DEF c
  <2>3. c \in Cell BY <2>2 DEF Held
  <2>4. CASE ~In(c)
    <3>1. Relocated(s, K, c) = c BY <1>0, <2>2, <2>4, RelocatedIs
    <3>2. QED BY <2>3, <3>1 DEF c
  <2>5. CASE In(c)
    <3>1. Relocated(s, K, c) = [p |-> TRUE, a |-> Forward(s, K, j) + c.a - s.heap[j].a] BY <1>0, <2>2, <2>5, RelocatedIs
    <3>2. j \in K BY <2>2, <2>5 DEF Rooted
    <3>3. Forward(s, K, j) \in Int /\ s.heap[j].a \in Int /\ c.a \in Int BY <1>0, <2>3, <3>2, ForwardType, LaidType DEF Cell
    <3> HIDE DEF j
    <3>4. Forward(s, K, j) + c.a - s.heap[j].a \in Int BY <3>3
    <3>5. QED BY <3>1, <3>4 DEF Cell, c
  <2>6. QED BY <2>4, <2>5
<1>5. cells \in Seq(Cell) /\ Len(cells) = Len(b.cells)
  <2>1. cells = [i \in 1..Len(b.cells) |-> Relocated(s, K, b.cells[i])] BY <1>2
  <2>2. \A i \in 1..Len(b.cells) : Relocated(s, K, b.cells[i]) \in Cell BY <1>2, <1>4
  <2> DEFINE n == Len(b.cells)
             v(i) == Relocated(s, K, b.cells[i])
  <2> HIDE DEF n, v
  <2>3. n \in Nat /\ \A i \in 1..n : v(i) \in Cell BY <1>2, <2>2 DEF n, v
  <2>4. [i \in 1..n |-> v(i)] \in Seq(Cell) /\ Len([i \in 1..n |-> v(i)]) = n BY <2>3
  <2>5. QED BY <2>1, <2>4 DEF n, v
<1>6. link \in Int
  <2>1. CASE b.id \notin Strings BY <2>1
  <2>2. CASE b.id \in Strings
    <3> DEFINE bin == Hash[b.id].bin
    <3>1. bin \in Bins BY <2>2 DEF Bins
    <3>2. PICK q : Strung(s, bin, q) BY <3>1 DEF BinsOf
    <3>3. k \in OfBin(s, bin) BY <1>1, <2>2 DEF OfBin
    <3>4. PICK i \in DOMAIN q : q[i] = k BY <3>2, <3>3 DEF Strung
    <3> DEFINE J == Kepts(q, K)
    <3>5. i \in J BY <3>4 DEF Kepts
    <3>6. Len(q) \in Nat /\ DOMAIN q = 1..Len(q) BY <1>0, <3>2, StrungShort
    <3>7. IsFiniteSet(J) /\ J \subseteq Nat /\ Cardinality(J) \in Nat
      <4>1. J \subseteq 1..Len(q) BY <3>6 DEF Kepts
      <4>2. QED BY <3>6, <4>1, Counts
    <3>8. PICK n \in 1..Cardinality(J) : Nth(J, n) = i BY <3>5, <3>7, NthOnto
    <3>9. Kept(s, K, k).link = IF n = Cardinality(J) THEN 0 ELSE Forward(s, K, q[Nth(J, n + 1)])
      BY <1>0, <3>1, <3>2, <3>4, <3>8, KeptLink
    <3>10. n # Cardinality(J) => Forward(s, K, q[Nth(J, n + 1)]) \in Int
      <4> SUFFICES ASSUME n # Cardinality(J) PROVE Forward(s, K, q[Nth(J, n + 1)]) \in Int OBVIOUS
      <4>1. n + 1 \in 1..Cardinality(J) BY <3>7
      <4>2. q[Nth(J, n + 1)] \in K BY <1>0, <3>1, <3>2, <4>1, KeptLink
      <4>3. QED BY <1>0, <4>2, ForwardType
    <3>11. Kept(s, K, k).link = link BY <1>1 DEF Kept, BlockOf
    <3> HIDE DEF link
    <3>12. QED BY <3>9, <3>10, <3>11
  <2>3. QED BY <2>1, <2>2
<1>7. Kept(s, K, k) = [a |-> Forward(s, K, k), id |-> b.id, cells |-> cells, link |-> link]
  <2>1. b = [a |-> b.a, id |-> b.id, cells |-> b.cells, link |-> b.link] BY <1>1 DEF BlockOf
  <2>2. Kept(s, K, k) = [b EXCEPT !.a = Forward(s, K, k), !.cells = cells, !.link = link] BY DEF Kept
  <2> HIDE DEF b, cells, link
  <2>3. QED BY <2>1, <2>2
<1>8. b.id \in Strings \cup Ids BY <1>1 DEF BlockOf
<1>12. DOMAIN cells = DOMAIN b.cells /\ \A i \in DOMAIN b.cells : cells[i] = Relocated(s, K, b.cells[i]) OBVIOUS
<1> HIDE DEF cells, link, b
<1>9. Kept(s, K, k) \in BlockOf BY <1>3, <1>5, <1>6, <1>7, <1>8 DEF BlockOf
<1>10. Size(Kept(s, K, k)) = Size(b) BY <1>5, <1>7 DEF Size
<1>13. Kept(s, K, k).cells = cells /\ Kept(s, K, k).a = Forward(s, K, k) /\ Kept(s, K, k).id = b.id BY <1>7
<1>11. QED BY <1>5, <1>9, <1>10, <1>12, <1>13 DEF b, KeptAs

\* The kept blocks follow one another.
LEMMA CopyNth ==
  ASSUME StorageAssumption, NEW s, Laid(s.heap), NEW K, K \subseteq DOMAIN s.heap, NEW f, Copying(s, K, f)
  PROVE /\ Cardinality(K) > 0 => f[Nth(K, 1) - 1] = HDSGPT
        /\ \A i \in 1..Cardinality(K) - 1 : f[Nth(K, i + 1) - 1] = f[Nth(K, i)]
        /\ f[Len(s.heap)] = IF Cardinality(K) = 0 THEN HDSGPT ELSE f[Nth(K, Cardinality(K))]
<1> DEFINE N == Len(s.heap)
           C == Cardinality(K)
<1>0. s.heap \in Seq(BlockOf) /\ N \in Nat /\ DOMAIN s.heap = 1..N BY DEF Laid
<1>1. IsFiniteSet(K) /\ K \subseteq Nat /\ C \in Nat /\ K \subseteq 1..N BY <1>0, Counts
<1>2. f[0] = HDSGPT BY DEF Copying
<1>3. \A i \in 1..C : Nth(K, i) \in K /\ Nth(K, i) \in 1..N BY <1>1, NthRank
<1>4. \A k \in K : k \in Nat /\ k >= 1 /\ k <= N BY <1>1
<1>5. \A i \in 0..N, j \in 0..N : i <= j /\ (\A k \in K : ~(i < k /\ k <= j)) => f[j] = f[i] BY CopyBetween
<1> HIDE DEF N, C
<1>6. ASSUME C > 0 PROVE f[Nth(K, 1) - 1] = HDSGPT
  <2>1. 1 \in 1..C BY <1>1, <1>6
  <2> DEFINE j == Nth(K, 1)
  <2>2. j \in K /\ j \in 1..N BY <1>3, <2>1
  <2>3. ASSUME NEW k \in K PROVE j <= k
    <3>1. PICK x \in 1..C : Nth(K, x) = k BY <1>1, NthOnto DEF C
    <3>2. x = 1 \/ 1 < x BY <1>1, <3>1
    <3>3. 1 < x => Nth(K, 1) < Nth(K, x) BY <1>1, <2>1, <3>1, NthLess DEF C
    <3>4. QED BY <1>4, <2>2, <3>1, <3>2, <3>3
  <2> HIDE DEF j
  <2>4. j - 1 \in 0..N /\ 0 \in 0..N /\ 0 <= j - 1 BY <1>0, <2>2
  <2>5. \A k \in K : ~(k <= j - 1) BY <1>4, <2>2, <2>3
  <2>6. QED BY <1>2, <1>5, <2>4, <2>5 DEF j
<1>7. ASSUME NEW i \in 1..C - 1 PROVE f[Nth(K, i + 1) - 1] = f[Nth(K, i)]
  <2>1. i \in 1..C /\ i + 1 \in 1..C /\ i < i + 1 BY <1>1
  <2> DEFINE j == Nth(K, i)
             l == Nth(K, i + 1)
  <2>2. j \in K /\ j \in 1..N /\ l \in K /\ l \in 1..N BY <1>3, <2>1
  <2>3. j < l BY <1>1, <2>1, NthLess DEF C
  <2>4. \A k \in K : j < k => l <= k BY <1>1, <2>1, NthNext DEF C
  <2> HIDE DEF j, l
  <2>5. j \in 0..N /\ l - 1 \in 0..N /\ j <= l - 1 BY <1>0, <2>2, <2>3
  <2>6. \A k \in K : ~(j < k /\ k <= l - 1) BY <1>4, <2>2, <2>4
  <2>7. QED BY <1>5, <2>5, <2>6 DEF j, l
<1>8. f[N] = IF C = 0 THEN HDSGPT ELSE f[Nth(K, C)]
  <2>1. CASE C = 0
    <3>1. \A k : k \notin K BY <1>1, <2>1, FS_EmptySet DEF C
    <3>2. 0 \in 0..N /\ N \in 0..N /\ 0 <= N BY <1>0
    <3>3. QED BY <1>2, <1>5, <2>1, <3>1, <3>2
  <2>2. CASE C # 0
    <3>1. C \in 1..C /\ ~(C + 1 \in 1..C) BY <1>1, <2>2
    <3>2. \A k \in K : ~(Nth(K, C) < k) BY <1>1, <3>1, NthNext DEF C
    <3>3. Nth(K, C) \in 1..N BY <1>3, <3>1
    <3>4. Nth(K, C) \in 0..N /\ N \in 0..N /\ Nth(K, C) <= N BY <1>0, <3>3
    <3>5. QED BY <1>5, <2>2, <3>2, <3>4
  <2>3. QED BY <2>1, <2>2
<1>9. QED BY <1>6, <1>7, <1>8 DEF C, N

LEMMA MovedLaid ==
  ASSUME StorageAssumption, NEW s, Laid(s.heap), CellsOf(s.heap), BinsOf(s), NEW K, Keeps(s, K)
  PROVE Laid(Moved(s, K)) /\ Len(Moved(s, K)) = Cardinality(K) /\ FRSGPT(Moved(s, K)) <= FRSGPT(s.heap)
<1> DEFINE N == Len(s.heap)
           C == Cardinality(K)
           h == Moved(s, K)
<1>0. s.heap \in Seq(BlockOf) /\ N \in Nat /\ DOMAIN s.heap = 1..N BY DEF Laid
<1>00. K \subseteq DOMAIN s.heap BY DEF Keeps
<1>1. IsFiniteSet(K) /\ K \subseteq Nat /\ C \in Nat /\ K \subseteq 1..N BY <1>0, <1>00, Counts
<1>2. \A i \in 1..C : Nth(K, i) \in K BY <1>1, NthRank
<1>3. PICK f : Copying(s, K, f) /\ \A k \in K : Forward(s, K, k) = f[k - 1] BY <1>00, CopyExists
<1>4. \A k \in K : Kept(s, K, k) \in BlockOf /\ Kept(s, K, k).a = Forward(s, K, k) /\ Size(Kept(s, K, k)) = Size(s.heap[k])
  <2> HIDE DEF N, C, h
  <2> SUFFICES ASSUME NEW k \in K
               PROVE Kept(s, K, k) \in BlockOf /\ Kept(s, K, k).a = Forward(s, K, k) /\ Size(Kept(s, K, k)) = Size(s.heap[k])
    OBVIOUS
  <2>1. QED BY KeptIs DEF KeptAs
<1>5. \A k \in K : f[k] = f[k - 1] + Size(s.heap[k]) BY <1>3, <1>00, CopyIs
<1>6. h \in Seq(BlockOf) /\ Len(h) = C /\ \A i \in 1..C : h[i] = Kept(s, K, Nth(K, i))
  <2> DEFINE v(i) == Kept(s, K, Nth(K, i))
  <2>1. h = [i \in 1..C |-> v(i)] BY DEF Moved
  <2>2. \A i \in 1..C : v(i) \in BlockOf BY <1>2, <1>4
  <2> HIDE DEF v, C, h
  <2>3. [i \in 1..C |-> v(i)] \in Seq(BlockOf) /\ Len([i \in 1..C |-> v(i)]) = C BY <1>1, <2>2
  <2>4. \A i \in 1..C : h[i] = v(i) BY <2>1
  <2>5. QED BY <2>1, <2>3, <2>4 DEF v
<1> HIDE DEF h, C, N
<1>7. \A i \in 1..C : h[i].a = f[Nth(K, i) - 1] /\ h[i].a + Size(h[i]) = f[Nth(K, i)] BY <1>2, <1>3, <1>4, <1>5, <1>6
<1>8. /\ C > 0 => f[Nth(K, 1) - 1] = HDSGPT
      /\ \A i \in 1..C - 1 : f[Nth(K, i + 1) - 1] = f[Nth(K, i)]
      /\ f[N] = IF C = 0 THEN HDSGPT ELSE f[Nth(K, C)]
  BY <1>3, <1>00, CopyNth DEF C, N
<1>9. Laid(h)
  <2>1. C > 0 => h[1].a = HDSGPT
    <3>1. C > 0 => 1 \in 1..C BY <1>1
    <3>2. QED BY <1>7, <1>8, <3>1
  <2>2. ASSUME NEW k \in 1..C - 1 PROVE h[k + 1].a = h[k].a + Size(h[k])
    <3>1. k \in 1..C /\ k + 1 \in 1..C BY <1>1
    <3>2. QED BY <1>7, <1>8, <3>1
  <2>3. QED BY <1>6, <2>1, <2>2 DEF Laid
<1>10. FRSGPT(h) = f[N]
  <2>1. CASE C = 0
    <3>1. h = <<>> BY <1>6, <2>1
    <3>2. QED BY <1>8, <2>1, <3>1 DEF FRSGPT
  <2>2. CASE C # 0
    <3>1. C \in 1..C /\ h # <<>> /\ Last(h) = h[C] BY <1>1, <1>6, <2>2 DEF Last
    <3>2. FRSGPT(h) = h[C].a + Size(h[C]) BY <3>1 DEF FRSGPT
    <3>3. QED BY <1>7, <1>8, <2>2, <3>1, <3>2
  <2>3. QED BY <2>1, <2>2
<1>11. f[N] <= FRSGPT(s.heap)
  <2>1. N \in 0..N BY <1>0
  <2>2. f[N] <= EndOf(s.heap, N) BY <1>3, <1>00, <2>1, CopyIs DEF N
  <2>3. FRSGPT(s.heap) = EndOf(s.heap, N) BY EndOfIs DEF N
  <2>4. QED BY <2>2, <2>3
<1>12. QED BY <1>6, <1>9, <1>10, <1>11 DEF h, C

\* A kept block is found where its rank among the kept ones says.
LEMMA NewPlaceIs ==
  ASSUME StorageAssumption, NEW s, Laid(s.heap), CellsOf(s.heap), BinsOf(s), NEW K, Keeps(s, K)
  PROVE /\ \A k \in K : NewPlace(K, k) \in DOMAIN Moved(s, K) /\ Moved(s, K)[NewPlace(K, k)] = Kept(s, K, k)
        /\ \A k, l \in K : NewPlace(K, k) = NewPlace(K, l) => k = l
        /\ \A i \in DOMAIN Moved(s, K) : Nth(K, i) \in K /\ NewPlace(K, Nth(K, i)) = i
<1> DEFINE C == Cardinality(K)
<1>0. s.heap \in Seq(BlockOf) /\ Len(s.heap) \in Nat /\ K \subseteq 1..Len(s.heap) BY DEF Laid, Keeps
<1>1. IsFiniteSet(K) /\ K \subseteq Nat /\ C \in Nat BY <1>0, Counts
<1>2. DOMAIN Moved(s, K) = 1..C /\ \A i \in 1..C : Moved(s, K)[i] = Kept(s, K, Nth(K, i)) BY DEF Moved
<1>3. \A k \in K : NewPlace(K, k) \in 1..C /\ Nth(K, NewPlace(K, k)) = k
  <2> SUFFICES ASSUME NEW k \in K PROVE NewPlace(K, k) \in 1..C /\ Nth(K, NewPlace(K, k)) = k OBVIOUS
  <2>1. PICK i \in 1..C : Nth(K, i) = k /\ i = Cardinality({j \in K : j < k}) + 1 BY <1>1, NthOnto
  <2>2. QED BY <2>1 DEF NewPlace
<1>4. \A i \in 1..C : Nth(K, i) \in K /\ NewPlace(K, Nth(K, i)) = i
  <2> SUFFICES ASSUME NEW i \in 1..C PROVE Nth(K, i) \in K /\ NewPlace(K, Nth(K, i)) = i OBVIOUS
  <2>1. Nth(K, i) \in K /\ Cardinality({j \in K : j < Nth(K, i)}) = i - 1 BY <1>1, NthRank
  <2>2. i - 1 + 1 = i BY <1>1
  <2>3. QED BY <2>1, <2>2 DEF NewPlace
<1> HIDE DEF C
<1>5. QED BY <1>2, <1>3, <1>4

\* A pointer to a kept block follows it: d names the place in h that c named in s.
Follows(s, K, c, h, d) ==
  /\ Held(h, d) /\ (In(d) <=> In(c)) /\ (~In(c) => d = c)
  /\ In(c) => /\ Top(s.heap, c.a) \in K /\ Top(h, d.a) = NewPlace(K, Top(s.heap, c.a))
              /\ Top(h, d.a) \in DOMAIN h /\ h[Top(h, d.a)].id = s.heap[Top(s.heap, c.a)].id
              /\ d.a - h[Top(h, d.a)].a = c.a - s.heap[Top(s.heap, c.a)].a

LEMMA RelocatedFollows ==
  ASSUME StorageAssumption, NEW s, Laid(s.heap), CellsOf(s.heap), BinsOf(s), NEW K, Keeps(s, K),
         NEW c, Held(s.heap, c), Rooted(s, K, c)
  PROVE Follows(s, K, c, Moved(s, K), Relocated(s, K, c))
<1> DEFINE h == Moved(s, K)
           d == Relocated(s, K, c)
           k == Top(s.heap, c.a)
           l == NewPlace(K, k)
<1>0. K \subseteq DOMAIN s.heap BY DEF Keeps
<1>1. Laid(h) BY MovedLaid
<1>2. c \in Cell /\ (In(c) => c.a < FRSGPT(s.heap)) BY DEF Held
<1>3. CASE ~In(c)
  <2>1. d = c BY <1>0, <1>3, RelocatedIs
  <2>2. Held(h, d) BY <1>2, <1>3, <2>1 DEF Held
  <2> HIDE DEF h, d
  <2>3. QED BY <1>3, <2>1, <2>2 DEF Follows, h, d
<1>4. CASE In(c)
  <2>1. d = [p |-> TRUE, a |-> Forward(s, K, k) + c.a - s.heap[k].a] BY <1>0, <1>4, RelocatedIs
  <2>2. k \in K /\ k \in DOMAIN s.heap BY <1>0, <1>4 DEF Rooted
  <2>3. c.a \in Int /\ HDSGPT <= c.a /\ c.a < FRSGPT(s.heap) /\ HDSGPT \in Int BY <1>2, <1>4 DEF In, Cell, StorageAssumption
  <2>4. s.heap[k].a <= c.a /\ c.a < s.heap[k].a + Size(s.heap[k]) BY <2>3, TopIn
  <2>5. s.heap[k].a \in Int /\ Size(s.heap[k]) \in Nat /\ Forward(s, K, k) \in Int BY <1>0, <2>2, LaidType, ForwardType
  <2>6. l \in DOMAIN h /\ h[l] = Kept(s, K, k) BY <2>2, NewPlaceIs
  <2>7. h[l].a = Forward(s, K, k) /\ Size(h[l]) = Size(s.heap[k]) /\ h[l].id = s.heap[k].id BY <2>2, <2>6, KeptIs DEF KeptAs
  <2> HIDE DEF h, d, k, l
  <2> DEFINE a == Forward(s, K, k) + c.a - s.heap[k].a
  <2>8. a \in Int /\ h[l].a <= a /\ a < h[l].a + Size(h[l]) /\ a - h[l].a = c.a - s.heap[k].a BY <2>3, <2>4, <2>5, <2>7
  <2>9. d.p = TRUE /\ d.a = a /\ d = [p |-> TRUE, a |-> a] BY <2>1
  <2> HIDE DEF a
  <2>10. d \in Cell BY <2>8, <2>9 DEF Cell
  <2>11. Top(h, a) = l BY <1>1, <2>6, <2>8, TopIs
  <2>12. HDSGPT <= h[l].a /\ h[l].a + Size(h[l]) <= FRSGPT(h) /\ FRSGPT(h) \in Int BY <1>1, <2>6, LaidEnds
  <2>13. h[l].a \in Int /\ Size(h[l]) \in Int BY <2>5, <2>7
  <2>14. In(d) BY <2>3, <2>8, <2>9, <2>12, <2>13 DEF In
  <2>15. Held(h, d) BY <2>8, <2>9, <2>10, <2>12, <2>13 DEF Held
  <2>16. QED BY <1>4, <2>2, <2>6, <2>7, <2>8, <2>9, <2>11, <2>14, <2>15 DEF Follows, h, d, k, l
<1>5. QED BY <1>3, <1>4

LEMMA MovedBlocks ==
  ASSUME StorageAssumption, NEW s, Laid(s.heap), CellsOf(s.heap), BinsOf(s), IdsOf(s.heap), NEW K, Keeps(s, K)
  PROVE CellsOf(Moved(s, K)) /\ IdsOf(Moved(s, K))
<1> DEFINE h == Moved(s, K)
<1>0. K \subseteq DOMAIN s.heap BY DEF Keeps
<1>1. \A i \in DOMAIN h : Nth(K, i) \in K /\ h[i] = Kept(s, K, Nth(K, i))
  <2>1. \A i \in DOMAIN h : Nth(K, i) \in K BY NewPlaceIs
  <2>2. \A i \in DOMAIN h : h[i] = Kept(s, K, Nth(K, i)) BY DEF Moved
  <2>3. QED BY <2>1, <2>2
<1> HIDE DEF h
<1>2. CellsOf(h)
  <2> SUFFICES ASSUME NEW j \in DOMAIN h
               PROVE /\ h[j].id \in Strings => Len(h[j].cells) = 2
                     /\ \A i \in DOMAIN h[j].cells : Held(h, h[j].cells[i])
    BY DEF CellsOf
  <2> DEFINE k == Nth(K, j)
  <2>1. k \in K /\ k \in DOMAIN s.heap /\ h[j] = Kept(s, K, k) BY <1>0, <1>1
  <2> HIDE DEF k
  <2>2. KeptAs(s, K, k) BY <2>1, KeptIs
  <2>3. h[j].id \in Strings => Len(h[j].cells) = 2 BY <2>1, <2>2 DEF KeptAs, CellsOf
  <2>4. ASSUME NEW i \in DOMAIN h[j].cells PROVE Held(h, h[j].cells[i])
    <3> DEFINE c == s.heap[k].cells[i]
    <3>1. i \in DOMAIN s.heap[k].cells /\ h[j].cells[i] = Relocated(s, K, c) BY <2>1, <2>2 DEF KeptAs
    <3>2. Held(s.heap, c) /\ Rooted(s, K, c) BY <2>1, <3>1 DEF CellsOf, Keeps
    <3> HIDE DEF c
    <3>3. Follows(s, K, c, Moved(s, K), Relocated(s, K, c)) BY <3>2, RelocatedFollows
    <3>4. Held(Moved(s, K), Relocated(s, K, c)) BY <3>3 DEF Follows
    <3>5. QED BY <3>1, <3>4 DEF h
  <2>5. QED BY <2>3, <2>4
<1>3. IdsOf(h)
  <2> SUFFICES ASSUME NEW i \in DOMAIN h, NEW j \in DOMAIN h, h[i].id = h[j].id PROVE i = j BY DEF IdsOf
  <2> DEFINE k == Nth(K, i)
             l == Nth(K, j)
  <2>1. k \in K /\ k \in DOMAIN s.heap /\ h[i] = Kept(s, K, k) BY <1>0, <1>1
  <2>2. l \in K /\ l \in DOMAIN s.heap /\ h[j] = Kept(s, K, l) BY <1>0, <1>1
  <2>3. NewPlace(K, k) = i /\ NewPlace(K, l) = j BY NewPlaceIs DEF h
  <2> HIDE DEF k, l
  <2>4. h[i].id = s.heap[k].id BY <2>1, KeptIs DEF KeptAs
  <2>5. h[j].id = s.heap[l].id BY <2>2, KeptIs DEF KeptAs
  <2>6. k = l BY <2>1, <2>2, <2>4, <2>5 DEF IdsOf
  <2>7. QED BY <2>3, <2>6
<1>4. QED BY <1>2, <1>3 DEF h

\* The strings of a bin that are kept, by their new places.
Restrung(K, q) == [n \in 1..Cardinality(Kepts(q, K)) |-> NewPlace(K, q[Nth(Kepts(q, K), n)])]

LEMMA KeptsType ==
  ASSUME NEW s, NEW X, s.heap \in Seq(X), NEW b, NEW q, Strung(s, b, q), NEW K
  PROVE /\ IsFiniteSet(Kepts(q, K)) /\ Kepts(q, K) \subseteq Nat /\ Cardinality(Kepts(q, K)) \in Nat
        /\ \A n \in 1..Cardinality(Kepts(q, K)) : Nth(Kepts(q, K), n) \in DOMAIN q /\ q[Nth(Kepts(q, K), n)] \in K
<1> DEFINE J == Kepts(q, K)
<1>1. Len(q) \in Nat /\ DOMAIN q = 1..Len(q) BY StrungShort
<1>2. J \subseteq 1..Len(q) BY <1>1 DEF Kepts
<1>3. IsFiniteSet(J) /\ J \subseteq Nat /\ Cardinality(J) \in Nat BY <1>1, <1>2, Counts
<1>4. \A n \in 1..Cardinality(J) : Nth(J, n) \in J BY <1>3, NthRank
<1>5. \A j \in J : j \in DOMAIN q /\ q[j] \in K BY DEF Kepts
<1> HIDE DEF J
<1>6. QED BY <1>3, <1>4, <1>5 DEF J

LEMMA MovedStrung ==
  ASSUME StorageAssumption, NEW s, Laid(s.heap), CellsOf(s.heap), BinsOf(s), NEW K, Keeps(s, K),
         NEW b \in Bins, NEW q, Strung(s, b, q), NEW t, t.heap = Moved(s, K), t.bins[b] = Relinked(s, K, b, -b)
  PROVE Strung(t, b, Restrung(K, q))
<1> DEFINE J == Kepts(q, K)
           C == Cardinality(J)
           h == t.heap
           r == Restrung(K, q)
           at(n) == q[Nth(J, n)]
<1>0. s.heap \in Seq(BlockOf) /\ K \subseteq DOMAIN s.heap BY DEF Laid, Keeps
<1>1. IsFiniteSet(J) /\ J \subseteq Nat /\ C \in Nat /\ \A n \in 1..C : Nth(J, n) \in DOMAIN q /\ at(n) \in K
  BY <1>0, KeptsType
<1>2. Len(q) \in Nat /\ DOMAIN q = 1..Len(q) BY <1>0, StrungShort
<1>3. \A k \in K : NewPlace(K, k) \in DOMAIN h /\ h[NewPlace(K, k)] = Kept(s, K, k) BY NewPlaceIs
<1>4. \A k, l \in K : NewPlace(K, k) = NewPlace(K, l) => k = l BY NewPlaceIs
<1>5. \A i \in DOMAIN h : Nth(K, i) \in K /\ NewPlace(K, Nth(K, i)) = i BY NewPlaceIs
<1>6. \A k \in K : Kept(s, K, k).id = s.heap[k].id /\ Kept(s, K, k).a = Forward(s, K, k)
  <2> SUFFICES ASSUME NEW k \in K PROVE Kept(s, K, k).id = s.heap[k].id /\ Kept(s, K, k).a = Forward(s, K, k) OBVIOUS
  <2>1. QED BY KeptIs DEF KeptAs
<1>7. r \in Seq(DOMAIN h) /\ Len(r) = C /\ DOMAIN r = 1..C /\ \A n \in 1..C : r[n] = NewPlace(K, at(n))
  <2> DEFINE v(n) == NewPlace(K, at(n))
  <2>1. r = [n \in 1..C |-> v(n)] BY DEF Restrung
  <2>2. \A n \in 1..C : v(n) \in DOMAIN h BY <1>1, <1>3
  <2> HIDE DEF v, C, h, r
  <2>3. [n \in 1..C |-> v(n)] \in Seq(DOMAIN h) /\ Len([n \in 1..C |-> v(n)]) = C BY <1>1, <2>2
  <2>4. DOMAIN r = 1..C /\ \A n \in 1..C : r[n] = v(n) BY <2>1
  <2>5. QED BY <2>1, <2>3, <2>4 DEF v
<1>70. \A n \in 0..C : Relinked(s, K, b, Place(s, b, q, NthOr0(J, n))) = IF n = C THEN 0 ELSE Forward(s, K, at(n + 1))
  BY RelinkedNth
<1>71. \A n \in 1..C : Kept(s, K, at(n)).link = IF n = C THEN 0 ELSE Forward(s, K, at(n + 1))
  <2> SUFFICES ASSUME NEW n \in 1..C PROVE Kept(s, K, at(n)).link = IF n = C THEN 0 ELSE Forward(s, K, at(n + 1))
    OBVIOUS
  <2>1. QED BY <1>0, KeptLink
<1>72. \A m1, n \in 1..C : m1 < n => Nth(J, m1) < Nth(J, n) BY <1>1, NthLess
<1>73. \A j \in DOMAIN q : q[j] \in K => \E n \in 1..C : Nth(J, n) = j
  <2> SUFFICES ASSUME NEW j \in DOMAIN q, q[j] \in K PROVE \E n \in 1..C : Nth(J, n) = j OBVIOUS
  <2>1. j \in J BY DEF Kepts
  <2>2. QED BY <1>1, <2>1, NthOnto
<1>74. t.bins[b] = Relinked(s, K, b, Place(s, b, q, NthOr0(J, 0))) BY DEF Place, NthOr0
<1> HIDE DEF C, r, h
<1>8. \A n \in 1..C : r[n] \in DOMAIN h /\ h[r[n]].id = s.heap[at(n)].id /\ h[r[n]].a = Forward(s, K, at(n))
                      /\ h[r[n]].link = Kept(s, K, at(n)).link
  BY <1>1, <1>3, <1>6, <1>7
<1> HIDE DEF J
<1>9. \A k \in OfBin(t, b) : \E n \in DOMAIN r : r[n] = k
  <2> SUFFICES ASSUME NEW k \in OfBin(t, b) PROVE \E n \in DOMAIN r : r[n] = k OBVIOUS
  <2>1. k \in DOMAIN h /\ h[k].id \in Strings /\ Hash[h[k].id].bin = b BY DEF OfBin, h
  <2> DEFINE l == Nth(K, k)
  <2>2. l \in K /\ NewPlace(K, l) = k /\ l \in DOMAIN s.heap BY <1>0, <1>5, <2>1
  <2> HIDE DEF l
  <2>3. s.heap[l].id = h[k].id BY <1>3, <1>6, <2>2
  <2>4. l \in OfBin(s, b) BY <2>1, <2>2, <2>3 DEF OfBin
  <2>5. PICK j \in DOMAIN q : q[j] = l BY <2>4 DEF Strung
  <2>6. PICK n \in 1..C : Nth(J, n) = j BY <1>73, <2>2, <2>5
  <2>7. QED BY <1>7, <2>2, <2>5, <2>6
<1>10. \A n \in DOMAIN r : r[n] \in OfBin(t, b)
  <2> SUFFICES ASSUME NEW n \in 1..C PROVE r[n] \in OfBin(t, b) BY <1>7
  <2>1. at(n) \in OfBin(s, b) BY <1>1 DEF Strung
  <2> HIDE DEF at
  <2>2. s.heap[at(n)].id \in Strings /\ Hash[s.heap[at(n)].id].bin = b BY <2>1 DEF OfBin
  <2>3. QED BY <1>8, <2>2 DEF OfBin, h
<1>11. \A n \in 1..C : Asc(t, r[n]) = Asc(s, at(n)) BY <1>8 DEF Asc, h
<1>12. \A m1, n \in DOMAIN r : m1 < n => r[m1] # r[n] /\ Asc(t, r[m1]) <= Asc(t, r[n])
  <2> SUFFICES ASSUME NEW m1 \in 1..C, NEW n \in 1..C, m1 < n
               PROVE r[m1] # r[n] /\ Asc(t, r[m1]) <= Asc(t, r[n])
    BY <1>7
  <2>1. Nth(J, m1) < Nth(J, n) BY <1>72
  <2>2. at(m1) # at(n) /\ Asc(s, at(m1)) <= Asc(s, at(n)) BY <1>1, <2>1 DEF Strung
  <2> HIDE DEF at
  <2>3. QED BY <1>1, <1>4, <1>7, <1>11, <2>2
<1> HIDE DEF at
<1>13. ASSUME NEW n \in 0..C PROVE (IF n = C THEN 0 ELSE Forward(s, K, at(n + 1))) = At(t, r, n + 1)
  <2>1. CASE n = C
    <3>1. ~(n + 1 \in 1..C) BY <1>1, <2>1
    <3>2. QED BY <1>7, <2>1, <3>1 DEF At
  <2>2. CASE n # C
    <3>1. n + 1 \in 1..C BY <1>1, <2>2
    <3>2. h[r[n + 1]].a = Forward(s, K, at(n + 1)) BY <1>8, <3>1
    <3>3. QED BY <1>7, <2>2, <3>1, <3>2 DEF At, h
  <2>3. QED BY <2>1, <2>2
<1>14. t.bins[b] = At(t, r, 1)
  <2>1. 0 \in 0..C /\ 0 + 1 = 1 BY <1>1
  <2>2. QED BY <1>13, <1>70, <1>74, <2>1
<1>15. \A n \in DOMAIN r : t.heap[r[n]].link = At(t, r, n + 1)
  <2> SUFFICES ASSUME NEW n \in 1..C PROVE h[r[n]].link = At(t, r, n + 1) BY <1>7 DEF h
  <2>1. n \in 0..C BY <1>1
  <2>2. QED BY <1>8, <1>13, <1>71, <2>1
<1>16. r \in Seq(DOMAIN t.heap) BY <1>7 DEF h
<1>17. QED BY <1>9, <1>10, <1>12, <1>14, <1>15, <1>16 DEF Strung, r

------------------------------------------------------------------------------
\* Storage that is in order, which a regeneration keeps.
IsState(s) == s = [heap |-> s.heap, bins |-> s.bins, reg |-> s.reg, stack |-> s.stack]
Good(s) ==
  /\ IsState(s)
  /\ Laid(s.heap) /\ FRSGPT(s.heap) <= TLSGP1
  /\ IdsOf(s.heap) /\ CellsOf(s.heap) /\ BinsOf(s)
  /\ s.reg \in [Regs -> Cell] /\ \A x \in Regs : Held(s.heap, s.reg[x])
  /\ s.stack \in Seq(Cell) /\ \A i \in DOMAIN s.stack : Held(s.heap, s.stack[i])

LEMMA TargetOf ==
  ASSUME StorageAssumption, NEW s, Laid(s.heap), NEW cells, NEW c \in cells, Held(s.heap, c), In(c)
  PROVE Top(s.heap, c.a) \in Targets(s, cells)
<1>1. c.a \in Int /\ HDSGPT <= c.a /\ c.a < FRSGPT(s.heap) /\ HDSGPT \in Int /\ c.p
  BY DEF Held, In, Cell, StorageAssumption
<1>2. Top(s.heap, c.a) \in DOMAIN s.heap BY <1>1, TopIn
<1>3. s.heap \in Seq(BlockOf) BY DEF Laid
<1>4. Top(s.heap, c.a) # 0 BY <1>2, <1>3
<1>5. QED BY <1>1, <1>4 DEF Targets

\* GC marks what a register, the stack or a marked block names.
LEMMA MarkedKeeps ==
  ASSUME StorageAssumption, NEW s, Good(s)
  PROVE /\ Keeps(s, Marked(s))
        /\ \A x \in Regs : Rooted(s, Marked(s), s.reg[x])
        /\ \A i \in DOMAIN s.stack : Rooted(s, Marked(s), s.stack[i])
<1> DEFINE some == Roots(s) \cup Valued(s)
           K == Marked(s)
<1>1. Laid(s.heap) /\ CellsOf(s.heap) BY DEF Good
<1>2. s.heap \in Seq(BlockOf) BY <1>1 DEF Laid
<1>3. \A cells : Targets(s, cells) \subseteq DOMAIN s.heap BY <1>2, TargetsType
<1>4. some \subseteq DOMAIN s.heap BY <1>3 DEF Roots, Valued
<1>5. some \subseteq K /\ K \subseteq DOMAIN s.heap /\ Reach(s, K) \subseteq K BY <1>2, <1>4, MarkClosed DEF Marked
<1>6. Roots(s) \subseteq K BY <1>5
<1> HIDE DEF K, some
<1>7. ASSUME NEW k \in K, NEW i \in DOMAIN s.heap[k].cells PROVE Rooted(s, K, s.heap[k].cells[i])
  <2> DEFINE c == s.heap[k].cells[i]
             cells == UNION {Range(Scanned(s.heap[j])) : j \in K}
  <2> SUFFICES ASSUME In(c) PROVE Top(s.heap, c.a) \in K BY DEF Rooted
  <2>1. c \in Range(s.heap[k].cells) BY DEF Range
  <2>2. c \in cells BY <2>1 DEF Scanned
  <2>3. Held(s.heap, c) BY <1>1, <1>5 DEF CellsOf
  <2> HIDE DEF c, cells
  <2>4. Top(s.heap, c.a) \in Targets(s, cells) BY <1>1, <2>2, <2>3, TargetOf
  <2>5. QED BY <1>5, <2>4 DEF Reach, cells
<1>8. Keeps(s, K) BY <1>5, <1>7 DEF Keeps
<1> DEFINE roots == {s.reg[x] : x \in RootRegs} \cup Range(s.stack)
<1>9. \A c \in roots : Held(s.heap, c) => Rooted(s, K, c)
  <2> SUFFICES ASSUME NEW c \in roots, Held(s.heap, c), In(c) PROVE Top(s.heap, c.a) \in K BY DEF Rooted
  <2>1. Top(s.heap, c.a) \in Targets(s, roots)
    <3> HIDE DEF roots
    <3>1. QED BY <1>1, TargetOf
  <2>2. QED BY <1>6, <2>1 DEF Roots
<1>10. \A x \in Regs : s.reg[x] \in roots BY DEF RootRegs
<1>11. \A i \in DOMAIN s.stack : s.stack[i] \in roots BY DEF Range
<1>12. QED BY <1>8, <1>9, <1>10, <1>11 DEF Good, K

\* A regeneration follows every pointer of a register and of the stack.
Regenerated(s, t) ==
  /\ Keeps(s, Marked(s)) /\ t.heap = Moved(s, Marked(s))
  /\ t.reg \in [Regs -> Cell] /\ \A x \in Regs : Follows(s, Marked(s), s.reg[x], t.heap, t.reg[x])
  /\ t.stack \in Seq(Cell) /\ Len(t.stack) = Len(s.stack)
  /\ \A i \in DOMAIN s.stack : Follows(s, Marked(s), s.stack[i], t.heap, t.stack[i])
  /\ \A b \in Bins : \A q : Strung(s, b, q) => Strung(t, b, Restrung(Marked(s), q))

LEMMA GCRegenerates ==
  ASSUME StorageAssumption, NEW s, Good(s)
  PROVE Regenerated(s, GC(s)) /\ GC(s).bins \in [Bins -> Int]
<1> DEFINE K == Marked(s)
           t == GC(s)
           n == Len(s.stack)
           v(i) == Relocated(s, K, s.stack[i])
           w(x) == Relocated(s, K, s.reg[x])
<1>1. Laid(s.heap) /\ CellsOf(s.heap) /\ BinsOf(s) BY DEF Good
<1>2. Keeps(s, K) /\ (\A x \in Regs : Rooted(s, K, s.reg[x])) /\ (\A i \in DOMAIN s.stack : Rooted(s, K, s.stack[i]))
  BY MarkedKeeps
<1>3. s.reg \in [Regs -> Cell] /\ \A x \in Regs : Held(s.heap, s.reg[x]) BY DEF Good
<1>4. s.stack \in Seq(Cell) /\ \A i \in DOMAIN s.stack : Held(s.heap, s.stack[i]) BY DEF Good
<1>5. t.heap = Moved(s, K) /\ t.bins = [b \in Bins |-> Relinked(s, K, b, -b)]
      /\ t.reg = [x \in Regs |-> w(x)] /\ t.stack = [i \in DOMAIN s.stack |-> v(i)]
  BY DEF GC, Moved, RootRegs
<1> HIDE DEF K, t
<1>6. \A x \in Regs : Follows(s, K, s.reg[x], Moved(s, K), w(x)) BY <1>1, <1>2, <1>3, RelocatedFollows
<1>7. \A i \in DOMAIN s.stack : Follows(s, K, s.stack[i], Moved(s, K), v(i)) BY <1>1, <1>2, <1>4, RelocatedFollows
<1>8. \A x \in Regs : w(x) \in Cell BY <1>6 DEF Follows, Held
<1>9. \A i \in DOMAIN s.stack : v(i) \in Cell BY <1>7 DEF Follows, Held
<1>10. DOMAIN s.stack = 1..n /\ n \in Nat BY <1>4
<1> HIDE DEF v, w, n
<1>11. t.reg \in [Regs -> Cell] /\ \A x \in Regs : t.reg[x] = w(x) BY <1>5, <1>8
<1>12. t.stack \in Seq(Cell) /\ Len(t.stack) = n /\ \A i \in DOMAIN s.stack : t.stack[i] = v(i)
  <2>1. t.stack = [i \in 1..n |-> v(i)] BY <1>5, <1>10
  <2>2. [i \in 1..n |-> v(i)] \in Seq(Cell) /\ Len([i \in 1..n |-> v(i)]) = n BY <1>9, <1>10
  <2>3. \A i \in 1..n : [j \in 1..n |-> v(j)][i] = v(i) OBVIOUS
  <2>4. QED BY <1>10, <2>1, <2>2, <2>3
<1>13. ASSUME NEW b \in Bins, NEW q, Strung(s, b, q) PROVE Strung(t, b, Restrung(K, q))
  <2>1. t.bins[b] = Relinked(s, K, b, -b) BY <1>5
  <2>2. t.heap = Moved(s, K) BY <1>5
  <2>3. QED BY <1>1, <1>2, <1>13, <2>1, <2>2, MovedStrung
<1>14. Regenerated(s, t) BY <1>2, <1>5, <1>6, <1>7, <1>10, <1>11, <1>12, <1>13 DEF Regenerated, K, n
<1>15. \A b \in Bins : Relinked(s, K, b, -b) \in Int
  <2> SUFFICES ASSUME NEW b \in Bins PROVE Relinked(s, K, b, -b) \in Int OBVIOUS
  <2>1. PICK q : Strung(s, b, q) BY <1>1 DEF BinsOf
  <2>2. Strung(t, b, Restrung(K, q)) BY <1>13, <2>1
  <2>3. t.bins[b] = At(t, Restrung(K, q), 1) BY <2>2 DEF Strung
  <2>4. Laid(t.heap) BY <1>1, <1>2, <1>5, MovedLaid
  <2>5. Restrung(K, q) \in Seq(DOMAIN t.heap) BY <2>2 DEF Strung
  <2> DEFINE r == Restrung(K, q)
  <2> HIDE DEF r
  <2>6. 1 \in DOMAIN r => r[1] \in DOMAIN t.heap BY <2>5 DEF r
  <2>7. At(t, r, 1) \in Int BY <2>4, <2>6, TopOwn DEF At
  <2>8. t.bins[b] = Relinked(s, K, b, -b) BY <1>5
  <2>9. QED BY <2>3, <2>7, <2>8 DEF r
<1>16. t.bins \in [Bins -> Int] BY <1>5, <1>15
<1>17. QED BY <1>14, <1>16 DEF t

LEMMA GCGood ==
  ASSUME StorageAssumption, NEW s, Good(s)
  PROVE Good(GC(s)) /\ FRSGPT(GC(s).heap) <= FRSGPT(s.heap)
<1> DEFINE K == Marked(s)
           t == GC(s)
<1>1. Laid(s.heap) /\ CellsOf(s.heap) /\ BinsOf(s) /\ IdsOf(s.heap) /\ FRSGPT(s.heap) <= TLSGP1 BY DEF Good
<1>2. Regenerated(s, t) /\ t.bins \in [Bins -> Int] BY GCRegenerates
<1>0. IsState(t) BY DEF GC, IsState
<1> HIDE DEF K, t
<1>3. Keeps(s, K) /\ t.heap = Moved(s, K) BY <1>2 DEF Regenerated, K
<1>4. Laid(t.heap) /\ FRSGPT(t.heap) <= FRSGPT(s.heap) BY <1>1, <1>3, MovedLaid
<1>5. CellsOf(t.heap) /\ IdsOf(t.heap) BY <1>1, <1>3, MovedBlocks
<1>6. FRSGPT(t.heap) <= TLSGP1
  <2>1. FRSGPT(t.heap) \in Int /\ FRSGPT(s.heap) \in Int BY <1>1, <1>4, LaidEnds
  <2>2. TLSGP1 \in Int BY DEF StorageAssumption
  <2>3. QED BY <1>1, <1>4, <2>1, <2>2
<1>7. \A b \in Bins : \E q : Strung(t, b, q)
  <2> SUFFICES ASSUME NEW b \in Bins PROVE \E q : Strung(t, b, q) OBVIOUS
  <2>1. PICK q : Strung(s, b, q) BY <1>1 DEF BinsOf
  <2>2. Strung(t, b, Restrung(Marked(s), q)) BY <1>2, <2>1 DEF Regenerated
  <2>3. QED BY <2>2
<1>8. t.reg \in [Regs -> Cell] /\ \A x \in Regs : Held(t.heap, t.reg[x]) BY <1>2 DEF Regenerated, Follows
<1>9. s.stack \in Seq(Cell) BY DEF Good
<1>10. t.stack \in Seq(Cell) /\ Len(t.stack) = Len(s.stack)
       /\ \A i \in DOMAIN s.stack : Held(t.heap, t.stack[i])
  BY <1>2 DEF Regenerated, Follows
<1>11. DOMAIN t.stack = DOMAIN s.stack BY <1>9, <1>10
<1>12. Good(t) BY <1>0, <1>2, <1>4, <1>5, <1>6, <1>7, <1>8, <1>10, <1>11 DEF Good, BinsOf
<1>13. QED BY <1>4, <1>12 DEF t

------------------------------------------------------------------------------
\* Storage is in order by its blocks and bins, wherever they are held.
LEMMA StrungSame ==
  ASSUME NEW s, NEW t, t.heap = s.heap, NEW b, t.bins[b] = s.bins[b], NEW q, Strung(s, b, q)
  PROVE Strung(t, b, q)
<1>1. OfBin(t, b) = OfBin(s, b) BY DEF OfBin
<1>2. \A i : At(t, q, i) = At(s, q, i) BY DEF At
<1>3. \A k : Asc(t, k) = Asc(s, k) BY DEF Asc
<1>4. QED BY <1>1, <1>2, <1>3 DEF Strung

LEMMA GoodSame ==
  ASSUME NEW s, Good(s), NEW t, IsState(t), t.heap = s.heap, t.bins = s.bins,
         t.reg \in [Regs -> Cell], \A x \in Regs : Held(s.heap, t.reg[x]),
         t.stack \in Seq(Cell), \A i \in DOMAIN t.stack : Held(s.heap, t.stack[i])
  PROVE Good(t)
<1>1. BinsOf(s) BY DEF Good
<1>2. \A b \in Bins : \E q : Strung(t, b, q)
  <2> SUFFICES ASSUME NEW b \in Bins PROVE \E q : Strung(t, b, q) OBVIOUS
  <2>1. PICK q : Strung(s, b, q) BY <1>1 DEF BinsOf
  <2>2. Strung(t, b, q) BY <2>1, StrungSame
  <2>3. QED BY <2>2
<1>3. BinsOf(t) BY <1>1, <1>2 DEF BinsOf
<1>4. QED BY <1>3 DEF Good

\* A block more is behind the others, and moves none of them.
LEMMA AppendLaid ==
  ASSUME StorageAssumption, NEW h, Laid(h), NEW d \in BlockOf, d.a = FRSGPT(h)
  PROVE /\ Laid(Append(h, d)) /\ FRSGPT(Append(h, d)) = FRSGPT(h) + Size(d)
        /\ Len(Append(h, d)) = Len(h) + 1 /\ Append(h, d)[Len(h) + 1] = d
        /\ \A k \in DOMAIN h : Append(h, d)[k] = h[k]
<1> DEFINE g == Append(h, d)
           N == Len(h)
<1>0. h \in Seq(BlockOf) /\ N \in Nat /\ DOMAIN h = 1..N BY DEF Laid
<1>1. g \in Seq(BlockOf) /\ Len(g) = N + 1 /\ g[N + 1] = d /\ \A k \in 1..N : g[k] = h[k] BY <1>0
<1>2. N > 0 => h[1].a = HDSGPT BY DEF Laid
<1>3. \A k \in 1..N - 1 : h[k + 1].a = h[k].a + Size(h[k]) BY DEF Laid
<1>4. N > 0 => FRSGPT(h) = h[N].a + Size(h[N])
  <2>1. N > 0 => h # <<>> BY <1>0
  <2>2. QED BY <2>1 DEF FRSGPT, Last
<1>5. N = 0 => FRSGPT(h) = HDSGPT BY <1>0 DEF FRSGPT
<1> HIDE DEF g, N
<1>6. g[1].a = HDSGPT
  <2>1. CASE N = 0 BY <1>1, <1>5, <2>1
  <2>2. CASE N # 0
    <3>1. 1 \in 1..N BY <1>0, <2>2
    <3>2. QED BY <1>0, <1>1, <1>2, <2>2, <3>1
  <2>3. QED BY <2>1, <2>2
<1>7. ASSUME NEW k \in 1..N PROVE g[k + 1].a = g[k].a + Size(g[k])
  <2>1. k \in 1..N OBVIOUS
  <2>2. CASE k = N BY <1>0, <1>1, <1>4, <2>1, <2>2
  <2>3. CASE k # N
    <3>1. k \in 1..N - 1 /\ k + 1 \in 1..N BY <1>0, <2>1, <2>3
    <3>2. QED BY <1>1, <1>3, <2>1, <3>1
  <2>4. QED BY <2>2, <2>3
<1>8. Laid(g)
  <2>1. \A n \in Nat : n = N + 1 => 1..n - 1 = 1..N BY <1>0
  <2>2. Len(g) = N + 1 /\ Len(g) \in Nat BY <1>0, <1>1
  <2>4. 1..Len(g) - 1 = 1..N BY <2>1, <2>2
  <2>5. \A k \in 1..Len(g) - 1 : g[k + 1].a = g[k].a + Size(g[k]) BY <1>7, <2>4
  <2>3. QED BY <1>1, <1>6, <2>5 DEF Laid
<1>9. FRSGPT(g) = FRSGPT(h) + Size(d)
  <2>1. g # <<>> BY <1>0, <1>1
  <2>2. QED BY <1>1, <2>1 DEF FRSGPT, Last
<1>10. QED BY <1>0, <1>1, <1>8, <1>9 DEF g, N

\* A change of cells and links leaves the blocks where they are.
Alike(h, g) ==
  /\ g \in Seq(BlockOf) /\ Len(g) = Len(h)
  /\ \A k \in DOMAIN h : g[k].a = h[k].a /\ g[k].id = h[k].id /\ Len(g[k].cells) = Len(h[k].cells)

LEMMA AlikeLaid ==
  ASSUME NEW h, Laid(h), NEW g, Alike(h, g)
  PROVE /\ Laid(g) /\ FRSGPT(g) = FRSGPT(h) /\ DOMAIN g = DOMAIN h
        /\ \A a : Top(g, a) = Top(h, a)
<1>0. h \in Seq(BlockOf) /\ Len(h) \in Nat /\ DOMAIN h = 1..Len(h) BY DEF Laid
<1>1. g \in Seq(BlockOf) /\ Len(g) = Len(h) /\ DOMAIN g = 1..Len(h) BY <1>0 DEF Alike
<1>2. \A k \in 1..Len(h) : g[k].a = h[k].a /\ g[k].id = h[k].id /\ Len(g[k].cells) = Len(h[k].cells) BY <1>0 DEF Alike
<1>3. \A k \in 1..Len(h) : Size(g[k]) = Size(h[k]) BY <1>2 DEF Size
<1>4. Len(g) > 0 => g[1].a = HDSGPT
  <2>1. Len(h) > 0 => 1 \in 1..Len(h) BY <1>0
  <2>2. QED BY <1>1, <1>2, <2>1 DEF Laid
<1>5. ASSUME NEW k \in 1..Len(g) - 1 PROVE g[k + 1].a = g[k].a + Size(g[k])
  <2>1. k \in 1..Len(h) /\ k + 1 \in 1..Len(h) BY <1>0, <1>1
  <2>2. h[k + 1].a = h[k].a + Size(h[k]) BY <1>1 DEF Laid
  <2>3. QED BY <1>2, <1>3, <2>1, <2>2
<1>6. Laid(g) BY <1>1, <1>4, <1>5 DEF Laid
<1>7. FRSGPT(g) = FRSGPT(h)
  <2>1. CASE Len(h) = 0
    <3>1. g = <<>> /\ h = <<>> BY <1>0, <1>1, <2>1
    <3>2. QED BY <3>1
  <2>2. CASE Len(h) # 0
    <3>1. g # <<>> /\ h # <<>> /\ Len(h) \in 1..Len(h) BY <1>0, <1>1, <2>2
    <3>2. QED BY <1>1, <1>2, <1>3, <3>1 DEF FRSGPT, Last
  <2>3. QED BY <2>1, <2>2
<1>8. ASSUME NEW a PROVE Top(g, a) = Top(h, a)
  <2>1. {k \in DOMAIN g : g[k].a <= a} = {k \in DOMAIN h : h[k].a <= a} BY <1>0, <1>1, <1>2
  <2>2. QED BY <2>1 DEF Top
<1>9. QED BY <1>0, <1>1, <1>6, <1>7, <1>8

\* Bins name their strings by their addresses, wherever in the row they are.
Across(q, g) == [i \in 1..Len(q) |-> g[q[i]]]

MappedBin(s, t, b, g) ==
  /\ t.bins[b] = s.bins[b] /\ g \in [DOMAIN s.heap -> DOMAIN t.heap]
  /\ \A k \in DOMAIN s.heap : t.heap[g[k]].id = s.heap[k].id /\ t.heap[g[k]].a = s.heap[k].a
  /\ \A k \in OfBin(s, b) : t.heap[g[k]].link = s.heap[k].link
  /\ \A k, l \in DOMAIN s.heap : g[k] = g[l] => k = l
  /\ \A l \in OfBin(t, b) : \E k \in DOMAIN s.heap : g[k] = l

LEMMA StrungMapped ==
  ASSUME NEW s, NEW X, s.heap \in Seq(X), NEW b, NEW q, Strung(s, b, q), NEW t, NEW g, MappedBin(s, t, b, g)
  PROVE Strung(t, b, Across(q, g))
<1>20. t.bins[b] = s.bins[b] /\ g \in [DOMAIN s.heap -> DOMAIN t.heap] BY DEF MappedBin
<1>21. \A k \in DOMAIN s.heap : t.heap[g[k]].id = s.heap[k].id /\ t.heap[g[k]].a = s.heap[k].a BY DEF MappedBin
<1>22. \A k \in OfBin(s, b) : t.heap[g[k]].link = s.heap[k].link BY DEF MappedBin
<1>23. \A k, l \in DOMAIN s.heap : g[k] = g[l] => k = l BY DEF MappedBin
<1>24. \A l \in OfBin(t, b) : \E k \in DOMAIN s.heap : g[k] = l BY DEF MappedBin
<1> DEFINE N == Len(q)
           v(i) == g[q[i]]
           r == [i \in 1..N |-> v(i)]
<1>1. N \in Nat /\ DOMAIN q = 1..N /\ \A i \in 1..N : q[i] \in DOMAIN s.heap BY StrungShort
<1>2. \A i \in 1..N : v(i) \in DOMAIN t.heap BY <1>1, <1>20
<1> HIDE DEF N, v
<1>3. r \in Seq(DOMAIN t.heap) BY <1>1, <1>2
<1>4. DOMAIN r = 1..N /\ \A i \in 1..N : r[i] = g[q[i]] BY DEF v
<1> HIDE DEF r
<1>5. \A i \in 1..N : t.heap[r[i]].id = s.heap[q[i]].id /\ t.heap[r[i]].a = s.heap[q[i]].a BY <1>1, <1>4, <1>21
<1>6. \A i \in 1..N : q[i] \in OfBin(s, b) /\ s.heap[q[i]].link = At(s, q, i + 1) BY <1>1 DEF Strung
<1>7. \A i \in 1..N : r[i] \in OfBin(t, b)
  <2> SUFFICES ASSUME NEW i \in 1..N PROVE r[i] \in OfBin(t, b) OBVIOUS
  <2>1. s.heap[q[i]].id \in Strings /\ Hash[s.heap[q[i]].id].bin = b BY <1>6 DEF OfBin
  <2>2. r[i] \in DOMAIN t.heap BY <1>2, <1>4 DEF v
  <2>3. QED BY <1>5, <2>1, <2>2 DEF OfBin
<1>8. \A l \in OfBin(t, b) : \E i \in 1..N : r[i] = l
  <2> SUFFICES ASSUME NEW l \in OfBin(t, b) PROVE \E i \in 1..N : r[i] = l OBVIOUS
  <2>1. l \in DOMAIN t.heap /\ t.heap[l].id \in Strings /\ Hash[t.heap[l].id].bin = b BY DEF OfBin
  <2>2. PICK k \in DOMAIN s.heap : g[k] = l BY <1>24
  <2>3. k \in OfBin(s, b) BY <1>21, <2>1, <2>2 DEF OfBin
  <2>4. PICK i \in 1..N : q[i] = k BY <1>1, <2>3 DEF Strung
  <2>5. QED BY <1>4, <2>2, <2>4
<1>9. \A i, j \in 1..N : i < j => r[i] # r[j] /\ Asc(t, r[i]) <= Asc(t, r[j])
  <2> SUFFICES ASSUME NEW i \in 1..N, NEW j \in 1..N, i < j PROVE r[i] # r[j] /\ Asc(t, r[i]) <= Asc(t, r[j]) OBVIOUS
  <2>1. q[i] # q[j] /\ Asc(s, q[i]) <= Asc(s, q[j]) BY <1>1 DEF Strung
  <2>2. Asc(t, r[i]) = Asc(s, q[i]) /\ Asc(t, r[j]) = Asc(s, q[j]) BY <1>5 DEF Asc
  <2>3. r[i] # r[j] BY <1>1, <1>4, <1>23, <2>1
  <2>4. QED BY <2>1, <2>2, <2>3
<1>10. \A i : At(t, r, i) = At(s, q, i)
  <2> SUFFICES ASSUME NEW i PROVE At(t, r, i) = At(s, q, i) OBVIOUS
  <2>1. CASE i \in 1..N BY <1>1, <1>4, <1>5, <2>1 DEF At
  <2>2. CASE i \notin 1..N BY <1>1, <1>4, <2>2 DEF At
  <2>3. QED BY <2>1, <2>2
<1>11. t.bins[b] = At(t, r, 1) BY <1>10, <1>20 DEF Strung
<1>12. \A i \in 1..N : t.heap[r[i]].link = At(t, r, i + 1)
  <2>1. \A i \in 1..N : t.heap[r[i]].link = s.heap[q[i]].link BY <1>4, <1>6, <1>22
  <2>2. QED BY <1>6, <1>10, <2>1
<1>13. Strung(t, b, r) BY <1>3, <1>4, <1>7, <1>8, <1>9, <1>11, <1>12 DEF Strung
<1>14. QED BY <1>13 DEF r, v, N, Across

\* The same strings in another row, g being where each block has gone.
Mapped(s, t, g) ==
  /\ g \in [DOMAIN s.heap -> DOMAIN t.heap] /\ t.bins = s.bins
  /\ \A k \in DOMAIN s.heap : t.heap[g[k]].id = s.heap[k].id /\ t.heap[g[k]].a = s.heap[k].a
  /\ \A k \in DOMAIN s.heap : s.heap[k].id \in Strings => t.heap[g[k]].link = s.heap[k].link
  /\ \A k, l \in DOMAIN s.heap : g[k] = g[l] => k = l
  /\ \A l \in DOMAIN t.heap : t.heap[l].id \in Strings => \E k \in DOMAIN s.heap : g[k] = l

LEMMA BinsMapped ==
  ASSUME NEW s, NEW X, s.heap \in Seq(X), BinsOf(s), NEW t, NEW g, Mapped(s, t, g)
  PROVE BinsOf(t)
<1>1. g \in [DOMAIN s.heap -> DOMAIN t.heap] /\ t.bins = s.bins BY DEF Mapped
<1>2. \A k \in DOMAIN s.heap : t.heap[g[k]].id = s.heap[k].id /\ t.heap[g[k]].a = s.heap[k].a BY DEF Mapped
<1>3. \A k, l \in DOMAIN s.heap : g[k] = g[l] => k = l BY DEF Mapped
<1>4. \A l \in DOMAIN t.heap : t.heap[l].id \in Strings => \E k \in DOMAIN s.heap : g[k] = l BY DEF Mapped
<1>7. \A b : \A l \in OfBin(t, b) : \E k \in DOMAIN s.heap : g[k] = l BY <1>4 DEF OfBin
<1>5. ASSUME NEW b \in Bins PROVE \E q : Strung(t, b, q)
  <2>1. PICK q : Strung(s, b, q) BY DEF BinsOf
  <2>2. \A k \in OfBin(s, b) : t.heap[g[k]].link = s.heap[k].link BY DEF Mapped, OfBin
  <2>3. t.bins[b] = s.bins[b] BY <1>1
  <2>6. MappedBin(s, t, b, g) BY <1>1, <1>2, <1>3, <1>7, <2>2, <2>3 DEF MappedBin
  <2>4. Strung(t, b, Across(q, g)) BY <2>1, <2>6, StrungMapped
  <2>5. QED BY <2>4
<1>6. QED BY <1>1, <1>5 DEF BinsOf

\* There is always a name for one block more: blocks take storage.
LEMMA FreshIs ==
  ASSUME StorageAssumption, NEW s, Laid(s.heap), FRSGPT(s.heap) <= TLSGP1
  PROVE Fresh(s) \in Ids /\ \A k \in DOMAIN s.heap : s.heap[k].id # Fresh(s)
<1> DEFINE h == s.heap
           N == Len(h)
           Used == {h[k].id : k \in 1..N}
           f == [k \in 1..N |-> h[k].id]
           S == {n \in Nat : n \in 0..N => EndOf(h, n) >= HDSGPT + n}
<1>0. h \in Seq(BlockOf) /\ N \in Nat /\ DOMAIN h = 1..N BY DEF Laid
<1>1. HDSGPT \in Nat /\ TLSGP1 \in Nat BY DEF StorageAssumption
<1>2. 0 \in S BY <1>1 DEF EndOf
<1>3. ASSUME NEW n \in Nat, n \in S PROVE n + 1 \in S
  <2> SUFFICES ASSUME n + 1 \in 0..N PROVE EndOf(h, n + 1) >= HDSGPT + (n + 1) OBVIOUS
  <2>1. n + 1 \in DOMAIN h /\ n \in 0..N /\ n + 1 - 1 = n BY <1>0
  <2>2. h[n + 1].a = EndOf(h, n) /\ EndOf(h, n + 1) = h[n + 1].a + Size(h[n + 1]) BY <2>1, EndOfIs
  <2>3. EndOf(h, n) \in Int BY <2>1, EndOfIs
  <2>4. Size(h[n + 1]) \in Nat /\ Size(h[n + 1]) >= 1 BY <2>1, LaidType
  <2>5. EndOf(h, n) >= HDSGPT + n BY <1>3, <2>1
  <2>6. QED BY <1>1, <2>2, <2>3, <2>4, <2>5
<1> HIDE DEF S
<1>4. Nat \subseteq S BY <1>2, <1>3, Induction
<1>5. N <= TLSGP1 - HDSGPT
  <2>1. N \in 0..N BY <1>0
  <2>2. EndOf(h, N) >= HDSGPT + N BY <1>0, <1>4, <2>1 DEF S
  <2>3. FRSGPT(h) = EndOf(h, N) /\ EndOf(h, N) \in Int BY <2>1, EndOfIs
  <2>4. QED BY <1>0, <1>1, <2>2, <2>3
<1>6. IsFiniteSet(1..N) /\ Cardinality(1..N) = N
  <2> HIDE DEF N, h, S
  <2>1. IsFiniteSet(1..N) /\ Cardinality(1..N) = IF 1 > N THEN 0 ELSE N - 1 + 1 BY <1>0, FS_Interval
  <2>2. QED BY <1>0, <2>1
<1> HIDE DEF N, h
<1>7. f \in Surjection(1..N, Used) BY DEF Surjection
<1> HIDE DEF f, Used
<1>8. IsFiniteSet(Used) /\ Cardinality(Used) <= N BY <1>6, <1>7, FS_Surjection
<1>9. \E id \in Ids : id \notin Used
  <2> SUFFICES ASSUME Ids \in SUBSET Used PROVE FALSE OBVIOUS
  <2>1. IsFiniteSet(Ids) /\ Cardinality(Ids) <= Cardinality(Used) BY <1>8, FS_Subset
  <2>2. Cardinality(Ids) > TLSGP1 - HDSGPT BY <2>1 DEF StorageAssumption
  <2>3. Cardinality(Ids) \in Nat /\ Cardinality(Used) \in Nat BY <1>8, <2>1, FS_CardinalityType
  <2>4. QED BY <1>0, <1>1, <1>5, <1>8, <2>1, <2>2, <2>3
<1>10. \E id \in Ids : \A k \in DOMAIN s.heap : s.heap[k].id # id BY <1>0, <1>9 DEF Used, h
<1>11. QED BY <1>10 DEF Fresh

LEMMA HeldMore ==
  ASSUME StorageAssumption, NEW h, Laid(h), NEW g, Laid(g), FRSGPT(h) <= FRSGPT(g), NEW c, Held(h, c)
  PROVE Held(g, c)
<1>1. FRSGPT(h) \in Int /\ FRSGPT(g) \in Int BY LaidEnds
<1>2. c \in Cell /\ c.a \in Int BY DEF Held, Cell
<1>3. QED BY <1>1, <1>2 DEF Held

\* A new block of cells that are in order, that no string is.
LEMMA GoodAppended ==
  ASSUME StorageAssumption, NEW s, Good(s), NEW d \in BlockOf, d.a = FRSGPT(s.heap), d.id \in Ids,
         \A k \in DOMAIN s.heap : s.heap[k].id # d.id, FRSGPT(s.heap) + Size(d) <= TLSGP1,
         \A i \in DOMAIN d.cells : Held(s.heap, d.cells[i]),
         NEW t, IsState(t), t.heap = Append(s.heap, d), t.bins = s.bins,
         t.reg \in [Regs -> Cell], \A x \in Regs : Held(s.heap, t.reg[x]) \/ t.reg[x] = Free(s),
         t.stack \in Seq(Cell), \A i \in DOMAIN t.stack : Held(s.heap, t.stack[i])
  PROVE Good(t)
<1> DEFINE h == s.heap
           N == Len(h)
<1>0. Laid(h) /\ h \in Seq(BlockOf) /\ N \in Nat /\ DOMAIN h = 1..N BY DEF Laid, Good
<1>1. Laid(t.heap) /\ FRSGPT(t.heap) = FRSGPT(h) + Size(d) /\ Len(t.heap) = N + 1 /\ t.heap[N + 1] = d
      /\ \A k \in DOMAIN h : t.heap[k] = h[k]
  BY <1>0, AppendLaid
<1>2. DOMAIN t.heap = 1..N + 1
  <2>1. t.heap \in Seq(BlockOf) BY <1>1 DEF Laid
  <2>2. DOMAIN t.heap = 1..Len(t.heap) BY <2>1
  <2>3. QED BY <1>1, <2>2
<1>3. FRSGPT(h) \in Int /\ HDSGPT <= FRSGPT(h) /\ Size(d) \in Nat /\ Size(d) >= 1 BY <1>0, LaidEnds, SizeType
<1> HIDE DEF h, N
<1>4. \A k \in 1..N + 1 : k \in 1..N \/ k = N + 1 BY <1>0
<1>5. FRSGPT(h) <= FRSGPT(t.heap) BY <1>1, <1>3
<1>6. \A c : Held(h, c) => Held(t.heap, c) BY <1>0, <1>1, <1>5, HeldMore
<1>7. Held(t.heap, Free(s))
  <2>1. Free(s) = [p |-> TRUE, a |-> FRSGPT(h)] BY DEF Free, Ptr, h
  <2>2. Free(s) \in Cell BY <1>3, <2>1 DEF Cell
  <2>3. FRSGPT(h) < FRSGPT(t.heap) BY <1>1, <1>3
  <2>4. QED BY <2>1, <2>2, <2>3 DEF Held
<1>8. CellsOf(t.heap)
  <2> SUFFICES ASSUME NEW k \in 1..N + 1
               PROVE /\ t.heap[k].id \in Strings => Len(t.heap[k].cells) = 2
                     /\ \A i \in DOMAIN t.heap[k].cells : Held(t.heap, t.heap[k].cells[i])
    BY <1>2 DEF CellsOf
  <2>1. CASE k \in 1..N
    <3>1. CellsOf(h) BY DEF Good, h
    <3>2. t.heap[k] = h[k] /\ k \in DOMAIN h BY <1>0, <1>1, <2>1
    <3>3. QED BY <1>6, <3>1, <3>2 DEF CellsOf
  <2>2. CASE k = N + 1
    <3>1. d.id \notin Strings BY DEF StorageAssumption
    <3>2. QED BY <1>1, <1>6, <2>2, <3>1 DEF h
  <2>3. QED BY <1>4, <2>1, <2>2
<1>9. IdsOf(t.heap)
  <2> SUFFICES ASSUME NEW j \in 1..N + 1, NEW k \in 1..N + 1, t.heap[j].id = t.heap[k].id PROVE j = k
    BY <1>2 DEF IdsOf
  <2>1. IdsOf(h) BY DEF Good, h
  <2>2. \A x \in 1..N : t.heap[x].id = h[x].id /\ h[x].id # d.id BY <1>0, <1>1 DEF h
  <2>3. \A x, y \in 1..N : h[x].id = h[y].id => x = y BY <1>0, <2>1 DEF IdsOf
  <2>4. QED BY <1>1, <1>4, <2>2, <2>3
<1>10. Mapped(s, t, [k \in DOMAIN s.heap |-> k])
  <2> DEFINE g == [k \in DOMAIN s.heap |-> k]
  <2>1. g \in [DOMAIN s.heap -> DOMAIN t.heap]
    <3>1. \A k \in DOMAIN s.heap : k \in DOMAIN t.heap BY <1>0, <1>2 DEF h
    <3>2. QED BY <3>1
  <2>2. \A k \in DOMAIN s.heap : g[k] = k /\ t.heap[g[k]] = s.heap[k] BY <1>1 DEF h
  <2>3. \A l \in DOMAIN t.heap : t.heap[l].id \in Strings => \E k \in DOMAIN s.heap : g[k] = l
    <3>1. d.id \notin Strings BY DEF StorageAssumption
    <3>2. \A l \in DOMAIN t.heap : t.heap[l].id \in Strings => l \in 1..N BY <1>1, <1>2, <1>4, <3>1
    <3>3. \A l \in 1..N : l \in DOMAIN s.heap BY <1>0 DEF h
    <3>4. QED BY <2>2, <3>2, <3>3
  <2> HIDE DEF g
  <2>4. QED BY <2>1, <2>2, <2>3 DEF Mapped, g
<1>11. BinsOf(t)
  <2>1. BinsOf(s) /\ s.heap \in Seq(BlockOf) BY <1>0 DEF Good, h
  <2>2. QED BY <1>10, <2>1, BinsMapped
<1>12. \A x \in Regs : Held(t.heap, t.reg[x]) BY <1>6, <1>7 DEF h
<1>13. \A i \in DOMAIN t.stack : Held(t.heap, t.stack[i]) BY <1>6 DEF h
<1>14. FRSGPT(t.heap) <= TLSGP1 BY <1>1 DEF h
<1>15. QED BY <1>1, <1>8, <1>9, <1>11, <1>12, <1>13, <1>14 DEF Good

\* Other cells in the same blocks.
LEMMA GoodAlike ==
  ASSUME StorageAssumption, NEW s, Good(s), NEW t, IsState(t), Alike(s.heap, t.heap), t.bins = s.bins,
         \A k \in DOMAIN s.heap : t.heap[k].link = s.heap[k].link,
         \A k \in DOMAIN s.heap : \A i \in DOMAIN t.heap[k].cells : Held(s.heap, t.heap[k].cells[i]),
         t.reg \in [Regs -> Cell], \A x \in Regs : Held(s.heap, t.reg[x]),
         t.stack \in Seq(Cell), \A i \in DOMAIN t.stack : Held(s.heap, t.stack[i])
  PROVE Good(t)
<1>0. Laid(s.heap) /\ s.heap \in Seq(BlockOf) /\ FRSGPT(s.heap) <= TLSGP1 /\ IdsOf(s.heap) /\ CellsOf(s.heap) /\ BinsOf(s)
  BY DEF Laid, Good
<1>1. Laid(t.heap) /\ FRSGPT(t.heap) = FRSGPT(s.heap) /\ DOMAIN t.heap = DOMAIN s.heap BY <1>0, AlikeLaid
<1>2. \A c : Held(t.heap, c) <=> Held(s.heap, c) BY <1>1 DEF Held
<1>3. \A k \in DOMAIN s.heap : t.heap[k].a = s.heap[k].a /\ t.heap[k].id = s.heap[k].id
                               /\ Len(t.heap[k].cells) = Len(s.heap[k].cells)
  BY DEF Alike
<1>4. IdsOf(t.heap) BY <1>0, <1>1, <1>3 DEF IdsOf
<1>5. CellsOf(t.heap) BY <1>0, <1>1, <1>2, <1>3 DEF CellsOf
<1>6. Mapped(s, t, [k \in DOMAIN s.heap |-> k])
  <2> DEFINE g == [k \in DOMAIN s.heap |-> k]
  <2>1. g \in [DOMAIN s.heap -> DOMAIN t.heap] /\ \A k \in DOMAIN s.heap : g[k] = k BY <1>1
  <2> HIDE DEF g
  <2>2. QED BY <1>1, <1>3, <2>1 DEF Mapped, g
<1>7. BinsOf(t) BY <1>0, <1>6, BinsMapped
<1>8. QED BY <1>0, <1>1, <1>2, <1>4, <1>5, <1>7 DEF Good

------------------------------------------------------------------------------
\* LSTPTR and BUKPTR are around the place of a string that is not there.
Between(s, t, q, i) ==
  /\ Strung(s, Hash[t].bin, q) /\ i \in 0..Len(q)
  /\ s.reg["LSTPTR"] = Ptr(Place(s, Hash[t].bin, q, i)) /\ s.reg["BUKPTR"] = Ptr(At(s, q, i + 1))
  /\ \A j \in DOMAIN q : /\ s.heap[q[j]].id # t
                         /\ j <= i => Asc(s, q[j]) <= Hash[t].asc
                         /\ i < j => Hash[t].asc <= Asc(s, q[j])
Absent(s, t) == \E q : \E i \in 0..Len(q) : Between(s, t, q, i)
Present(s, t) == \E k \in DOMAIN s.heap : s.heap[k].id = t /\ s.reg["BUKPTR"] = Ptr(s.heap[k].a)

LEMMA HashType ==
  ASSUME StorageAssumption
  PROVE \A t \in Strings : Hash[t].bin \in Bins /\ Hash[t].asc \in Nat
BY DEF StorageAssumption, Bins

\* LOCA1 finds the string, or the place where it belongs.
LEMMA LocatedIs ==
  ASSUME StorageAssumption, NEW s, Good(s), NEW t \in Strings, NEW l, l = Located(s, t)
  PROVE /\ Good(l) /\ l.heap = s.heap /\ l.bins = s.bins /\ l.stack = s.stack
        /\ \A x \in Regs \ {"LSTPTR", "BUKPTR"} : l.reg[x] = s.reg[x]
        /\ IF IsThere(l, t) THEN Present(l, t) ELSE Absent(l, t)
<1> DEFINE b == Hash[t].bin
           c == Chain(s, b)
           S == {i \in DOMAIN c : \A j \in 1..i : Before(s, t, c[j])}
           i == Max(S)
<1>1. Laid(s.heap) /\ BinsOf(s) /\ IdsOf(s.heap) /\ s.heap \in Seq(BlockOf) BY DEF Good, Laid
<1>2. b \in Bins /\ Hash[t].asc \in Nat BY HashType
<1>3. PICK q : Strung(s, b, q) BY <1>1, <1>2 DEF BinsOf
<1> DEFINE N == Len(q)
<1>4. N \in Nat /\ DOMAIN q = 1..N /\ \A j \in 1..N : q[j] \in DOMAIN s.heap BY <1>1, <1>3, StrungShort
<1>5. c = Along(s, b, q) BY <1>1, <1>2, <1>3, ChainOf
<1> HIDE DEF c
<1>6. DOMAIN c = 1..N + 1 /\ c[1] = -b /\ \A j \in 1..N : c[j + 1] = s.heap[q[j]].a
  <2>1. \A j \in 1..N : j + 1 \in 1..N + 1 /\ j + 1 # 1 /\ j + 1 - 1 = j BY <1>4
  <2>2. 1 \in 1..N + 1 BY <1>4
  <2>3. QED BY <1>5, <2>1, <2>2 DEF Along
<1>7. \A k \in DOMAIN s.heap : Top(s.heap, s.heap[k].a) = k /\ s.heap[k].a \in Int /\ s.heap[k].a > 0 BY <1>1, TopOwn
<1>8. -b \in Int /\ -b < 0 BY <1>2, BinType
<1> HIDE DEF N
<1>9. Before(s, t, c[1]) BY <1>6, <1>8 DEF Before
<1>10. \A j \in 1..N : Before(s, t, c[j + 1]) <=>
         Asc(s, q[j]) < Hash[t].asc \/ (Asc(s, q[j]) = Hash[t].asc /\ s.heap[q[j]].id # t)
  <2> SUFFICES ASSUME NEW j \in 1..N
               PROVE Before(s, t, c[j + 1]) <=>
                       Asc(s, q[j]) < Hash[t].asc \/ (Asc(s, q[j]) = Hash[t].asc /\ s.heap[q[j]].id # t)
    OBVIOUS
  <2>1. c[j + 1] = s.heap[q[j]].a /\ q[j] \in DOMAIN s.heap BY <1>4, <1>6
  <2>2. ~(c[j + 1] < 0) /\ Top(s.heap, c[j + 1]) = q[j] BY <1>7, <2>1
  <2>3. QED BY <2>2 DEF Before, Asc
<1>11. /\ i \in S /\ \A j \in S : j <= i
  <2>1. \A j \in 1..1 : j = 1 OBVIOUS
  <2>2. 1 \in S BY <1>4, <1>6, <1>9, <2>1
  <2>3. S \subseteq Nat /\ \A j \in S : j <= N + 1 BY <1>4, <1>6
  <2>4. N + 1 \in Nat BY <1>4
  <2> HIDE DEF S
  <2>5. \E n \in S : \A k \in S : k <= n BY <2>2, <2>3, <2>4, Largest
  <2>6. \E n \in S : \A k \in S : n >= k BY <2>3, <2>5
  <2>7. Max(S) \in S /\ \A j \in S : Max(S) >= j BY <2>6 DEF Max
  <2>8. QED BY <2>3, <2>7
<1>12. i \in 1..N + 1 /\ \A j \in 1..i : Before(s, t, c[j]) BY <1>6, <1>11
<1> DEFINE lst == Ptr(c[i])
           buk == Ptr(IF i = Len(c) THEN 0 ELSE c[i + 1])
<1>14. l = [s EXCEPT !.reg["LSTPTR"] = lst, !.reg["BUKPTR"] = buk] BY DEF Located, c
<1> HIDE DEF i, lst, buk
<1>13. i + 1 \in 1..N + 1 => ~Before(s, t, c[i + 1])
  <2> SUFFICES ASSUME i + 1 \in 1..N + 1, Before(s, t, c[i + 1]) PROVE FALSE OBVIOUS
  <2>1. i \in Nat /\ \A j \in 1..i + 1 : j \in 1..i \/ j = i + 1 BY <1>4, <1>12
  <2>2. \A j \in 1..i + 1 : Before(s, t, c[j]) BY <1>12, <2>1
  <2>3. i + 1 \in S BY <1>6, <2>2
  <2>4. i + 1 <= i BY <1>11, <2>3
  <2>5. QED BY <2>1, <2>4
<1>15. Len(c) = N + 1
  <2>1. c = [n \in 1..N + 1 |-> c[n]] BY <1>5, <1>6 DEF Along, N
  <2>2. \A n \in 1..N + 1 : n = 1 \/ (n - 1 \in 1..N /\ n = n - 1 + 1) BY <1>4
  <2>7. \A n \in 1..N : c[n + 1] \in Int BY <1>4, <1>6, <1>7
  <2>3. \A n \in 1..N + 1 : c[n] \in Int BY <1>6, <1>8, <2>2, <2>7
  <2>4. N + 1 \in Nat BY <1>4
  <2>5. c \in [1..N + 1 -> Int] BY <2>1, <2>3
  <2>6. QED BY <2>4, <2>5
<1> HIDE DEF S
<1> DEFINE n == i - 1
<1>16. n \in 0..N /\ n \in Nat /\ i = n + 1 BY <1>4, <1>12
<1> HIDE DEF n
<1>17. c[i] = Place(s, b, q, n)
  <2>1. CASE n = 0 BY <1>6, <1>16, <2>1 DEF Place
  <2>2. CASE n # 0
    <3>1. n \in 1..N BY <1>4, <1>16, <2>2
    <3>2. QED BY <1>6, <1>16, <2>2, <3>1 DEF Place
  <2>3. QED BY <2>1, <2>2
<1>18. buk = Ptr(At(s, q, n + 1)) /\ (n + 1 \in 1..N => At(s, q, n + 1) = s.heap[q[n + 1]].a)
       /\ (n + 1 \notin 1..N => At(s, q, n + 1) = 0)
  <2>1. n + 1 \in 1..N => At(s, q, n + 1) = s.heap[q[n + 1]].a BY <1>4 DEF At
  <2>2. n + 1 \notin 1..N => At(s, q, n + 1) = 0 BY <1>4 DEF At
  <2>3. CASE n = N
    <3>1. i = Len(c) BY <1>15, <1>16, <2>3
    <3>2. n + 1 \notin 1..N BY <1>4, <2>3
    <3>3. QED BY <2>1, <2>2, <3>1, <3>2 DEF buk
  <2>4. CASE n # N
    <3>1. i # Len(c) BY <1>4, <1>15, <1>16, <2>4
    <3>2. n + 1 \in 1..N BY <1>4, <1>16, <2>4
    <3>3. c[i + 1] = s.heap[q[n + 1]].a BY <1>6, <1>16, <3>2
    <3>4. QED BY <2>1, <3>1, <3>2, <3>3 DEF buk
  <2>5. QED BY <2>3, <2>4
<1> HIDE DEF lst, buk
<1>20. \A j \in 1..N : Asc(s, q[j]) \in Nat
  <2> SUFFICES ASSUME NEW j \in 1..N PROVE Asc(s, q[j]) \in Nat OBVIOUS
  <2>1. q[j] \in OfBin(s, b) BY <1>3, <1>4 DEF Strung
  <2>2. s.heap[q[j]].id \in Strings BY <2>1 DEF OfBin
  <2>3. QED BY <2>2, HashType DEF Asc
<1>19. ASSUME NEW j \in 1..N, j <= n PROVE s.heap[q[j]].id # t /\ Asc(s, q[j]) <= Hash[t].asc
  <2>1. j + 1 \in 1..i BY <1>16, <1>19
  <2>2. Before(s, t, c[j + 1]) BY <1>12, <2>1
  <2>3. Asc(s, q[j]) < Hash[t].asc \/ (Asc(s, q[j]) = Hash[t].asc /\ s.heap[q[j]].id # t) BY <1>10, <2>2
  <2>4. s.heap[q[j]].id = t => Asc(s, q[j]) = Hash[t].asc BY DEF Asc
  <2>5. ~(Hash[t].asc < Hash[t].asc) BY <1>2
  <2>6. s.heap[q[j]].id # t BY <2>3, <2>4, <2>5
  <2>7. QED BY <1>2, <1>20, <2>3, <2>6
<1>21. s.reg \in [Regs -> Cell] /\ \A x \in Regs : Held(s.heap, s.reg[x]) BY DEF Good
<1>22. Held(s.heap, lst) /\ Held(s.heap, buk)
  <2>1. HDSGPT \in Nat /\ HDSGPT # 0 BY DEF StorageAssumption
  <2>2. \A a \in Int : a < HDSGPT => Held(s.heap, Ptr(a)) BY <2>1 DEF Held, In, Ptr, Cell
  <2>3. \A k \in DOMAIN s.heap : Held(s.heap, Ptr(s.heap[k].a))
    <3> SUFFICES ASSUME NEW k \in DOMAIN s.heap PROVE Held(s.heap, Ptr(s.heap[k].a)) OBVIOUS
    <3>1. s.heap[k].a + Size(s.heap[k]) <= FRSGPT(s.heap) /\ FRSGPT(s.heap) \in Int BY <1>1, LaidEnds
    <3>2. s.heap[k].a \in Int /\ Size(s.heap[k]) \in Nat /\ Size(s.heap[k]) >= 1 BY <1>1, LaidType
    <3>3. QED BY <3>1, <3>2 DEF Held, Ptr, Cell
  <2>4. Held(s.heap, lst)
    <3>1. CASE n = 0
      <4>1. c[i] = -b /\ -b < HDSGPT BY <1>8, <1>17, <2>1, <3>1 DEF Place
      <4>2. QED BY <1>8, <2>2, <4>1 DEF lst
    <3>2. CASE n # 0
      <4>1. n \in 1..N BY <1>4, <1>16, <3>2
      <4>2. QED BY <1>4, <1>17, <2>3, <3>2, <4>1 DEF lst, Place
    <3>3. QED BY <3>1, <3>2
  <2>5. Held(s.heap, buk)
    <3>1. CASE n + 1 \in 1..N BY <1>4, <1>18, <2>3, <3>1
    <3>2. CASE n + 1 \notin 1..N
      <4>1. 0 \in Int /\ 0 < HDSGPT BY <2>1
      <4>2. QED BY <1>18, <2>2, <3>2, <4>1
    <3>3. QED BY <3>1, <3>2
  <2>6. QED BY <2>4, <2>5
<1>0. s = [heap |-> s.heap, bins |-> s.bins, reg |-> s.reg, stack |-> s.stack] BY DEF Good, IsState
<1>23. IsState(l) /\ l.heap = s.heap /\ l.bins = s.bins /\ l.stack = s.stack
       /\ l.reg = [s.reg EXCEPT !["LSTPTR"] = lst, !["BUKPTR"] = buk]
  <2> DEFINE r == [s.reg EXCEPT !["LSTPTR"] = lst, !["BUKPTR"] = buk]
  <2>1. l = [s EXCEPT !.reg = r] BY <1>14
  <2> HIDE DEF r
  <2>2. l = [heap |-> s.heap, bins |-> s.bins, reg |-> r, stack |-> s.stack] BY <1>0, <2>1
  <2>3. QED BY <2>2 DEF IsState, r
<1>24. l.reg \in [Regs -> Cell] /\ l.reg["LSTPTR"] = lst /\ l.reg["BUKPTR"] = buk
       /\ (\A x \in Regs \ {"LSTPTR", "BUKPTR"} : l.reg[x] = s.reg[x])
       /\ \A x \in Regs : Held(s.heap, l.reg[x])
  <2>1. {"LSTPTR", "BUKPTR"} \subseteq Regs BY DEF Regs
  <2>2. lst \in Cell /\ buk \in Cell BY <1>22 DEF Held
  <2> HIDE DEF Regs
  <2>3. l.reg \in [Regs -> Cell] /\ l.reg["LSTPTR"] = lst /\ l.reg["BUKPTR"] = buk
        /\ \A x \in Regs \ {"LSTPTR", "BUKPTR"} : l.reg[x] = s.reg[x]
    BY <1>21, <1>23, <2>1, <2>2
  <2>4. QED BY <1>21, <1>22, <2>3
<1>25. Good(l)
  <2>1. l.stack \in Seq(Cell) /\ \A x \in DOMAIN l.stack : Held(s.heap, l.stack[x]) BY <1>23 DEF Good
  <2>2. QED BY <1>23, <1>24, <2>1, GoodSame
<1>26. \A x : At(l, q, x) = At(s, q, x) /\ Place(l, b, q, x) = Place(s, b, q, x) /\ Asc(l, x) = Asc(s, x)
  BY <1>23 DEF At, Place, Asc
<1>27. l.reg["LSTPTR"] = Ptr(Place(l, b, q, n)) /\ l.reg["BUKPTR"] = Ptr(At(l, q, n + 1)) BY <1>17, <1>18, <1>24, <1>26 DEF lst
<1>28. l.reg["BUKPTR"].a = At(s, q, n + 1) BY <1>18, <1>24 DEF Ptr
<1>29. CASE IsThere(l, t)
  <2>1. At(s, q, n + 1) # 0 /\ s.heap[Top(s.heap, At(s, q, n + 1))].id = t BY <1>23, <1>28, <1>29 DEF IsThere
  <2>2. n + 1 \in 1..N BY <1>18, <2>1
  <2>3. q[n + 1] \in DOMAIN s.heap /\ At(s, q, n + 1) = s.heap[q[n + 1]].a BY <1>4, <1>18, <2>2
  <2>4. s.heap[q[n + 1]].id = t BY <1>7, <2>1, <2>3
  <2>5. Present(l, t) BY <1>18, <1>23, <1>24, <2>3, <2>4 DEF Present
  <2>6. QED BY <1>23, <1>24, <1>25, <1>29, <2>5
<1>30. CASE ~IsThere(l, t)
  <2>1. n + 1 \in 1..N => s.heap[q[n + 1]].id # t
    <3> SUFFICES ASSUME n + 1 \in 1..N PROVE s.heap[q[n + 1]].id # t OBVIOUS
    <3>1. q[n + 1] \in DOMAIN s.heap /\ At(s, q, n + 1) = s.heap[q[n + 1]].a BY <1>4, <1>18
    <3>2. At(s, q, n + 1) # 0 /\ Top(s.heap, At(s, q, n + 1)) = q[n + 1] BY <1>7, <3>1
    <3>3. QED BY <1>23, <1>28, <1>30, <3>2 DEF IsThere
  <2>2. n + 1 \in 1..N => Hash[t].asc < Asc(s, q[n + 1])
    <3> SUFFICES ASSUME n + 1 \in 1..N PROVE Hash[t].asc < Asc(s, q[n + 1]) OBVIOUS
    <3>1. i + 1 \in 1..N + 1 /\ i + 1 = n + 1 + 1 BY <1>4, <1>16
    <3>2. ~Before(s, t, c[n + 1 + 1]) BY <1>13, <3>1
    <3>3. ~(Asc(s, q[n + 1]) < Hash[t].asc \/ Asc(s, q[n + 1]) = Hash[t].asc) BY <1>10, <2>1, <3>2
    <3>4. Asc(s, q[n + 1]) \in Nat BY <1>20
    <3>5. QED BY <1>2, <3>3, <3>4
  <2>3. ASSUME NEW j \in 1..N, n < j PROVE s.heap[q[j]].id # t /\ Hash[t].asc <= Asc(s, q[j])
    <3>1. n + 1 \in 1..N /\ (j = n + 1 \/ n + 1 < j) BY <1>4, <1>16, <2>3
    <3>2. n + 1 < j => Asc(s, q[n + 1]) <= Asc(s, q[j]) BY <1>3, <1>4, <3>1 DEF Strung
    <3>3. Asc(s, q[n + 1]) \in Nat /\ Asc(s, q[j]) \in Nat BY <1>20, <3>1
    <3>4. Hash[t].asc < Asc(s, q[j]) BY <1>2, <2>2, <3>1, <3>2, <3>3
    <3>5. s.heap[q[j]].id = t => Asc(s, q[j]) = Hash[t].asc BY DEF Asc
    <3>6. QED BY <1>2, <3>3, <3>4, <3>5
  <2>4. \A j \in DOMAIN q : /\ l.heap[q[j]].id # t
                            /\ j <= n => Asc(l, q[j]) <= Hash[t].asc
                            /\ n < j => Hash[t].asc <= Asc(l, q[j])
    <3> SUFFICES ASSUME NEW j \in 1..N
                 PROVE /\ l.heap[q[j]].id # t
                       /\ j <= n => Asc(l, q[j]) <= Hash[t].asc
                       /\ n < j => Hash[t].asc <= Asc(l, q[j])
      BY <1>4
    <3>1. j <= n \/ n < j BY <1>16
    <3>2. QED BY <1>19, <1>23, <1>26, <2>3, <3>1
  <2>5. Strung(l, b, q) BY <1>3, <1>23, StrungSame
  <2>6. Between(l, t, q, n) BY <1>16, <1>27, <2>4, <2>5 DEF Between, N
  <2>7. Absent(l, t) BY <1>16, <2>6 DEF Absent, N
  <2>8. QED BY <1>23, <1>24, <1>25, <1>30, <2>7
<1>31. QED BY <1>29, <1>30

LEMMA RestrungIs ==
  ASSUME StorageAssumption, NEW s, Laid(s.heap), CellsOf(s.heap), BinsOf(s), NEW K, Keeps(s, K),
         NEW b, NEW q, Strung(s, b, q), NEW t, t.heap = Moved(s, K)
  PROVE /\ Len(Restrung(K, q)) = Cardinality(Kepts(q, K)) /\ DOMAIN Restrung(K, q) = 1..Cardinality(Kepts(q, K))
        /\ \A n \in 1..Cardinality(Kepts(q, K)) :
             /\ Restrung(K, q)[n] = NewPlace(K, q[Nth(Kepts(q, K), n)]) /\ Restrung(K, q)[n] \in DOMAIN t.heap
             /\ t.heap[Restrung(K, q)[n]].id = s.heap[q[Nth(Kepts(q, K), n)]].id
<1> DEFINE J == Kepts(q, K)
           C == Cardinality(J)
           v(n) == NewPlace(K, q[Nth(J, n)])
           r == Restrung(K, q)
<1>0. s.heap \in Seq(BlockOf) BY DEF Laid
<1>1. C \in Nat /\ \A n \in 1..C : Nth(J, n) \in DOMAIN q /\ q[Nth(J, n)] \in K BY <1>0, KeptsType
<1>2. \A k \in K : NewPlace(K, k) \in DOMAIN t.heap /\ t.heap[NewPlace(K, k)] = Kept(s, K, k) BY NewPlaceIs
<1>3. \A k \in K : Kept(s, K, k).id = s.heap[k].id
  <2> SUFFICES ASSUME NEW k \in K PROVE Kept(s, K, k).id = s.heap[k].id OBVIOUS
  <2>1. QED BY KeptIs DEF KeptAs
<1>4. r = [n \in 1..C |-> v(n)] BY DEF Restrung
<1>5. \A n \in 1..C : v(n) \in DOMAIN t.heap /\ t.heap[v(n)].id = s.heap[q[Nth(J, n)]].id BY <1>1, <1>2, <1>3
<1>50. \A n \in 1..C : v(n) = NewPlace(K, q[Nth(J, n)]) OBVIOUS
<1> HIDE DEF v, C, r
<1>6. DOMAIN r = 1..C /\ \A n \in 1..C : r[n] = v(n) BY <1>4
<1>7. Len(r) = C
  <2>1. Len([n \in 1..C |-> v(n)]) = C BY <1>1
  <2>2. QED BY <1>4, <2>1
<1>8. \A n \in 1..C : r[n] = NewPlace(K, q[Nth(J, n)]) /\ r[n] \in DOMAIN t.heap
                      /\ t.heap[r[n]].id = s.heap[q[Nth(J, n)]].id
  BY <1>5, <1>50, <1>6
<1>9. QED BY <1>6, <1>7, <1>8 DEF r, C

\* Regeneration leaves LSTPTR and BUKPTR around the place: they are among its roots.
LEMMA AbsentKept ==
  ASSUME StorageAssumption, NEW s, Good(s), NEW t \in Strings, Absent(s, t)
  PROVE Absent(GC(s), t)
<1> DEFINE K == Marked(s)
           g == GC(s)
           b == Hash[t].bin
<1>0. Laid(s.heap) /\ CellsOf(s.heap) /\ BinsOf(s) /\ s.heap \in Seq(BlockOf) BY DEF Good, Laid
<1>1. Regenerated(s, g) BY GCRegenerates
<1> HIDE DEF g
<1>2. Keeps(s, K) /\ g.heap = Moved(s, K) BY <1>1 DEF Regenerated
<1>30. PICK q : \E i \in 0..Len(q) : Between(s, t, q, i) BY DEF Absent
<1>3. PICK i \in 0..Len(q) : Between(s, t, q, i) BY <1>30
<1>4. Strung(s, b, q) BY <1>3 DEF Between
<1> DEFINE N == Len(q)
           J == Kepts(q, K)
           C == Cardinality(J)
           r == Restrung(K, q)
<1>5. b \in Bins /\ -b \in Int /\ -b < 0 BY HashType, BinType
<1>6. Strung(g, b, r) BY <1>1, <1>4, <1>5 DEF Regenerated
<1>7. N \in Nat /\ DOMAIN q = 1..N /\ \A j \in 1..N : q[j] \in DOMAIN s.heap BY <1>0, <1>4, StrungShort
<1>8. Len(r) = C /\ DOMAIN r = 1..C BY <1>0, <1>2, <1>4, RestrungIs
<1>9. \A n \in 1..C : r[n] = NewPlace(K, q[Nth(J, n)]) /\ r[n] \in DOMAIN g.heap /\ g.heap[r[n]].id = s.heap[q[Nth(J, n)]].id
  BY <1>0, <1>2, <1>4, RestrungIs
<1>10. IsFiniteSet(J) /\ J \subseteq Nat /\ C \in Nat /\ \A n \in 1..C : Nth(J, n) \in DOMAIN q BY <1>0, <1>4, KeptsType
<1>11. \A m1, n \in 1..C : m1 < n => Nth(J, m1) < Nth(J, n) BY <1>10, NthLess
<1>12. \A j \in 1..N : q[j] \in K => \E n \in 1..C : Nth(J, n) = j
  <2> SUFFICES ASSUME NEW j \in 1..N, q[j] \in K PROVE \E n \in 1..C : Nth(J, n) = j OBVIOUS
  <2>1. j \in J BY <1>7 DEF Kepts
  <2>2. QED BY <1>10, <2>1, NthOnto
<1> HIDE DEF K, N, J, C, r
<1>13. \A n \in 1..C : Nth(J, n) \in 1..N BY <1>7, <1>10
<1>14. i \in 0..N /\ i \in Nat BY <1>3, <1>7 DEF N
\* A pointer to a string of the bin follows it.
<1>15. ASSUME NEW j \in 1..N, NEW x \in Regs, s.reg[x] = Ptr(s.heap[q[j]].a)
       PROVE q[j] \in K /\ g.reg[x] = Ptr(g.heap[NewPlace(K, q[j])].a)
  <2> DEFINE k == q[j]
             c == s.reg[x]
             d == g.reg[x]
  <2>1. Follows(s, K, c, g.heap, d) BY <1>1 DEF Regenerated, K
  <2>2. k \in DOMAIN s.heap BY <1>7
  <2>3. Top(s.heap, s.heap[k].a) = k /\ s.heap[k].a \in Int /\ s.heap[k].a >= HDSGPT BY <1>0, <2>2, TopOwn
  <2>4. c.p = TRUE /\ c.a = s.heap[k].a BY <1>15 DEF Ptr
  <2> HIDE DEF k, c, d
  <2>5. In(c) BY <2>3, <2>4 DEF In
  <2>6. k \in K /\ Top(g.heap, d.a) = NewPlace(K, k) /\ Top(g.heap, d.a) \in DOMAIN g.heap
        /\ d.a - g.heap[Top(g.heap, d.a)].a = c.a - s.heap[k].a /\ In(d) /\ Held(g.heap, d)
    BY <2>1, <2>3, <2>4, <2>5 DEF Follows
  <2>7. Laid(g.heap) BY <1>0, <1>2, MovedLaid
  <2>8. g.heap[NewPlace(K, k)].a \in Int BY <2>6, <2>7, TopOwn
  <2>9. d \in Cell /\ d.a \in Int /\ d.p = TRUE BY <2>6 DEF Held, Cell, In
  <2>10. d.a = g.heap[NewPlace(K, k)].a BY <2>3, <2>4, <2>6, <2>8, <2>9
  <2>11. d = [p |-> TRUE, a |-> d.a] BY <2>9 DEF Cell
  <2>12. QED BY <2>6, <2>10, <2>11 DEF Ptr, k, d
\* A pointer to no block stays.
<1>16. ASSUME NEW x \in Regs, NEW a \in Int, a < HDSGPT, s.reg[x] = Ptr(a) PROVE g.reg[x] = Ptr(a)
  <2>1. Follows(s, K, s.reg[x], g.heap, g.reg[x]) BY <1>1 DEF Regenerated, K
  <2>2. ~In(s.reg[x])
    <3>1. HDSGPT \in Int BY DEF StorageAssumption
    <3>2. QED BY <1>16, <3>1 DEF In, Ptr
  <2>3. QED BY <1>16, <2>1, <2>2 DEF Follows
<1>17. "LSTPTR" \in Regs /\ "BUKPTR" \in Regs BY DEF Regs
<1>18. s.reg["LSTPTR"] = Ptr(Place(s, b, q, i)) /\ s.reg["BUKPTR"] = Ptr(At(s, q, i + 1)) BY <1>3 DEF Between
\* n of the kept ones are before the place.
<1>19. \E n \in 0..C : /\ (n = 0 <=> i = 0) /\ (n # 0 => Nth(J, n) = i)
                       /\ g.reg["LSTPTR"] = Ptr(Place(g, b, r, n))
  <2>1. CASE i = 0
    <3>1. HDSGPT \in Nat BY DEF StorageAssumption
    <3>2. -b < HDSGPT BY <1>5, <3>1
    <3>3. s.reg["LSTPTR"] = Ptr(-b) BY <1>18, <2>1 DEF Place
    <3>4. g.reg["LSTPTR"] = Ptr(-b) BY <1>5, <1>16, <1>17, <3>2, <3>3
    <3>5. 0 \in 0..C /\ Place(g, b, r, 0) = -b BY <1>10 DEF Place
    <3>6. QED BY <2>1, <3>4, <3>5
  <2>2. CASE i # 0
    <3>1. i \in 1..N BY <1>7, <1>14, <2>2
    <3>2. s.reg["LSTPTR"] = Ptr(s.heap[q[i]].a) BY <1>18, <2>2 DEF Place
    <3>3. q[i] \in K /\ g.reg["LSTPTR"] = Ptr(g.heap[NewPlace(K, q[i])].a) BY <1>15, <1>17, <3>1, <3>2
    <3>4. PICK n \in 1..C : Nth(J, n) = i BY <1>12, <3>1, <3>3
    <3>5. n \in 0..C /\ n # 0 BY <1>10
    <3>6. Place(g, b, r, n) = g.heap[NewPlace(K, q[i])].a BY <1>9, <3>4, <3>5 DEF Place
    <3>7. QED BY <2>2, <3>3, <3>4, <3>5, <3>6
  <2>3. QED BY <2>1, <2>2
<1>20. PICK n \in 0..C : (n = 0 <=> i = 0) /\ (n # 0 => Nth(J, n) = i) /\ g.reg["LSTPTR"] = Ptr(Place(g, b, r, n))
  BY <1>19
<1>21. n \in Nat /\ (n # 0 => n \in 1..C) BY <1>10
<1>22. \A x \in 1..C : (x <= n => Nth(J, x) <= i) /\ (n < x => i < Nth(J, x))
  <2> SUFFICES ASSUME NEW x \in 1..C PROVE (x <= n => Nth(J, x) <= i) /\ (n < x => i < Nth(J, x)) OBVIOUS
  <2>1. Nth(J, x) \in 1..N BY <1>13
  <2>2. CASE n = 0
    <3>1. ~(x <= n) /\ i = 0 BY <1>20, <2>2
    <3>2. QED BY <1>7, <2>1, <3>1
  <2>3. CASE n # 0
    <3>1. n \in 1..C /\ Nth(J, n) = i BY <1>20, <1>21, <2>3
    <3>2. x = n \/ x < n \/ n < x BY <1>21
    <3>3. x < n => Nth(J, x) < i BY <1>11, <3>1
    <3>4. n < x => i < Nth(J, x) BY <1>11, <3>1
    <3>5. x = n => Nth(J, x) = i BY <3>1
    <3>6. QED BY <1>14, <1>21, <2>1, <3>2, <3>3, <3>4, <3>5
  <2>4. QED BY <2>2, <2>3
<1>23. g.reg["BUKPTR"] = Ptr(At(g, r, n + 1))
  <2>1. CASE i + 1 \in 1..N
    <3>1. s.reg["BUKPTR"] = Ptr(s.heap[q[i + 1]].a) BY <1>7, <1>18, <2>1 DEF At
    <3>2. q[i + 1] \in K /\ g.reg["BUKPTR"] = Ptr(g.heap[NewPlace(K, q[i + 1])].a) BY <1>15, <1>17, <2>1, <3>1
    <3>3. PICK y \in 1..C : Nth(J, y) = i + 1 BY <1>12, <2>1, <3>2
    <3>4. ~(y <= n) BY <1>14, <1>22, <3>3
    <3>5. y \in Nat /\ n + 1 \in 1..C /\ (y = n + 1 \/ n + 1 < y) /\ n < n + 1 BY <1>10, <1>21, <3>4
    <3>6. n + 1 < y => Nth(J, n + 1) < i + 1 BY <1>11, <3>3, <3>5
    <3>7. i < Nth(J, n + 1) /\ Nth(J, n + 1) \in 1..N BY <1>13, <1>22, <3>5
    <3>8. ~(n + 1 < y) BY <1>14, <3>6, <3>7
    <3>9. y = n + 1 BY <3>5, <3>8
    <3>10. At(g, r, n + 1) = g.heap[NewPlace(K, q[i + 1])].a BY <1>8, <1>9, <3>3, <3>5, <3>9 DEF At
    <3>11. QED BY <3>2, <3>10
  <2>2. CASE i + 1 \notin 1..N
    <3>1. s.reg["BUKPTR"] = Ptr(0) BY <1>7, <1>18, <2>2 DEF At
    <3>2. HDSGPT \in Nat /\ HDSGPT # 0 BY DEF StorageAssumption
    <3>3. 0 \in Int /\ 0 < HDSGPT BY <3>2
    <3>4. g.reg["BUKPTR"] = Ptr(0) BY <1>16, <1>17, <3>1, <3>3
    <3>5. n + 1 \notin 1..C
      <4> SUFFICES ASSUME n + 1 \in 1..C PROVE FALSE OBVIOUS
      <4>1. i < Nth(J, n + 1) /\ Nth(J, n + 1) \in 1..N BY <1>13, <1>21, <1>22
      <4>2. QED BY <1>7, <1>14, <2>2, <4>1
    <3>6. QED BY <1>8, <3>4, <3>5 DEF At
  <2>3. QED BY <2>1, <2>2
<1>24. \A x \in 1..C : Asc(g, r[x]) = Asc(s, q[Nth(J, x)]) BY <1>9 DEF Asc
<1>25. \A j \in 1..N : /\ s.heap[q[j]].id # t
                       /\ j <= i => Asc(s, q[j]) <= Hash[t].asc
                       /\ i < j => Hash[t].asc <= Asc(s, q[j])
  BY <1>3, <1>7 DEF Between
<1>26. \A x \in DOMAIN r : /\ g.heap[r[x]].id # t
                           /\ x <= n => Asc(g, r[x]) <= Hash[t].asc
                           /\ n < x => Hash[t].asc <= Asc(g, r[x])
  BY <1>8, <1>9, <1>13, <1>22, <1>24, <1>25
<1>27. n \in 0..Len(r) BY <1>8
<1>28. Between(g, t, r, n) BY <1>6, <1>20, <1>23, <1>26, <1>27 DEF Between
<1>29. QED BY <1>27, <1>28 DEF Absent, g

\* What entering a string does to the blocks.
Entering(s, t, e) ==
  /\ IsState(e) /\ e.stack = s.stack /\ e.reg = [s.reg EXCEPT !["XPTR"] = Free(s)]
  /\ Laid(e.heap) /\ Len(e.heap) = Len(s.heap) + 1 /\ FRSGPT(s.heap) < FRSGPT(e.heap)
  /\ \A k \in DOMAIN s.heap : /\ e.heap[k].a = s.heap[k].a /\ e.heap[k].id = s.heap[k].id
                              /\ e.heap[k].cells = s.heap[k].cells
  /\ e.heap[Len(s.heap) + 1].id = t /\ e.heap[Len(s.heap) + 1].a = FRSGPT(s.heap)
  /\ e.heap[Len(s.heap) + 1].cells = <<Zero, Zero>>

\* The bin with its new string at i + 1, which is block F.
Inserted(q, i, F) == [n \in 1..Len(q) + 1 |-> IF n <= i THEN q[n] ELSE IF n = i + 1 THEN F ELSE q[n - 1]]

LEMMA EnteredIs ==
  ASSUME StorageAssumption, NEW s, Good(s), NEW t \in Strings, NEW q, NEW i, Between(s, t, q, i),
         FRSGPT(s.heap) + 4 + Words[t] <= TLSGP1, NEW e, e = Entered(s, t)
  PROVE /\ Entering(s, t, e) /\ FRSGPT(e.heap) <= TLSGP1 /\ e.bins \in [Bins -> Int]
        /\ \A b \in Bins : e.bins[b] = IF i = 0 /\ b = Hash[t].bin THEN FRSGPT(s.heap) ELSE s.bins[b]
        /\ \A k \in DOMAIN s.heap : e.heap[k].link = IF i # 0 /\ k = q[i] THEN FRSGPT(s.heap) ELSE s.heap[k].link
        /\ e.heap[Len(s.heap) + 1].link = At(s, q, i + 1)
<1> DEFINE h == s.heap
           N == Len(h)
           F == FRSGPT(h)
           b == Hash[t].bin
           l == s.reg["LSTPTR"].a
           d == [a |-> Free(s).a, id |-> t, cells |-> <<Zero, Zero>>, link |-> s.reg["BUKPTR"].a]
           h1 == Append(h, d)
           p == Top(h, l)
           h2 == IF l < 0 THEN h1 ELSE [h1 EXCEPT ![p].link = Free(s).a]
           bs == IF l < 0 THEN [s.bins EXCEPT ![-l] = Free(s).a] ELSE s.bins
<1>0. Laid(h) /\ h \in Seq(BlockOf) /\ N \in Nat /\ DOMAIN h = 1..N /\ BinsOf(s) BY DEF Good, Laid
<1>1. Strung(s, b, q) /\ i \in 0..Len(q) /\ s.reg["LSTPTR"] = Ptr(Place(s, b, q, i)) /\ s.reg["BUKPTR"] = Ptr(At(s, q, i + 1))
  BY DEF Between
<1>2. b \in Bins /\ b \in Nat /\ b > 0 /\ -b \in Int /\ -b < 0 /\ -(-b) = b BY HashType, BinType
<1>3. Len(q) \in Nat /\ DOMAIN q = 1..Len(q) /\ \A j \in DOMAIN q : q[j] \in DOMAIN h BY <1>0, <1>1, StrungShort
<1>4. \A k \in DOMAIN h : Top(h, h[k].a) = k /\ h[k].a \in Int /\ h[k].a > 0 BY <1>0, TopOwn
<1>50. e = [s EXCEPT !.heap = h2, !.bins = bs, !.reg["XPTR"] = Free(s)] BY DEF Entered
<1>5. IsState(e) /\ e.heap = h2 /\ e.bins = bs /\ e.stack = s.stack /\ e.reg = [s.reg EXCEPT !["XPTR"] = Free(s)]
  <2>1. s = [heap |-> s.heap, bins |-> s.bins, reg |-> s.reg, stack |-> s.stack] BY DEF Good, IsState
  <2> DEFINE r == [s.reg EXCEPT !["XPTR"] = Free(s)]
  <2> HIDE DEF h2, bs
  <2>2. e = [s EXCEPT !.heap = h2, !.bins = bs, !.reg = r] BY <1>50
  <2> HIDE DEF r, h
  <2>3. e = [heap |-> h2, bins |-> bs, reg |-> r, stack |-> s.stack] BY <2>1, <2>2
  <2>4. QED BY <2>3 DEF IsState, r
<1>6. Free(s).a = F /\ F \in Int BY <1>0, LaidEnds DEF Free, Ptr
<1>7. l = Place(s, b, q, i) /\ s.reg["BUKPTR"].a = At(s, q, i + 1) BY <1>1 DEF Ptr
<1>8. At(s, q, i + 1) \in Int BY <1>3, <1>4 DEF At
<1>9. d \in BlockOf /\ d.a = F /\ d.id = t /\ d.cells = <<Zero, Zero>> /\ d.link = At(s, q, i + 1)
  <2>1. <<Zero, Zero>> \in Seq(Cell) BY DEF Zero, Cell
  <2>2. d \in BlockOf BY <1>6, <1>7, <1>8, <2>1 DEF BlockOf
  <2>3. QED BY <1>6, <1>7, <2>2
<1>100. Words[t] \in Nat /\ TLSGP1 \in Nat BY DEF StorageAssumption
<1>10. Size(d) = 4 + Words[t] /\ Size(d) \in Nat BY <1>9, SizeType DEF Size
<1> HIDE DEF d
<1>11. /\ Laid(h1) /\ FRSGPT(h1) = F + Size(d) /\ Len(h1) = N + 1 /\ h1[N + 1] = d
       /\ \A k \in DOMAIN h : h1[k] = h[k]
  BY <1>0, <1>9, AppendLaid
<1> HIDE DEF h1, bs, l, h, N, F
<1>12. h1 \in Seq(BlockOf) /\ DOMAIN h1 = 1..N + 1
  <2>1. h1 \in Seq(BlockOf) BY <1>11 DEF Laid
  <2>2. DOMAIN h1 = 1..Len(h1) BY <2>1
  <2>3. QED BY <1>11, <2>1, <2>2
<1>13. \A k \in 1..N + 1 : h1[k] \in BlockOf
  <2>1. \A k \in DOMAIN h1 : h1[k] \in BlockOf BY <1>11, LaidType
  <2>2. QED BY <1>12, <2>1
<1>14. (i = 0 => l = -b /\ l < 0) /\ (i # 0 => ~(l < 0) /\ p = q[i] /\ p \in 1..N)
  <2>1. i = 0 => l = -b BY <1>7 DEF Place
  <2>2. ASSUME i # 0 PROVE ~(l < 0) /\ p = q[i] /\ p \in 1..N
    <3>1. i \in DOMAIN q BY <1>1, <1>3, <2>2
    <3>2. q[i] \in DOMAIN h /\ l = h[q[i]].a BY <1>3, <1>7, <2>2, <3>1 DEF Place, h
    <3>3. QED BY <1>0, <1>4, <3>2
  <2>3. QED BY <1>2, <2>1, <2>2
<1>15. CASE i = 0
  <2>1. h2 = h1 BY <1>14, <1>15
  <2>2. bs = [s.bins EXCEPT ![b] = F] BY <1>2, <1>6, <1>14, <1>15 DEF bs
  <2>3. s.bins \in [Bins -> Int] BY <1>0 DEF BinsOf
  <2>4. bs \in [Bins -> Int] /\ \A x \in Bins : bs[x] = IF x = b THEN F ELSE s.bins[x] BY <1>2, <1>6, <2>2, <2>3
  <2>5. Entering(s, t, e)
    <3>1. F < F + Size(d) BY <1>6, <1>10, SizeType, <1>9
    <3>2. F < FRSGPT(h1) BY <1>11, <3>1
    <3>3. \A k \in DOMAIN h : e.heap[k] = h[k] BY <1>5, <1>11, <2>1
    <3>4. e.heap[N + 1] = d BY <1>5, <1>11, <2>1
    <3>5. QED BY <1>5, <1>9, <1>11, <2>1, <3>2, <3>3, <3>4 DEF Entering, h, N, F
  <2>6. F + Size(d) <= TLSGP1 BY <1>6, <1>10, <1>100 DEF F, h
  <2>7. \A k \in DOMAIN h : e.heap[k].link = h[k].link BY <1>5, <1>11, <2>1
  <2>8. e.heap[N + 1].link = At(s, q, i + 1) BY <1>5, <1>9, <1>11, <2>1
  <2>9. FRSGPT(e.heap) <= TLSGP1 BY <1>5, <1>11, <2>1, <2>6
  <2>10. QED BY <1>5, <1>15, <2>4, <2>5, <2>7, <2>8, <2>9 DEF F, h, N
<1>16. CASE i # 0
  <2>1. h2 = [h1 EXCEPT ![p].link = F] BY <1>6, <1>14, <1>16
  <2>2. bs = s.bins BY <1>14, <1>16 DEF bs
  <2>3. p \in 1..N + 1 /\ p # N + 1 /\ p \in 1..N BY <1>0, <1>14, <1>16
  <2>4. h1 = [k \in 1..N + 1 |-> h1[k]] BY <1>12
  <2>5. \A k \in 1..N + 1 : h2[k] = IF k = p THEN [h1[k] EXCEPT !.link = F] ELSE h1[k] BY <1>12, <2>1, <2>3
  <2>6. DOMAIN h2 = 1..N + 1 /\ h2 = [k \in 1..N + 1 |-> h2[k]] BY <1>12, <2>1
  <2> HIDE DEF h2, p
  <2>7. \A k \in 1..N + 1 : h2[k] \in BlockOf /\ h2[k].a = h1[k].a /\ h2[k].id = h1[k].id /\ h2[k].cells = h1[k].cells
                            /\ h2[k].link = IF k = p THEN F ELSE h1[k].link
    <3> SUFFICES ASSUME NEW k \in 1..N + 1
                 PROVE h2[k] \in BlockOf /\ h2[k].a = h1[k].a /\ h2[k].id = h1[k].id /\ h2[k].cells = h1[k].cells
                       /\ h2[k].link = IF k = p THEN F ELSE h1[k].link
      OBVIOUS
    <3> DEFINE x == h1[k]
               y == h2[k]
    <3>1. x \in BlockOf /\ y = IF k = p THEN [x EXCEPT !.link = F] ELSE x BY <1>13, <2>5
    <3> HIDE DEF x, y
    <3>2. y \in BlockOf /\ y.a = x.a /\ y.id = x.id /\ y.cells = x.cells /\ y.link = IF k = p THEN F ELSE x.link
      BY <1>6, <3>1 DEF BlockOf
    <3>3. QED BY <3>2 DEF x, y
  <2>8. h2 \in Seq(BlockOf) /\ Len(h2) = N + 1
    <3>1. N + 1 \in Nat /\ \A k \in 1..N + 1 : h2[k] \in BlockOf BY <1>0, <2>7
    <3>2. [k \in 1..N + 1 |-> h2[k]] \in Seq(BlockOf) /\ Len([k \in 1..N + 1 |-> h2[k]]) = N + 1 BY <3>1
    <3>3. QED BY <2>6, <3>2
  <2>9. Alike(h1, h2) BY <1>11, <1>12, <2>7, <2>8 DEF Alike
  <2>10. Laid(h2) /\ FRSGPT(h2) = FRSGPT(h1) BY <1>11, <2>9, AlikeLaid
  <2>11. \A k \in DOMAIN h : h2[k].a = h[k].a /\ h2[k].id = h[k].id /\ h2[k].cells = h[k].cells
                             /\ h2[k].link = IF k = p THEN F ELSE h[k].link
    <3>1. \A k \in DOMAIN h : k \in 1..N + 1 BY <1>0
    <3>2. QED BY <1>11, <2>7, <3>1
  <2>12. h2[N + 1].id = t /\ h2[N + 1].a = F /\ h2[N + 1].cells = <<Zero, Zero>> /\ h2[N + 1].link = At(s, q, i + 1)
    <3>1. N + 1 \in 1..N + 1 BY <1>0
    <3>2. QED BY <1>9, <1>11, <2>3, <2>7, <3>1
  <2>13. F < FRSGPT(h2) /\ FRSGPT(h2) <= TLSGP1
    <3>1. Size(d) >= 1 BY <1>9, SizeType
    <3>2. F < F + Size(d) BY <1>6, <1>10, <3>1
    <3>3. F + Size(d) <= TLSGP1 BY <1>6, <1>10, <1>100 DEF F, h
    <3>4. QED BY <1>11, <2>10, <3>2, <3>3
  <2>14. Entering(s, t, e) BY <1>5, <2>8, <2>10, <2>11, <2>12, <2>13 DEF Entering, h, N, F
  <2>15. s.bins \in [Bins -> Int] BY <1>0 DEF BinsOf
  <2>16. p = q[i] BY <1>14, <1>16
  <2>17. QED BY <1>5, <1>16, <2>2, <2>11, <2>12, <2>13, <2>14, <2>15, <2>16 DEF h, N, F
<1>17. QED BY <1>15, <1>16

LEMMA InsertedStrung ==
  ASSUME StorageAssumption, NEW s, Good(s), NEW t \in Strings, NEW q, NEW i, Between(s, t, q, i),
         FRSGPT(s.heap) + 4 + Words[t] <= TLSGP1, NEW e, e = Entered(s, t)
  PROVE Strung(e, Hash[t].bin, Inserted(q, i, Len(s.heap) + 1))
<1> DEFINE b == Hash[t].bin
           M == Len(q)
           N == Len(s.heap)
           F == FRSGPT(s.heap)
           r == Inserted(q, i, N + 1)
<1>0. Laid(s.heap) /\ s.heap \in Seq(BlockOf) /\ N \in Nat /\ DOMAIN s.heap = 1..N BY DEF Good, Laid
<1>1. Strung(s, b, q) /\ i \in 0..M BY DEF Between
<1>2. /\ \A j \in DOMAIN q : s.heap[q[j]].id # t /\ (j <= i => Asc(s, q[j]) <= Hash[t].asc) /\ (i < j => Hash[t].asc <= Asc(s, q[j]))
  BY DEF Between
<1>3. M \in Nat /\ DOMAIN q = 1..M /\ \A j \in 1..M : q[j] \in 1..N BY <1>0, <1>1, StrungShort
<1>4. b \in Bins BY HashType
<1>5. /\ Entering(s, t, e)
      /\ \A x \in Bins : e.bins[x] = IF i = 0 /\ x = b THEN F ELSE s.bins[x]
      /\ \A k \in DOMAIN s.heap : e.heap[k].link = IF i # 0 /\ k = q[i] THEN F ELSE s.heap[k].link
      /\ e.heap[N + 1].link = At(s, q, i + 1)
  BY EnteredIs
<1>6. e.heap \in Seq(BlockOf) /\ Len(e.heap) = N + 1 BY <1>5 DEF Entering, Laid
<1>7. DOMAIN e.heap = 1..N + 1 BY <1>0, <1>6
<1>8. /\ \A k \in 1..N : e.heap[k].a = s.heap[k].a /\ e.heap[k].id = s.heap[k].id
      /\ e.heap[N + 1].id = t /\ e.heap[N + 1].a = F
  BY <1>0, <1>5 DEF Entering
<1>9. \A j \in 1..M : q[j] \in OfBin(s, b) BY <1>1, <1>3 DEF Strung
<1>10. \A j \in 1..M : s.heap[q[j]].link = At(s, q, j + 1) BY <1>1, <1>3 DEF Strung
<1>11. \A j, l \in 1..M : j < l => q[j] # q[l] /\ Asc(s, q[j]) <= Asc(s, q[l]) BY <1>1, <1>3 DEF Strung
<1> HIDE DEF M, N, r, F
<1>12. i \in Nat /\ i <= M BY <1>1, <1>3
<1>13. DOMAIN r = 1..M + 1 /\ \A n \in 1..M + 1 : r[n] = IF n <= i THEN q[n] ELSE IF n = i + 1 THEN N + 1 ELSE q[n - 1]
  BY DEF r, Inserted, M
<1>14. \A n \in 1..M + 1 : (n <= i /\ n \in 1..M) \/ n = i + 1 \/ (n > i + 1 /\ n - 1 \in 1..M /\ n - 1 > i) BY <1>3, <1>12
<1>140. i + 1 \in 1..M + 1 /\ ~(i + 1 <= i) BY <1>3, <1>12
<1>141. \A n \in 1..M + 1 : n > i + 1 => ~(n <= i) /\ n # i + 1 BY <1>12
<1>15. \A n \in 1..M + 1 : /\ n <= i => n \in 1..M /\ r[n] = q[n]
                           /\ n > i + 1 => n - 1 \in 1..M /\ n - 1 > i /\ r[n] = q[n - 1]
  BY <1>3, <1>12, <1>13, <1>14, <1>141
<1>16. r[i + 1] = N + 1 BY <1>13, <1>140
<1>17. r \in Seq(DOMAIN e.heap)
  <2>1. N + 1 \in 1..N + 1 /\ \A k \in 1..N : k \in 1..N + 1 BY <1>0
  <2>2. \A n \in 1..M + 1 : r[n] \in 1..N + 1 BY <1>3, <1>14, <1>15, <1>16, <2>1
  <2>3. r = [n \in 1..M + 1 |-> r[n]] BY <1>13 DEF r, Inserted, M
  <2>4. M + 1 \in Nat BY <1>3
  <2> DEFINE L == M + 1
             X == 1..N + 1
  <2>7. r \in [1..L -> X] BY <2>2, <2>3
  <2>8. L \in Nat BY <2>4
  <2> HIDE DEF L, X
  <2>9. r \in Seq(X) BY <2>7, <2>8
  <2>5. r \in Seq(1..N + 1) BY <2>9 DEF X
  <2>6. QED BY <1>7, <2>5
<1>18. t \in Strings /\ N + 1 \in OfBin(e, b)
  <2>1. N + 1 \in 1..N + 1 BY <1>0
  <2>2. QED BY <1>7, <1>8, <2>1 DEF OfBin
<1>19. \A k \in 1..N : k \in OfBin(e, b) <=> k \in OfBin(s, b)
  <2>1. \A k \in 1..N : k \in 1..N + 1 BY <1>0
  <2>2. QED BY <1>0, <1>7, <1>8, <2>1 DEF OfBin
<1>20. \A n \in 1..M + 1 : r[n] \in OfBin(e, b) BY <1>3, <1>9, <1>14, <1>15, <1>16, <1>18, <1>19
<1>21. \A k \in OfBin(e, b) : \E n \in 1..M + 1 : r[n] = k
  <2> SUFFICES ASSUME NEW k \in OfBin(e, b) PROVE \E n \in 1..M + 1 : r[n] = k OBVIOUS
  <2>1. k \in 1..N + 1 BY <1>7 DEF OfBin
  <2>2. CASE k = N + 1 BY <1>16, <1>140, <2>2
  <2>3. CASE k # N + 1
    <3>1. k \in 1..N BY <1>0, <2>1, <2>3
    <3>2. k \in OfBin(s, b) BY <1>19, <3>1
    <3>3. PICK j \in 1..M : q[j] = k BY <1>1, <1>3, <3>2 DEF Strung
    <3>4. CASE j <= i
      <4>1. j \in 1..M + 1 BY <1>3
      <4>2. r[j] = k BY <1>15, <3>3, <3>4, <4>1
      <4>3. QED BY <4>1, <4>2
    <3>5. CASE ~(j <= i)
      <4>1. j + 1 \in 1..M + 1 /\ j + 1 > i + 1 /\ j + 1 - 1 = j BY <1>3, <1>12, <3>5
      <4>2. r[j + 1] = k BY <1>15, <3>3, <4>1
      <4>3. QED BY <4>1, <4>2
    <3>6. QED BY <3>4, <3>5
  <2>4. QED BY <2>2, <2>3
<1>22. /\ Asc(e, N + 1) = Hash[t].asc /\ \A k \in 1..N : Asc(e, k) = Asc(s, k) BY <1>8 DEF Asc
<1>23. Hash[t].asc \in Nat /\ \A j \in 1..M : Asc(s, q[j]) \in Nat
  <2>1. \A j \in 1..M : s.heap[q[j]].id \in Strings BY <1>9 DEF OfBin
  <2>2. QED BY <2>1, HashType DEF Asc
<1>24. ASSUME NEW n1 \in 1..M + 1, NEW n2 \in 1..M + 1, n1 < n2 PROVE r[n1] # r[n2] /\ Asc(e, r[n1]) <= Asc(e, r[n2])
  <2>0. \A j \in 1..M : q[j] # N + 1 /\ Asc(e, q[j]) = Asc(s, q[j]) BY <1>0, <1>3, <1>22
  <2>1. CASE n2 <= i
    <3>1. n1 <= i BY <2>1, <1>12, <1>24
    <3>2. r[n1] = q[n1] /\ r[n2] = q[n2] /\ n1 \in 1..M /\ n2 \in 1..M BY <1>15, <2>1, <3>1
    <3>3. QED BY <1>11, <1>24, <2>0, <3>2
  <2>2. CASE n2 = i + 1
    <3>1. n1 <= i BY <2>2, <1>12, <1>24
    <3>2. r[n1] = q[n1] /\ n1 \in 1..M /\ r[n2] = N + 1 BY <1>15, <1>16, <2>2, <3>1
    <3>3. Asc(s, q[n1]) <= Hash[t].asc BY <1>2, <1>3, <3>1, <3>2
    <3>4. QED BY <1>22, <2>0, <3>2, <3>3
  <2>3. CASE n2 > i + 1
    <3>1. r[n2] = q[n2 - 1] /\ n2 - 1 \in 1..M /\ n2 - 1 > i BY <1>15, <2>3
    <3>2. CASE n1 <= i
      <4>1. r[n1] = q[n1] /\ n1 \in 1..M /\ n1 < n2 - 1 BY <1>15, <1>12, <3>1, <3>2
      <4>2. QED BY <1>11, <2>0, <3>1, <4>1
    <3>3. CASE n1 = i + 1
      <4>1. r[n1] = N + 1 BY <1>16, <3>3
      <4>2. i < n2 - 1 BY <1>12, <3>1
      <4>3. Hash[t].asc <= Asc(s, q[n2 - 1]) BY <1>2, <1>3, <3>1, <4>2
      <4>4. QED BY <1>22, <2>0, <3>1, <4>1, <4>3
    <3>4. CASE n1 > i + 1
      <4>1. r[n1] = q[n1 - 1] /\ n1 - 1 \in 1..M /\ n1 - 1 < n2 - 1 BY <1>15, <1>24, <3>4
      <4>2. QED BY <1>11, <2>0, <3>1, <4>1
    <3>5. QED BY <1>12, <3>2, <3>3, <3>4
  <2>4. QED BY <1>12, <2>1, <2>2, <2>3
<1>25. \A n \in 1..M + 1 : n \in DOMAIN r BY <1>13
<1>26. ASSUME NEW n \in 1..M PROVE n <= i => At(e, r, n) = At(s, q, n)
  <2>1. n \in 1..M + 1 BY <1>3
  <2>2. QED BY <1>3, <1>8, <1>15, <1>25, <2>1 DEF At
<1>27. At(e, r, i + 1) = F BY <1>8, <1>16, <1>25, <1>140 DEF At
<1>28. ASSUME NEW n \in Nat, n > i + 1 PROVE At(e, r, n) = At(s, q, n - 1)
  <2>1. CASE n \in 1..M + 1
    <3>1. n - 1 \in 1..M /\ r[n] = q[n - 1] BY <1>15, <1>28, <2>1
    <3>2. QED BY <1>3, <1>8, <1>25, <2>1, <3>1 DEF At
  <2>2. CASE n \notin 1..M + 1
    <3>1. n - 1 \notin 1..M BY <1>3, <2>2
    <3>2. QED BY <1>3, <1>13, <2>2, <3>1 DEF At
  <2>3. QED BY <2>1, <2>2
<1>29. e.bins[b] = At(e, r, 1)
  <2>1. CASE i = 0 BY <1>4, <1>5, <1>27, <2>1 DEF F
  <2>2. CASE i # 0
    <3>1. 1 \in 1..M /\ 1 <= i BY <1>3, <1>12, <2>2
    <3>2. At(e, r, 1) = At(s, q, 1) BY <1>26, <3>1
    <3>3. s.bins[b] = At(s, q, 1) BY <1>1 DEF Strung
    <3>4. QED BY <1>4, <1>5, <2>2, <3>2, <3>3
  <2>3. QED BY <2>1, <2>2
<1>30. ASSUME NEW n \in 1..M + 1 PROVE e.heap[r[n]].link = At(e, r, n + 1)
  <2>0. \A j \in 1..M : q[j] \in DOMAIN s.heap BY <1>0, <1>3 DEF N
  <2>1. CASE n <= i
    <3>1. r[n] = q[n] /\ n \in 1..M BY <1>15, <2>1
    <3>2. CASE n = i
      <4>1. i # 0 BY <3>1, <3>2
      <4>2. e.heap[q[n]].link = F BY <1>5, <2>0, <3>1, <3>2, <4>1 DEF F
      <4>3. QED BY <1>27, <3>1, <3>2, <4>2
    <3>3. CASE n # i
      <4>1. n < i /\ i \in 1..M /\ n + 1 \in 1..M /\ n + 1 <= i BY <1>12, <1>3, <2>1, <3>1, <3>3
      <4>2. q[n] # q[i] BY <1>11, <3>1, <4>1
      <4>3. e.heap[q[n]].link = s.heap[q[n]].link BY <1>5, <2>0, <3>1, <4>2
      <4>4. QED BY <1>10, <1>26, <3>1, <4>1, <4>3
    <3>4. QED BY <3>2, <3>3
  <2>2. CASE n = i + 1
    <3>1. e.heap[r[n]].link = At(s, q, i + 1) BY <1>5, <1>16, <2>2 DEF N
    <3>2. n + 1 \in Nat /\ n + 1 > i + 1 /\ n + 1 - 1 = i + 1 BY <1>12, <2>2
    <3>3. QED BY <1>28, <3>1, <3>2
  <2>3. CASE n > i + 1
    <3>1. r[n] = q[n - 1] /\ n - 1 \in 1..M /\ n - 1 > i BY <1>15, <2>3
    <3>2. i # 0 => q[i] # q[n - 1]
      <4>1. i # 0 => i \in 1..M /\ i < n - 1 BY <1>3, <1>12, <3>1
      <4>2. QED BY <1>11, <3>1, <4>1
    <3>3. e.heap[q[n - 1]].link = s.heap[q[n - 1]].link BY <1>5, <2>0, <3>1, <3>2
    <3>4. n + 1 \in Nat /\ n + 1 > i + 1 /\ n + 1 - 1 = n /\ n - 1 + 1 = n BY <1>12, <2>3
    <3>5. At(e, r, n + 1) = At(s, q, n) BY <1>28, <3>4
    <3>6. s.heap[q[n - 1]].link = At(s, q, n) BY <1>10, <3>1, <3>4
    <3>7. QED BY <3>1, <3>3, <3>5, <3>6
  <2>4. QED BY <1>12, <2>1, <2>2, <2>3
<1>31. Strung(e, b, r) BY <1>13, <1>17, <1>20, <1>21, <1>24, <1>29, <1>30 DEF Strung
<1>32. QED BY <1>31 DEF r, N

LEMMA EnteredGood ==
  ASSUME StorageAssumption, NEW s, Good(s), NEW t \in Strings, Absent(s, t),
         FRSGPT(s.heap) + 4 + Words[t] <= TLSGP1, NEW e, e = Entered(s, t)
  PROVE Good(e) /\ Entering(s, t, e)
<1> DEFINE N == Len(s.heap)
<1>00. PICK q : \E i \in 0..Len(q) : Between(s, t, q, i) BY DEF Absent
<1>0. PICK i \in 0..Len(q) : Between(s, t, q, i) BY <1>00
<1>1. /\ Entering(s, t, e) /\ FRSGPT(e.heap) <= TLSGP1 /\ e.bins \in [Bins -> Int]
      /\ \A b \in Bins : e.bins[b] = IF i = 0 /\ b = Hash[t].bin THEN FRSGPT(s.heap) ELSE s.bins[b]
      /\ \A k \in DOMAIN s.heap : e.heap[k].link = IF i # 0 /\ k = q[i] THEN FRSGPT(s.heap) ELSE s.heap[k].link
  BY <1>0, EnteredIs
<1>2. Strung(s, Hash[t].bin, q) BY <1>0 DEF Between
<1>3. Laid(s.heap) /\ s.heap \in Seq(BlockOf) /\ N \in Nat /\ DOMAIN s.heap = 1..N /\ BinsOf(s) /\ IdsOf(s.heap) /\ CellsOf(s.heap)
  <2>1. Laid(s.heap) /\ BinsOf(s) /\ IdsOf(s.heap) /\ CellsOf(s.heap) BY DEF Good
  <2>2. s.heap \in Seq(BlockOf) BY <2>1 DEF Laid
  <2>3. QED BY <2>1, <2>2
<1>4. Laid(e.heap) /\ Len(e.heap) = N + 1 /\ FRSGPT(s.heap) < FRSGPT(e.heap) BY <1>1 DEF Entering
<1>5. e.heap \in Seq(BlockOf) BY <1>4 DEF Laid
<1>6. DOMAIN e.heap = 1..N + 1 BY <1>4, <1>5
<1>7. /\ \A k \in 1..N : e.heap[k].a = s.heap[k].a /\ e.heap[k].id = s.heap[k].id /\ e.heap[k].cells = s.heap[k].cells
      /\ e.heap[N + 1].id = t /\ e.heap[N + 1].a = FRSGPT(s.heap) /\ e.heap[N + 1].cells = <<Zero, Zero>>
  BY <1>1, <1>3 DEF Entering
<1> HIDE DEF N
<1>8. \A k \in 1..N + 1 : k \in 1..N \/ k = N + 1 BY <1>3
<1>9. FRSGPT(s.heap) \in Int /\ FRSGPT(e.heap) \in Int BY <1>3, <1>4, LaidEnds
<1>10. \A c : Held(s.heap, c) => Held(e.heap, c)
  <2>1. FRSGPT(s.heap) <= FRSGPT(e.heap) BY <1>4, <1>9
  <2>2. QED BY <1>3, <1>4, <2>1, HeldMore
<1>11. Held(e.heap, Free(s)) /\ Free(s) \in Cell BY <1>4, <1>9 DEF Held, Free, Ptr, Cell
<1>12. Held(e.heap, Zero) BY DEF Held, Zero, Cell, In
<1>13. CellsOf(e.heap)
  <2> SUFFICES ASSUME NEW k \in 1..N + 1
               PROVE /\ e.heap[k].id \in Strings => Len(e.heap[k].cells) = 2
                     /\ \A j \in DOMAIN e.heap[k].cells : Held(e.heap, e.heap[k].cells[j])
    BY <1>6 DEF CellsOf
  <2>1. CASE k \in 1..N BY <1>3, <1>7, <1>10, <2>1 DEF CellsOf
  <2>2. CASE k = N + 1
    <3>1. e.heap[k].cells = <<Zero, Zero>> BY <1>7, <2>2
    <3>2. Len(<<Zero, Zero>>) = 2 /\ DOMAIN <<Zero, Zero>> = 1..2 /\ \A j \in 1..2 : <<Zero, Zero>>[j] = Zero OBVIOUS
    <3>3. QED BY <1>12, <3>1, <3>2
  <2>3. QED BY <1>8, <2>1, <2>2
<1>14. \A k \in 1..N : s.heap[k].id # t
  <2> SUFFICES ASSUME NEW k \in 1..N, s.heap[k].id = t PROVE FALSE OBVIOUS
  <2>1. k \in OfBin(s, Hash[t].bin) BY <1>3 DEF OfBin
  <2>2. PICK j \in DOMAIN q : q[j] = k BY <1>2, <2>1 DEF Strung
  <2>3. QED BY <1>0, <2>2 DEF Between
<1>15. IdsOf(e.heap)
  <2> SUFFICES ASSUME NEW j \in 1..N + 1, NEW k \in 1..N + 1, e.heap[j].id = e.heap[k].id PROVE j = k
    BY <1>6 DEF IdsOf
  <2>1. \A x, y \in 1..N : s.heap[x].id = s.heap[y].id => x = y BY <1>3 DEF IdsOf
  <2>2. QED BY <1>7, <1>8, <1>14, <2>1
<1>16. ASSUME NEW b \in Bins PROVE \E r : Strung(e, b, r)
  <2>1. CASE b = Hash[t].bin BY <1>0, <2>1, InsertedStrung
  <2>2. CASE b # Hash[t].bin
    <3>1. PICK r : Strung(s, b, r) BY <1>3 DEF BinsOf
    <3> DEFINE g == [k \in DOMAIN s.heap |-> k]
    <3>2. \A k \in DOMAIN s.heap : k \in DOMAIN e.heap BY <1>3, <1>6
    <3>3. g \in [DOMAIN s.heap -> DOMAIN e.heap] /\ \A k \in DOMAIN s.heap : g[k] = k BY <3>2
    <3> HIDE DEF g
    <3>4. e.bins[b] = s.bins[b] BY <1>1, <2>2
    <3>5. \A k \in DOMAIN s.heap : e.heap[g[k]].id = s.heap[k].id /\ e.heap[g[k]].a = s.heap[k].a BY <1>3, <1>7, <3>3
    <3>6. \A k \in OfBin(s, b) : e.heap[g[k]].link = s.heap[k].link
      <4> SUFFICES ASSUME NEW k \in OfBin(s, b) PROVE e.heap[k].link = s.heap[k].link BY <3>3 DEF OfBin
      <4>1. i # 0 => q[i] \in OfBin(s, Hash[t].bin)
        <5>1. Len(q) \in Nat /\ DOMAIN q = 1..Len(q) BY <1>2, <1>3, StrungShort
        <5>2. i # 0 => i \in DOMAIN q BY <5>1
        <5>3. QED BY <1>2, <5>2 DEF Strung
      <4>2. i # 0 => k # q[i] BY <2>2, <4>1 DEF OfBin
      <4>3. k \in DOMAIN s.heap BY DEF OfBin
      <4>4. QED BY <1>1, <4>2, <4>3
    <3>7. \A k, l \in DOMAIN s.heap : g[k] = g[l] => k = l BY <3>3
    <3>8. \A l \in OfBin(e, b) : \E k \in DOMAIN s.heap : g[k] = l
      <4> SUFFICES ASSUME NEW l \in OfBin(e, b) PROVE l \in DOMAIN s.heap BY <3>3
      <4>1. l \in 1..N + 1 /\ Hash[e.heap[l].id].bin = b BY <1>6 DEF OfBin
      <4>2. l # N + 1 BY <1>7, <2>2, <4>1
      <4>3. QED BY <1>3, <1>8, <4>1, <4>2
    <3>11. s.heap \in Seq(BlockOf) BY <1>3
    <3>12. g \in [DOMAIN s.heap -> DOMAIN e.heap] BY <3>3
    <3>13. MappedBin(s, e, b, g) BY <3>12, <3>4, <3>5, <3>6, <3>7, <3>8 DEF MappedBin
    <3>9. Strung(e, b, Across(r, g)) BY <3>1, <3>11, <3>13, StrungMapped
    <3>10. QED BY <3>9
  <2>3. QED BY <2>1, <2>2
<1>17. BinsOf(e) BY <1>1, <1>16 DEF BinsOf
<1>18. e.reg \in [Regs -> Cell] /\ \A x \in Regs : Held(e.heap, e.reg[x])
  <2>1. e.reg = [s.reg EXCEPT !["XPTR"] = Free(s)] BY <1>1 DEF Entering
  <2>2. s.reg \in [Regs -> Cell] /\ \A x \in Regs : Held(s.heap, s.reg[x]) BY DEF Good
  <2>3. QED BY <1>10, <1>11, <2>1, <2>2
<1>19. e.stack \in Seq(Cell) /\ \A j \in DOMAIN e.stack : Held(e.heap, e.stack[j])
  <2>1. e.stack = s.stack BY <1>1 DEF Entering
  <2>2. QED BY <1>10, <2>1 DEF Good
<1>20. IsState(e) BY <1>1 DEF Entering
<1>21. QED BY <1>1, <1>4, <1>13, <1>15, <1>17, <1>18, <1>19, <1>20 DEF Good

------------------------------------------------------------------------------
\* The inductive invariant: storage is in order, BRKTB is the table of the string
\* TBLBCS names, OCBSCL and a saved code base name a block of code from its start.
Table(s, brk) == In(s.reg["TBLBCS"]) => brk \in Strings /\ s.heap[Top(s.heap, s.reg["TBLBCS"].a)].id = brk
AtCode(h, c)  == In(c) => h[Top(h, c.a)].a = c.a /\ h[Top(h, c.a)].id \in Ids
Saved(h, x)   == /\ x = [c |-> x.c, of |-> x.of] /\ x.c \in Cell
                 /\ (x.c.p => In(x.c) /\ Held(h, x.c) /\ AtCode(h, x.c) /\ h[Top(h, x.c.a)].id = x.of)
Sound(s, brk, x) ==
  /\ Good(s) /\ Len(s.stack) <= MaxStack
  /\ Table(s, brk) /\ AtCode(s.heap, s.reg["OCBSCL"]) /\ Saved(s.heap, x)
Inv == Sound(m, brktb, xocbsc)

LEMMA HeldIn ==
  ASSUME StorageAssumption, NEW h, Laid(h), NEW c, Held(h, c), In(c)
  PROVE /\ c.a \in Int /\ Top(h, c.a) \in DOMAIN h /\ h[Top(h, c.a)].a <= c.a
        /\ c.a < h[Top(h, c.a)].a + Size(h[Top(h, c.a)])
<1>1. c.a \in Int /\ HDSGPT <= c.a /\ c.a < FRSGPT(h) BY DEF Held, In, Cell, StorageAssumption
<1>2. QED BY <1>1, TopIn

\* Blocks that stay where they are, though they may lose what is behind.
Stays(h, g) ==
  /\ Laid(g) /\ FRSGPT(h) <= FRSGPT(g)
  /\ \A k \in DOMAIN h : \E j \in DOMAIN g : g[j].a = h[k].a /\ g[j].id = h[k].id

LEMMA StaysAtCode ==
  ASSUME StorageAssumption, NEW h, Laid(h), NEW g, Stays(h, g), NEW c, Held(h, c), AtCode(h, c)
  PROVE Held(g, c) /\ AtCode(g, c) /\ (In(c) => g[Top(g, c.a)].id = h[Top(h, c.a)].id)
<1>1. Laid(g) /\ FRSGPT(h) <= FRSGPT(g) BY DEF Stays
<1>2. Held(g, c) BY <1>1, HeldMore
<1>3. CASE In(c)
  <2> DEFINE k == Top(h, c.a)
  <2>1. k \in DOMAIN h /\ h[k].a = c.a /\ h[k].id \in Ids BY <1>3, HeldIn DEF AtCode
  <2> HIDE DEF k
  <2>2. PICK j \in DOMAIN g : g[j].a = h[k].a /\ g[j].id = h[k].id BY <2>1 DEF Stays
  <2>3. Top(g, g[j].a) = j BY <1>1, TopOwn
  <2>4. QED BY <1>2, <2>1, <2>2, <2>3 DEF AtCode, k
<1>4. CASE ~In(c) BY <1>2, <1>4 DEF AtCode
<1>5. QED BY <1>3, <1>4

LEMMA StaysSound ==
  ASSUME StorageAssumption, NEW s, NEW brk, NEW x, Sound(s, brk, x), NEW t, Good(t), Len(t.stack) <= MaxStack,
         Stays(s.heap, t.heap), t.reg["TBLBCS"] = s.reg["TBLBCS"], t.reg["OCBSCL"] = s.reg["OCBSCL"]
  PROVE Sound(t, brk, x)
<1>1. Good(s) /\ Table(s, brk) /\ AtCode(s.heap, s.reg["OCBSCL"]) /\ Saved(s.heap, x) BY DEF Sound
<1>2. Laid(s.heap) /\ \A y \in Regs : Held(s.heap, s.reg[y]) BY <1>1 DEF Good
<1>3. "TBLBCS" \in Regs /\ "OCBSCL" \in Regs BY DEF Regs
<1>4. Laid(t.heap) BY DEF Stays
<1>5. Table(t, brk)
  <2> DEFINE c == s.reg["TBLBCS"]
             k == Top(s.heap, c.a)
  <2> SUFFICES ASSUME In(c) PROVE brk \in Strings /\ t.heap[Top(t.heap, c.a)].id = brk BY DEF Table
  <2>1. brk \in Strings /\ s.heap[k].id = brk BY <1>1 DEF Table
  <2>2. Held(s.heap, c) BY <1>2, <1>3
  <2> HIDE DEF c
  <2>3. c.a \in Int /\ k \in DOMAIN s.heap /\ s.heap[k].a <= c.a /\ c.a < s.heap[k].a + Size(s.heap[k])
    BY <1>2, <2>2, HeldIn
  <2> HIDE DEF k
  <2>4. PICK j \in DOMAIN t.heap : t.heap[j].a = s.heap[k].a /\ t.heap[j].id = s.heap[k].id BY <2>3 DEF Stays
  <2>5. Size(t.heap[j]) = Size(s.heap[k]) BY <2>1, <2>4 DEF Size
  <2>6. Top(t.heap, c.a) = j BY <1>4, <2>3, <2>4, <2>5, TopIs
  <2>7. QED BY <2>1, <2>4, <2>6
<1>6. AtCode(t.heap, t.reg["OCBSCL"]) BY <1>1, <1>2, <1>3, StaysAtCode
<1>7. Saved(t.heap, x)
  <2>1. x = [c |-> x.c, of |-> x.of] /\ x.c \in Cell BY <1>1 DEF Saved
  <2>2. ASSUME x.c.p PROVE In(x.c) /\ Held(t.heap, x.c) /\ AtCode(t.heap, x.c) /\ t.heap[Top(t.heap, x.c.a)].id = x.of
    <3>1. In(x.c) /\ Held(s.heap, x.c) /\ AtCode(s.heap, x.c) /\ s.heap[Top(s.heap, x.c.a)].id = x.of BY <1>1, <2>2 DEF Saved
    <3>2. QED BY <1>2, <3>1, StaysAtCode
  <2>3. QED BY <2>1, <2>2 DEF Saved
<1>8. QED BY <1>5, <1>6, <1>7 DEF Sound

\* A regeneration keeps both, when no code base is saved.
LEMMA GCSound ==
  ASSUME StorageAssumption, NEW s, NEW brk, NEW x, Sound(s, brk, x), ~x.c.p
  PROVE Sound(GC(s), brk, x)
<1> DEFINE K == Marked(s)
           t == GC(s)
<1>1. Good(s) /\ Table(s, brk) /\ AtCode(s.heap, s.reg["OCBSCL"]) /\ Saved(s.heap, x) /\ Len(s.stack) <= MaxStack BY DEF Sound
<1>2. Good(t) /\ Regenerated(s, t) BY <1>1, GCGood, GCRegenerates
<1> HIDE DEF t, K
<1>3. \A y \in Regs : Follows(s, K, s.reg[y], t.heap, t.reg[y]) BY <1>2 DEF Regenerated, K
<1>4. "TBLBCS" \in Regs /\ "OCBSCL" \in Regs BY DEF Regs
<1>5. Table(t, brk) BY <1>1, <1>3, <1>4 DEF Table, Follows
<1>6. AtCode(t.heap, t.reg["OCBSCL"])
  <2> DEFINE c == s.reg["OCBSCL"]
             d == t.reg["OCBSCL"]
             k == Top(s.heap, c.a)
             j == Top(t.heap, d.a)
  <2> SUFFICES ASSUME In(d) PROVE t.heap[j].a = d.a /\ t.heap[j].id \in Ids BY DEF AtCode
  <2>1. Follows(s, K, c, t.heap, d) BY <1>3, <1>4
  <2>2. In(c) /\ j \in DOMAIN t.heap /\ t.heap[j].id = s.heap[k].id /\ d.a - t.heap[j].a = c.a - s.heap[k].a
    BY <2>1 DEF Follows
  <2>3. s.heap[k].a = c.a /\ s.heap[k].id \in Ids BY <1>1, <2>2 DEF AtCode
  <2>4. d \in Cell /\ c \in Cell BY <1>1, <1>2, <1>4 DEF Good
  <2>5. t.heap[j].a \in Int BY <1>2, <2>2, TopOwn DEF Good
  <2> HIDE DEF c, d, j, k
  <2>6. d.a \in Int /\ c.a \in Int BY <2>4 DEF Cell
  <2>7. d.a - t.heap[j].a = 0 BY <2>2, <2>3, <2>6
  <2>8. QED BY <2>2, <2>3, <2>5, <2>6, <2>7
<1>7. Len(t.stack) <= MaxStack BY <1>1, <1>2 DEF Regenerated
<1>8. Saved(t.heap, x) BY <1>1 DEF Saved
<1>9. QED BY <1>2, <1>5, <1>6, <1>7, <1>8 DEF Sound, t

LEMMA Becomes ==
  ASSUME NEW t, Sound(t, brktb', xocbsc'), Become(t)
  PROVE Inv'
<1> DEFINE u == m'
<1>1. u.heap = t.heap /\ u.bins = t.bins /\ u.reg = t.reg /\ u.stack = t.stack /\ IsState(u) BY DEF m, Become, IsState
<1> HIDE DEF u
<1>2. Good(t) BY DEF Sound
<1>3. t.reg \in [Regs -> Cell] /\ \A x \in Regs : Held(t.heap, t.reg[x]) BY <1>2 DEF Good
<1>4. t.stack \in Seq(Cell) /\ \A i \in DOMAIN t.stack : Held(t.heap, t.stack[i]) BY <1>2 DEF Good
<1>5. Good(u) BY <1>1, <1>2, <1>3, <1>4, GoodSame
<1>6. Sound(u, brktb', xocbsc') BY <1>1, <1>5 DEF Sound, Table
<1>7. QED BY <1>6 DEF u, Inv

LEMMA AllocateSound ==
  ASSUME StorageAssumption, ~Stale, NEW s, NEW n, NEW new, Sound(s, brktb, xocbsc), Allocate(s, n, new),
         Sound(Provided(s, n), brktb, xocbsc) /\ n <= Room(Provided(s, n)) => Sound(new, brktb, xocbsc)
  PROVE Inv'
<1> DEFINE t == Provided(s, n)
<1>1. xocbsc' = xocbsc /\ brktb' = brktb /\ (n <= Room(s) \/ ~xocbsc.c.p) /\ (n <= Room(t) => Become(new))
      /\ (~(n <= Room(t)) => Become(t))
  BY DEF Allocate
<1>2. Sound(t, brktb, xocbsc)
  <2>1. CASE n <= Room(s) BY <2>1 DEF Provided
  <2>2. CASE ~(n <= Room(s))
    <3>1. t = GC(s) BY <2>2 DEF Provided
    <3>2. ~xocbsc.c.p BY <1>1, <2>2
    <3>3. QED BY <3>1, <3>2, GCSound
  <2>3. QED BY <2>1, <2>2
<1> HIDE DEF t
<1>3. CASE n <= Room(t)
  <2>1. Sound(new, brktb', xocbsc') /\ Become(new) BY <1>1, <1>2, <1>3 DEF t
  <2>2. QED BY <2>1, Becomes
<1>4. CASE ~(n <= Room(t))
  <2>1. Sound(t, brktb', xocbsc') /\ Become(t) BY <1>1, <1>2, <1>4
  <2>2. QED BY <2>1, Becomes
<1>5. QED BY <1>3, <1>4

------------------------------------------------------------------------------
\* The steps of the program keep it.
LEMMA InvIs ==
  ASSUME Inv
  PROVE /\ Good(m) /\ Laid(heap) /\ heap \in Seq(BlockOf) /\ CellsOf(heap) /\ IdsOf(heap) /\ BinsOf(m)
        /\ m.heap = heap /\ m.bins = bins /\ m.reg = reg /\ m.stack = stack
        /\ FRSGPT(heap) <= TLSGP1
        /\ reg \in [Regs -> Cell] /\ \A x \in Regs : Held(heap, reg[x])
        /\ stack \in Seq(Cell) /\ Len(stack) <= MaxStack /\ \A i \in DOMAIN stack : Held(heap, stack[i])
        /\ Table(m, brktb) /\ AtCode(heap, reg["OCBSCL"]) /\ Saved(heap, xocbsc)
<1>1. m.heap = heap /\ m.bins = bins /\ m.reg = reg /\ m.stack = stack BY DEF m
<1>2. Good(m) /\ Len(m.stack) <= MaxStack /\ Table(m, brktb) /\ AtCode(m.heap, m.reg["OCBSCL"]) /\ Saved(m.heap, xocbsc)
  BY DEF Inv, Sound
<1>3. Laid(heap) /\ CellsOf(heap) /\ IdsOf(heap) /\ BinsOf(m) /\ FRSGPT(heap) <= TLSGP1 BY <1>1, <1>2 DEF Good
<1>4. reg \in [Regs -> Cell] /\ \A x \in Regs : Held(heap, reg[x]) BY <1>1, <1>2 DEF Good
<1>5. stack \in Seq(Cell) /\ \A i \in DOMAIN stack : Held(heap, stack[i]) BY <1>1, <1>2 DEF Good
<1>6. heap \in Seq(BlockOf) BY <1>3 DEF Laid
<1>7. QED BY <1>1, <1>2, <1>3, <1>4, <1>5, <1>6

LEMMA RegsAre == {"XPTR", "YPTR", "OCBSCL", "TBLBCS", "LSTPTR", "BUKPTR"} = Regs
BY DEF Regs

\* A step that changes registers and the stack only.
LEMMA RegsSound ==
  ASSUME StorageAssumption, Inv, NEW t, IsState(t), t.heap = heap, t.bins = bins,
         t.reg \in [Regs -> Cell], \A x \in Regs : Held(heap, t.reg[x]),
         t.stack \in Seq(Cell), Len(t.stack) <= MaxStack, \A i \in DOMAIN t.stack : Held(heap, t.stack[i]),
         Become(t), Table(t, brktb'), AtCode(heap, t.reg["OCBSCL"]), Saved(heap, xocbsc')
  PROVE Inv'
<1>1. Good(m) /\ m.heap = heap /\ m.bins = bins BY InvIs
<1>2. Good(t) BY <1>1, GoodSame
<1>3. Sound(t, brktb', xocbsc') BY <1>2 DEF Sound
<1>4. QED BY <1>3, Becomes

\* A step that changes XPTR only.
LEMMA XptrSound ==
  ASSUME StorageAssumption, Inv, NEW c, Held(heap, c), Do([m EXCEPT !.reg["XPTR"] = c])
  PROVE Inv'
<1> DEFINE t == [m EXCEPT !.reg["XPTR"] = c]
<1>1. IsState(t) /\ t.heap = heap /\ t.bins = bins /\ t.stack = stack /\ t.reg = [reg EXCEPT !["XPTR"] = c] BY DEF m, IsState
<1>2. Become(t) /\ xocbsc' = xocbsc /\ brktb' = brktb BY DEF Do, Still
<1> HIDE DEF t
<1>3. reg \in [Regs -> Cell] /\ \A x \in Regs : Held(heap, reg[x]) BY InvIs
<1>4. c \in Cell BY DEF Held
<1>5. t.reg \in [Regs -> Cell] /\ t.reg["XPTR"] = c /\ \A x \in Regs \ {"XPTR"} : t.reg[x] = reg[x] BY <1>1, <1>3, <1>4, RegsAre
<1>6. \A x \in Regs : Held(heap, t.reg[x]) BY <1>3, <1>5
<1>7. t.reg["TBLBCS"] = reg["TBLBCS"] /\ t.reg["OCBSCL"] = reg["OCBSCL"] BY <1>5, RegsAre
<1>8. Table(m, brktb) /\ AtCode(heap, reg["OCBSCL"]) /\ Saved(heap, xocbsc) /\ m.heap = heap /\ m.reg = reg BY InvIs
<1>9. Table(t, brktb') /\ AtCode(heap, t.reg["OCBSCL"]) /\ Saved(heap, xocbsc') BY <1>1, <1>2, <1>7, <1>8 DEF Table
<1>10. stack \in Seq(Cell) /\ Len(stack) <= MaxStack /\ \A i \in DOMAIN stack : Held(heap, stack[i]) BY InvIs
<1>11. QED BY <1>1, <1>2, <1>5, <1>6, <1>9, <1>10, RegsSound

LEMMA COLECTInv ==
  ASSUME StorageAssumption, ~Stale, Inv, COLECT
  PROVE Inv'
<1>1. ~xocbsc.c.p /\ Become(GC(m)) /\ xocbsc' = xocbsc /\ brktb' = brktb BY DEF COLECT, Still
<1>2. Sound(GC(m), brktb, xocbsc) BY <1>1, GCSound DEF Inv
<1>3. QED BY <1>1, <1>2, Becomes

LEMMA GetDInv ==
  ASSUME StorageAssumption, Inv, GetD
  PROVE Inv'
<1>1. PICK i \in 1..2 : /\ In(reg["XPTR"]) /\ Off(reg["XPTR"]) + i \in DOMAIN heap[Obj(reg["XPTR"])].cells
                        /\ Do([m EXCEPT !.reg["XPTR"] = heap[Obj(reg["XPTR"])].cells[Off(reg["XPTR"]) + i]])
  BY DEF GetD
<1> DEFINE k == Obj(reg["XPTR"])
           j == Off(reg["XPTR"]) + i
           c == heap[k].cells[j]
<1>2. "XPTR" \in Regs BY DEF Regs
<1>3. Laid(heap) /\ CellsOf(heap) /\ \A x \in Regs : Held(heap, reg[x]) BY InvIs
<1>4. k \in DOMAIN heap BY <1>1, <1>2, <1>3, HeldIn DEF Obj
<1>5. Held(heap, c) BY <1>1, <1>3, <1>4 DEF CellsOf
<1> HIDE DEF j, k
<1>6. Do([m EXCEPT !.reg["XPTR"] = c]) BY <1>1 DEF j, k
<1> HIDE DEF c
<1>7. QED BY <1>5, <1>6, XptrSound

LEMMA SumInv ==
  ASSUME StorageAssumption, Inv, Sum
  PROVE Inv'
<1> DEFINE d == reg["XPTR"]
           k == Obj(d)
           c == [p |-> d.p, a |-> d.a + 1]
<1>1. In(d) /\ Off(d) + 1 < Len(heap[k].cells) /\ Do([m EXCEPT !.reg["XPTR"].a = @ + 1]) BY DEF Sum
<1>2. Laid(heap) /\ CellsOf(heap) /\ heap \in Seq(BlockOf) /\ Held(heap, d) /\ reg \in [Regs -> Cell] /\ "XPTR" \in Regs
  <2>1. "XPTR" \in Regs BY DEF Regs
  <2>2. Laid(heap) /\ CellsOf(heap) /\ heap \in Seq(BlockOf) BY InvIs
  <2>3. reg \in [Regs -> Cell] /\ \A x \in Regs : Held(heap, reg[x]) BY InvIs
  <2>4. QED BY <2>1, <2>2, <2>3
<1>3. d \in Cell /\ d.a \in Int /\ d = [p |-> d.p, a |-> d.a] BY <1>2 DEF Cell
<1>4. k \in DOMAIN heap /\ heap[k].a <= d.a BY <1>1, <1>2, HeldIn DEF Obj
<1>5. heap[k] \in BlockOf /\ heap[k].a \in Int /\ Size(heap[k]) \in Nat BY <1>2, <1>4, LaidType
<1>6. Len(heap[k].cells) <= Size(heap[k]) /\ Len(heap[k].cells) \in Nat
  <2>1. Len(heap[k].cells) \in Nat BY <1>5 DEF BlockOf
  <2>2. CASE heap[k].id \in Strings
    <3>1. Words[heap[k].id] \in Nat BY <2>2 DEF StorageAssumption
    <3>2. Len(heap[k].cells) = 2 BY <1>2, <1>4, <2>2 DEF CellsOf
    <3>3. QED BY <2>2, <3>1, <3>2 DEF Size
  <2>3. CASE heap[k].id \notin Strings BY <2>1, <2>3 DEF Size
  <2>4. QED BY <2>1, <2>2, <2>3
<1>7. d.a + 1 < FRSGPT(heap)
  <2>1. heap[k].a + Size(heap[k]) <= FRSGPT(heap) /\ FRSGPT(heap) \in Int BY <1>2, <1>4, LaidEnds
  <2>2. d.a - heap[k].a + 1 < Len(heap[k].cells) BY <1>1 DEF Off
  <2> HIDE DEF k, d
  <2>3. QED BY <1>3, <1>5, <1>6, <2>1, <2>2
<1>8. Held(heap, c) BY <1>3, <1>7 DEF Held, Cell
<1>9. [m EXCEPT !.reg["XPTR"].a = @ + 1] = [m EXCEPT !.reg["XPTR"] = c]
  <2>1. [d EXCEPT !.a = @ + 1] = c BY <1>3
  <2> HIDE DEF c
  <2>2. [m EXCEPT !.reg["XPTR"].a = @ + 1] = [m EXCEPT !.reg["XPTR"] = [d EXCEPT !.a = @ + 1]] BY <1>2 DEF m
  <2>3. QED BY <2>1, <2>2
<1> HIDE DEF c
<1>10. Do([m EXCEPT !.reg["XPTR"] = c]) BY <1>1, <1>9
<1>11. QED BY <1>8, <1>10, XptrSound

LEMMA NumberInv ==
  ASSUME StorageAssumption, Inv, Number
  PROVE Inv'
<1>1. PICK n \in Numbers : Do([m EXCEPT !.reg["XPTR"] = Num(n)]) BY DEF Number
<1>2. Held(heap, Num(n)) BY DEF StorageAssumption, Held, Num, Cell, In
<1>3. QED BY <1>1, <1>2, XptrSound

LEMMA ExchangeInv ==
  ASSUME StorageAssumption, Inv, Exchange
  PROVE Inv'
<1> DEFINE t == [m EXCEPT !.reg["XPTR"] = reg["YPTR"], !.reg["YPTR"] = reg["XPTR"]]
<1>1. IsState(t) /\ t.heap = heap /\ t.bins = bins /\ t.stack = stack /\ t.reg = [reg EXCEPT !["XPTR"] = reg["YPTR"], !["YPTR"] = reg["XPTR"]]
  <2> DEFINE r == [reg EXCEPT !["XPTR"] = reg["YPTR"], !["YPTR"] = reg["XPTR"]]
             r1 == [reg EXCEPT !["XPTR"] = reg["YPTR"]]
             t1 == [m EXCEPT !.reg["XPTR"] = reg["YPTR"]]
  <2>0. t1 = [heap |-> heap, bins |-> bins, reg |-> r1, stack |-> stack] /\ t = [t1 EXCEPT !.reg["YPTR"] = reg["XPTR"]] BY DEF m
  <2>3. r = [r1 EXCEPT !["YPTR"] = reg["XPTR"]] OBVIOUS
  <2> HIDE DEF r1, t1, r
  <2>1. t = [heap |-> heap, bins |-> bins, reg |-> r, stack |-> stack] BY <2>0, <2>3
  <2>2. IsState(t) /\ t.heap = heap /\ t.bins = bins /\ t.reg = r /\ t.stack = stack BY <2>1 DEF IsState
  <2>4. QED BY <2>2 DEF r
<1>2. Become(t) /\ xocbsc' = xocbsc /\ brktb' = brktb BY DEF Exchange, Do, Still
<1> HIDE DEF t
<1>3. reg \in [Regs -> Cell] /\ \A x \in Regs : Held(heap, reg[x]) BY InvIs
<1>4. reg["XPTR"] \in Cell /\ reg["YPTR"] \in Cell /\ "XPTR" \in Regs /\ "YPTR" \in Regs BY <1>3, RegsAre
<1>5. t.reg \in [Regs -> Cell] /\ t.reg["XPTR"] = reg["YPTR"] /\ t.reg["YPTR"] = reg["XPTR"]
      /\ \A x \in Regs \ {"XPTR", "YPTR"} : t.reg[x] = reg[x]
  BY <1>1, <1>3, <1>4
<1>6. \A x \in Regs : Held(heap, t.reg[x]) BY <1>3, <1>4, <1>5
<1>7. t.reg["TBLBCS"] = reg["TBLBCS"] /\ t.reg["OCBSCL"] = reg["OCBSCL"] BY <1>5, RegsAre
<1>8. Table(m, brktb) /\ AtCode(heap, reg["OCBSCL"]) /\ Saved(heap, xocbsc) /\ m.heap = heap /\ m.reg = reg BY InvIs
<1>9. Table(t, brktb') /\ AtCode(heap, t.reg["OCBSCL"]) /\ Saved(heap, xocbsc') BY <1>1, <1>2, <1>7, <1>8 DEF Table
<1>10. stack \in Seq(Cell) /\ Len(stack) <= MaxStack /\ \A i \in DOMAIN stack : Held(heap, stack[i]) BY InvIs
<1>11. QED BY <1>1, <1>2, <1>5, <1>6, <1>9, <1>10, RegsSound

LEMMA PushInv ==
  ASSUME StorageAssumption, Inv, Push
  PROVE Inv'
<1> DEFINE t == [m EXCEPT !.stack = Append(@, reg["XPTR"])]
<1>1. IsState(t) /\ t.heap = heap /\ t.bins = bins /\ t.stack = Append(stack, reg["XPTR"]) /\ t.reg = reg BY DEF m, IsState
<1>2. Become(t) /\ xocbsc' = xocbsc /\ brktb' = brktb /\ Len(stack) < MaxStack BY DEF Push, Do, Still
<1> HIDE DEF t
<1>3. reg \in [Regs -> Cell] /\ \A x \in Regs : Held(heap, reg[x]) BY InvIs
<1>4. stack \in Seq(Cell) /\ \A i \in DOMAIN stack : Held(heap, stack[i]) BY InvIs
<1>5. reg["XPTR"] \in Cell /\ Held(heap, reg["XPTR"]) BY <1>3, RegsAre
<1>6. t.stack \in Seq(Cell) /\ Len(t.stack) = Len(stack) + 1 /\ \A i \in DOMAIN t.stack : Held(heap, t.stack[i])
  BY <1>1, <1>4, <1>5
<1>7. Len(t.stack) <= MaxStack BY <1>2, <1>4, <1>6 DEF StorageAssumption
<1>8. Table(m, brktb) /\ AtCode(heap, reg["OCBSCL"]) /\ Saved(heap, xocbsc) /\ m.heap = heap /\ m.reg = reg BY InvIs
<1>9. Table(t, brktb') /\ AtCode(heap, t.reg["OCBSCL"]) /\ Saved(heap, xocbsc') BY <1>1, <1>2, <1>8 DEF Table
<1>10. QED BY <1>1, <1>2, <1>3, <1>6, <1>7, <1>9, RegsSound

LEMMA PopInv ==
  ASSUME StorageAssumption, Inv, Pop
  PROVE Inv'
<1> DEFINE t == [m EXCEPT !.stack = Front(@), !.reg["XPTR"] = Last(stack)]
<1>1. IsState(t) /\ t.heap = heap /\ t.bins = bins /\ t.stack = Front(stack) /\ t.reg = [reg EXCEPT !["XPTR"] = Last(stack)]
  <2> DEFINE r == [reg EXCEPT !["XPTR"] = Last(stack)]
             f == Front(stack)
             t1 == [m EXCEPT !.stack = Front(@)]
  <2>0. t1 = [heap |-> heap, bins |-> bins, reg |-> reg, stack |-> f] /\ t = [t1 EXCEPT !.reg["XPTR"] = Last(stack)] BY DEF m
  <2> HIDE DEF f, t1
  <2>1. t = [heap |-> heap, bins |-> bins, reg |-> r, stack |-> f] BY <2>0
  <2> HIDE DEF r
  <2>2. IsState(t) /\ t.heap = heap /\ t.bins = bins /\ t.reg = r /\ t.stack = f BY <2>1 DEF IsState
  <2>3. QED BY <2>2 DEF r, f
<1>2. Become(t) /\ xocbsc' = xocbsc /\ brktb' = brktb /\ stack # <<>> BY DEF Pop, Do, Still
<1> HIDE DEF t
<1>3. reg \in [Regs -> Cell] /\ \A x \in Regs : Held(heap, reg[x]) BY InvIs
<1>4. stack \in Seq(Cell) /\ Len(stack) <= MaxStack /\ \A i \in DOMAIN stack : Held(heap, stack[i]) BY InvIs
<1>5. Len(stack) \in Nat /\ Len(stack) # 0 /\ DOMAIN stack = 1..Len(stack) BY <1>2, <1>4
<1>6. Last(stack) = stack[Len(stack)] /\ Held(heap, Last(stack)) /\ Last(stack) \in Cell
  <2>1. Len(stack) \in DOMAIN stack BY <1>5
  <2>2. QED BY <1>4, <2>1 DEF Last, Held
<1>7. t.stack \in Seq(Cell) /\ Len(t.stack) <= MaxStack /\ \A i \in DOMAIN t.stack : Held(heap, t.stack[i])
  <2> DEFINE f == Front(stack)
  <2>1. f = SubSeq(stack, 1, Len(stack) - 1) BY DEF Front
  <2>2. SubSeq(stack, 1, Len(stack) - 1) \in Seq(Cell) /\ Len(SubSeq(stack, 1, Len(stack) - 1)) = Len(stack) - 1
        /\ \A i \in 1..Len(stack) - 1 : SubSeq(stack, 1, Len(stack) - 1)[i] = stack[i]
    BY <1>4, <1>5
  <2> HIDE DEF f
  <2>3. f \in Seq(Cell) /\ Len(f) = Len(stack) - 1 /\ \A i \in 1..Len(stack) - 1 : f[i] = stack[i] BY <2>1, <2>2
  <2>4. DOMAIN f = 1..Len(stack) - 1 /\ \A i \in 1..Len(stack) - 1 : i \in DOMAIN stack BY <1>5, <2>3
  <2>5. Len(f) <= MaxStack BY <1>4, <1>5, <2>3 DEF StorageAssumption
  <2>6. QED BY <1>1, <1>4, <2>3, <2>4, <2>5 DEF f
<1>8. t.reg \in [Regs -> Cell] /\ t.reg["XPTR"] = Last(stack) /\ \A x \in Regs \ {"XPTR"} : t.reg[x] = reg[x]
  BY <1>1, <1>3, <1>6, RegsAre
<1>9. \A x \in Regs : Held(heap, t.reg[x]) BY <1>3, <1>6, <1>8
<1>10. t.reg["TBLBCS"] = reg["TBLBCS"] /\ t.reg["OCBSCL"] = reg["OCBSCL"] BY <1>8, RegsAre
<1>11. Table(m, brktb) /\ AtCode(heap, reg["OCBSCL"]) /\ Saved(heap, xocbsc) /\ m.heap = heap /\ m.reg = reg BY InvIs
<1>12. Table(t, brktb') /\ AtCode(heap, t.reg["OCBSCL"]) /\ Saved(heap, xocbsc') BY <1>1, <1>2, <1>10, <1>11 DEF Table
<1>13. QED BY <1>1, <1>2, <1>7, <1>8, <1>9, <1>12, RegsSound

\* A step that changes one register.
LEMMA RegSound ==
  ASSUME StorageAssumption, Inv, NEW x \in Regs, NEW c, Held(heap, c), Become([m EXCEPT !.reg[x] = c]),
         x = "TBLBCS" => (In(c) => brktb' \in Strings /\ heap[Top(heap, c.a)].id = brktb'),
         x # "TBLBCS" => brktb' = brktb, x = "OCBSCL" => AtCode(heap, c), Saved(heap, xocbsc')
  PROVE Inv'
<1> DEFINE t == [m EXCEPT !.reg[x] = c]
<1>1. IsState(t) /\ t.heap = heap /\ t.bins = bins /\ t.stack = stack /\ t.reg = [reg EXCEPT ![x] = c] BY DEF m, IsState
<1>2. Become(t) OBVIOUS
<1> HIDE DEF t
<1>3. reg \in [Regs -> Cell] /\ \A y \in Regs : Held(heap, reg[y]) BY InvIs
<1>4. c \in Cell BY DEF Held
<1>5. t.reg \in [Regs -> Cell] /\ t.reg[x] = c /\ \A y \in Regs \ {x} : t.reg[y] = reg[y] BY <1>1, <1>3, <1>4
<1>6. \A y \in Regs : Held(heap, t.reg[y]) BY <1>3, <1>5
<1>7. Table(m, brktb) /\ AtCode(heap, reg["OCBSCL"]) /\ m.heap = heap /\ m.reg = reg BY InvIs
<1>8. "TBLBCS" \in Regs /\ "OCBSCL" \in Regs BY RegsAre
<1>9. Table(t, brktb')
  <2>1. CASE x = "TBLBCS" BY <1>1, <1>5, <2>1 DEF Table
  <2>2. CASE x # "TBLBCS" BY <1>1, <1>5, <1>7, <1>8, <2>2 DEF Table
  <2>3. QED BY <2>1, <2>2
<1>10. AtCode(heap, t.reg["OCBSCL"])
  <2>1. CASE x = "OCBSCL" BY <1>5, <2>1
  <2>2. CASE x # "OCBSCL" BY <1>5, <1>7, <1>8, <2>2
  <2>3. QED BY <2>1, <2>2
<1>11. stack \in Seq(Cell) /\ Len(stack) <= MaxStack /\ \A i \in DOMAIN stack : Held(heap, stack[i]) BY InvIs
<1>12. QED BY <1>1, <1>2, <1>5, <1>6, <1>9, <1>10, <1>11, RegsSound

\* What is at the start of a block of the program is code.
LEMMA StartIsCode ==
  ASSUME StorageAssumption, Inv, NEW c, Held(heap, c), In(c), Off(c) = 0, heap[Obj(c)].id \in Ids
  PROVE AtCode(heap, c)
<1>1. Laid(heap) BY InvIs
<1>2. c.a \in Int /\ Top(heap, c.a) \in DOMAIN heap BY <1>1, HeldIn
<1>3. heap[Top(heap, c.a)].a \in Int BY <1>1, <1>2, LaidType
<1>4. c.a - heap[Top(heap, c.a)].a = 0 BY DEF Off, Obj
<1>5. heap[Top(heap, c.a)].a = c.a BY <1>2, <1>3, <1>4
<1>6. QED BY <1>5 DEF AtCode, Obj

LEMMA GotoInv ==
  ASSUME StorageAssumption, Inv, Goto
  PROVE Inv'
<1>1. In(reg["XPTR"]) /\ Off(reg["XPTR"]) = 0 /\ heap[Obj(reg["XPTR"])].id \in Ids BY DEF Goto
<1>2. Become([m EXCEPT !.reg["OCBSCL"] = reg["XPTR"]]) /\ xocbsc' = xocbsc /\ brktb' = brktb BY DEF Goto, Do, Still
<1>3. "XPTR" \in Regs /\ "OCBSCL" \in Regs BY RegsAre
<1>4. Held(heap, reg["XPTR"]) BY <1>3, InvIs
<1>5. AtCode(heap, reg["XPTR"]) BY <1>1, <1>4, StartIsCode
<1>6. Saved(heap, xocbsc') BY <1>2, InvIs
<1>7. QED BY <1>2, <1>3, <1>4, <1>5, <1>6, RegSound

LEMMA XithndInv ==
  ASSUME StorageAssumption, Inv, Xithnd
  PROVE Inv'
<1>1. /\ In(reg["OCBSCL"]) /\ In(reg["YPTR"]) /\ Off(reg["YPTR"]) = 0 /\ heap[Obj(reg["YPTR"])].id \in Ids
      /\ xocbsc' = [c |-> reg["OCBSCL"], of |-> heap[Obj(reg["OCBSCL"])].id]
      /\ Become([m EXCEPT !.reg["OCBSCL"] = reg["YPTR"]]) /\ brktb' = brktb
  BY DEF Xithnd
<1>2. "YPTR" \in Regs /\ "OCBSCL" \in Regs BY RegsAre
<1>3. Held(heap, reg["YPTR"]) /\ Held(heap, reg["OCBSCL"]) BY <1>2, InvIs
<1>4. AtCode(heap, reg["YPTR"]) BY <1>1, <1>3, StartIsCode
<1>5. Saved(heap, xocbsc')
  <2>1. AtCode(heap, reg["OCBSCL"]) BY InvIs
  <2>2. xocbsc'.c = reg["OCBSCL"] /\ xocbsc'.of = heap[Obj(reg["OCBSCL"])].id BY <1>1
  <2>3. reg["OCBSCL"] \in Cell BY <1>3 DEF Held
  <2>4. xocbsc' = [c |-> xocbsc'.c, of |-> xocbsc'.of] BY <1>1
  <2>5. QED BY <1>1, <1>3, <2>1, <2>2, <2>3, <2>4 DEF Saved, Obj
<1>6. QED BY <1>1, <1>2, <1>3, <1>4, <1>5, RegSound

LEMMA ContinueInv ==
  ASSUME StorageAssumption, Inv, Continue
  PROVE Inv'
<1>1. /\ xocbsc.c.p /\ xocbsc' = [xocbsc EXCEPT !.c = Zero]
      /\ Become([m EXCEPT !.reg["OCBSCL"] = xocbsc.c]) /\ brktb' = brktb
  BY DEF Continue
<1>2. "OCBSCL" \in Regs BY RegsAre
<1>3. Saved(heap, xocbsc) BY InvIs
<1>4. Held(heap, xocbsc.c) /\ AtCode(heap, xocbsc.c) BY <1>1, <1>3 DEF Saved
<1>5. Saved(heap, xocbsc')
  <2>1. Zero \in Cell /\ ~Zero.p BY DEF Zero, Cell
  <2>2. xocbsc = [c |-> xocbsc.c, of |-> xocbsc.of] BY <1>3 DEF Saved
  <2>3. xocbsc' = [c |-> Zero, of |-> xocbsc.of] BY <1>1, <2>2
  <2>4. xocbsc'.c = Zero /\ xocbsc' = [c |-> xocbsc'.c, of |-> xocbsc'.of] BY <2>3
  <2>5. QED BY <2>1, <2>4 DEF Saved
<1>6. QED BY <1>1, <1>2, <1>4, <1>5, RegSound

LEMMA BreakInv ==
  ASSUME StorageAssumption, Inv, Break
  PROVE Inv'
<1> DEFINE c == reg["XPTR"]
<1>1. /\ In(c) /\ heap[Obj(c)].id \in Strings
      /\ brktb' = (IF c = reg["TBLBCS"] THEN brktb ELSE heap[Obj(c)].id)
      /\ Become([m EXCEPT !.reg["TBLBCS"] = c]) /\ xocbsc' = xocbsc
  BY DEF Break
<1>2. "XPTR" \in Regs /\ "TBLBCS" \in Regs BY RegsAre
<1>3. Held(heap, c) BY <1>2, InvIs
<1>4. Saved(heap, xocbsc') BY <1>1, InvIs
<1>5. brktb' \in Strings /\ heap[Top(heap, c.a)].id = brktb'
  <2>1. Table(m, brktb) /\ m.heap = heap /\ m.reg = reg BY InvIs
  <2>2. CASE c = reg["TBLBCS"]
    <3>1. brktb \in Strings /\ heap[Top(heap, c.a)].id = brktb BY <1>1, <2>1, <2>2 DEF Table
    <3>2. QED BY <1>1, <2>2, <3>1
  <2>3. CASE c # reg["TBLBCS"] BY <1>1, <2>3 DEF Obj
  <2>4. QED BY <2>2, <2>3
<1> HIDE DEF c
<1>6. QED BY <1>1, <1>2, <1>3, <1>4, <1>5, RegSound

------------------------------------------------------------------------------
\* What is written over the cells of a block.
LEMMA WritesSound ==
  ASSUME StorageAssumption, Inv, NEW k \in DOMAIN heap, NEW cells \in Seq(Cell), Len(cells) = Len(heap[k].cells),
         \A i \in DOMAIN cells : Held(heap, cells[i]),
         NEW t, IsState(t), t.heap = [heap EXCEPT ![k].cells = cells], t.bins = bins, t.reg = reg, t.stack = stack,
         Become(t), xocbsc' = xocbsc, brktb' = brktb
  PROVE Inv'
<1>1. Good(m) /\ Laid(heap) /\ heap \in Seq(BlockOf) /\ CellsOf(heap) BY InvIs
<1>2. m.heap = heap /\ m.bins = bins /\ m.reg = reg /\ m.stack = stack BY InvIs
<1>3. heap[k] \in BlockOf /\ DOMAIN heap = 1..Len(heap) BY <1>1
<1>4. [heap[k] EXCEPT !.cells = cells] \in BlockOf /\ [heap[k] EXCEPT !.cells = cells].cells = cells
      /\ [heap[k] EXCEPT !.cells = cells].a = heap[k].a /\ [heap[k] EXCEPT !.cells = cells].id = heap[k].id
      /\ [heap[k] EXCEPT !.cells = cells].link = heap[k].link
  BY <1>3 DEF BlockOf
<1> DEFINE d == [heap[k] EXCEPT !.cells = cells]
<1>5. t.heap = [heap EXCEPT ![k] = d] OBVIOUS
<1> HIDE DEF d
<1>6. d \in BlockOf /\ d.cells = cells /\ d.a = heap[k].a /\ d.id = heap[k].id /\ d.link = heap[k].link BY <1>4 DEF d
<1>7. t.heap \in Seq(BlockOf) /\ Len(t.heap) = Len(heap) /\ DOMAIN t.heap = DOMAIN heap BY <1>1, <1>5, <1>6
<1>8. \A l \in DOMAIN heap : IF l = k THEN t.heap[l] = d ELSE t.heap[l] = heap[l] BY <1>5
<1>9. Alike(heap, t.heap) BY <1>6, <1>7, <1>8 DEF Alike
<1>10. \A l \in DOMAIN heap : t.heap[l].link = heap[l].link BY <1>6, <1>8
<1>11. \A l \in DOMAIN heap : \A i \in DOMAIN t.heap[l].cells : Held(heap, t.heap[l].cells[i])
  BY <1>1, <1>6, <1>8 DEF CellsOf
<1>12. t.reg \in [Regs -> Cell] /\ \A x \in Regs : Held(heap, t.reg[x]) BY InvIs
<1>13. t.stack \in Seq(Cell) /\ \A i \in DOMAIN t.stack : Held(heap, t.stack[i]) BY InvIs
<1>14. Good(t) BY <1>1, <1>2, <1>9, <1>10, <1>11, <1>12, <1>13, GoodAlike
<1>15. Stays(heap, t.heap)
  <2>1. Laid(t.heap) /\ FRSGPT(t.heap) = FRSGPT(heap) BY <1>1, <1>9, AlikeLaid
  <2>2. FRSGPT(heap) \in Int BY <1>1, LaidEnds
  <2>3. \A l \in DOMAIN heap : t.heap[l].a = heap[l].a /\ t.heap[l].id = heap[l].id BY <1>6, <1>8
  <2>4. QED BY <1>7, <2>1, <2>2, <2>3 DEF Stays
<1>16. Len(t.stack) <= MaxStack BY InvIs
<1>17. Sound(m, brktb, xocbsc) BY DEF Inv
<1>18. Sound(t, brktb, xocbsc) BY <1>2, <1>14, <1>15, <1>16, <1>17, StaysSound
<1>19. QED BY <1>18, Becomes

LEMMA PutDInv ==
  ASSUME StorageAssumption, Inv, PutD
  PROVE Inv'
<1>1. PICK i \in 1..2 :
        /\ In(reg["YPTR"]) /\ Off(reg["YPTR"]) + i \in DOMAIN heap[Obj(reg["YPTR"])].cells
        /\ Do([m EXCEPT !.heap[Obj(reg["YPTR"])].cells[Off(reg["YPTR"]) + i] = reg["XPTR"]])
  BY DEF PutD
<1> DEFINE k == Obj(reg["YPTR"])
           j == Off(reg["YPTR"]) + i
           c == reg["XPTR"]
           old == heap[k].cells
           cells == [old EXCEPT ![j] = c]
           t == [m EXCEPT !.heap[k].cells[j] = c]
<1>2. "XPTR" \in Regs /\ "YPTR" \in Regs BY RegsAre
<1>3. Laid(heap) /\ CellsOf(heap) /\ heap \in Seq(BlockOf) BY InvIs
<1>4. Held(heap, reg["YPTR"]) /\ Held(heap, c) /\ c \in Cell BY <1>2, InvIs DEF Held
<1>5. k \in DOMAIN heap BY <1>1, <1>3, <1>4, HeldIn DEF Obj
<1>6. t.heap = [heap EXCEPT ![k].cells[j] = c] /\ t.bins = bins /\ t.reg = reg /\ t.stack = stack /\ IsState(t) BY DEF m, IsState
<1>7. Become(t) /\ xocbsc' = xocbsc /\ brktb' = brktb BY <1>1 DEF Do, Still
<1>8. j \in DOMAIN old BY <1>1
<1> HIDE DEF t, k, j, c
<1>9. t.heap = [heap EXCEPT ![k].cells = cells] BY <1>6
<1>10. old \in Seq(Cell) /\ \A n \in DOMAIN old : Held(heap, old[n])
  <2>1. heap[k] \in BlockOf BY <1>3, <1>5
  <2>2. heap[k].cells \in Seq(Cell) BY <2>1 DEF BlockOf
  <2>3. \A n \in DOMAIN heap[k].cells : Held(heap, heap[k].cells[n]) BY <1>3, <1>5 DEF CellsOf
  <2>4. QED BY <2>2, <2>3
<1> HIDE DEF old
<1>11. cells \in Seq(Cell) /\ Len(cells) = Len(old) /\ DOMAIN cells = DOMAIN old
  <2>1. Len(old) \in Nat /\ old \in [1..Len(old) -> Cell] /\ DOMAIN old = 1..Len(old) BY <1>10
  <2>2. cells \in [1..Len(old) -> Cell] BY <1>4, <2>1
  <2>3. QED BY <2>1, <2>2
<1>12. \A n \in DOMAIN cells : Held(heap, cells[n]) BY <1>4, <1>8, <1>10, <1>11
<1> HIDE DEF cells
<1>13. Len(cells) = Len(heap[k].cells) BY <1>11 DEF old
<1>14. QED BY <1>5, <1>6, <1>7, <1>9, <1>11, <1>12, <1>13, WritesSound

\* What is behind a longer sequence.
LEMMA AppendStays ==
  ASSUME StorageAssumption, NEW h, Laid(h), NEW d \in BlockOf, d.a = FRSGPT(h)
  PROVE Stays(h, Append(h, d))
<1> DEFINE g == Append(h, d)
<1>1. Laid(g) /\ FRSGPT(g) = FRSGPT(h) + Size(d) /\ Len(g) = Len(h) + 1 /\ \A k \in DOMAIN h : g[k] = h[k]
  BY AppendLaid
<1> HIDE DEF g
<1>2. FRSGPT(h) \in Int /\ Size(d) \in Nat BY LaidEnds, SizeType
<1>3. h \in Seq(BlockOf) /\ g \in Seq(BlockOf) BY <1>1 DEF Laid
<1>4. \A k \in DOMAIN h : k \in DOMAIN g BY <1>1, <1>3
<1>5. Stays(h, g) BY <1>1, <1>2, <1>4 DEF Stays
<1>6. QED BY <1>5 DEF g

\* A block that is new keeps storage in order.
LEMMA NewSound ==
  ASSUME StorageAssumption, NEW s, NEW brk, NEW x, Sound(s, brk, x),
         NEW cells \in Seq(Cell), \A i \in DOMAIN cells : Held(s.heap, cells[i]), Len(cells) <= Room(s),
         NEW t, IsState(t), t.heap = Block(s, cells), t.bins = s.bins, t.stack = s.stack,
         NEW r \in {"XPTR", "YPTR"}, t.reg = [s.reg EXCEPT ![r] = Free(s)]
  PROVE Sound(t, brk, x)
<1>1. Good(s) /\ Len(s.stack) <= MaxStack BY DEF Sound
<1>2. Laid(s.heap) /\ FRSGPT(s.heap) <= TLSGP1 /\ s.reg \in [Regs -> Cell] /\ \A y \in Regs : Held(s.heap, s.reg[y])
  BY <1>1 DEF Good
<1>3. s.stack \in Seq(Cell) /\ \A i \in DOMAIN s.stack : Held(s.heap, s.stack[i]) BY <1>1 DEF Good
<1> DEFINE d == [a |-> FRSGPT(s.heap), id |-> Fresh(s), cells |-> cells, link |-> 0]
<1>4. t.heap = Append(s.heap, d) BY DEF Block
<1>5. Fresh(s) \in Ids /\ \A k \in DOMAIN s.heap : s.heap[k].id # Fresh(s) BY <1>2, FreshIs
<1>6. FRSGPT(s.heap) \in Int BY <1>2, LaidEnds
<1>7. d.a = FRSGPT(s.heap) /\ d.id = Fresh(s) /\ d.cells = cells /\ d \in BlockOf BY <1>5, <1>6 DEF BlockOf
<1> HIDE DEF d
<1>8. FRSGPT(s.heap) + Size(d) <= TLSGP1
  <2>1. d.id \notin Strings BY <1>5, <1>7 DEF StorageAssumption
  <2>2. Size(d) = Len(cells) + 1 BY <1>7, <2>1 DEF Size
  <2>3. Len(cells) \in Nat /\ TLSGP1 \in Nat BY DEF StorageAssumption
  <2>4. Len(cells) <= TLSGP1 - FRSGPT(s.heap) - 1 BY DEF Room
  <2>5. QED BY <1>6, <2>2, <2>3, <2>4
<1>9. Free(s) \in Cell BY <1>6 DEF Free, Ptr, Cell
<1>10. r \in Regs /\ "TBLBCS" \in Regs /\ "OCBSCL" \in Regs BY RegsAre
<1>11. /\ t.reg \in [Regs -> Cell] /\ \A y \in Regs : t.reg[y] = IF y = r THEN Free(s) ELSE s.reg[y]
  BY <1>2, <1>9, <1>10
<1>12. \A y \in Regs : Held(s.heap, t.reg[y]) \/ t.reg[y] = Free(s) BY <1>2, <1>11
<1>13. Good(t)
  <2>1. d.id \in Ids /\ \A k \in DOMAIN s.heap : s.heap[k].id # d.id BY <1>5, <1>7
  <2>2. \A i \in DOMAIN d.cells : Held(s.heap, d.cells[i]) BY <1>7
  <2>3. IsState(t) /\ t.bins = s.bins /\ t.stack \in Seq(Cell) /\ \A i \in DOMAIN t.stack : Held(s.heap, t.stack[i]) BY <1>3
  <2>4. t.reg \in [Regs -> Cell] BY <1>11
  <2>5. QED BY <1>1, <1>4, <1>7, <1>8, <1>12, <2>1, <2>2, <2>3, <2>4, GoodAppended
<1>14. Stays(s.heap, t.heap) BY <1>2, <1>4, <1>7, AppendStays
<1>15. t.reg["TBLBCS"] = s.reg["TBLBCS"] /\ t.reg["OCBSCL"] = s.reg["OCBSCL"] BY <1>10, <1>11
<1>16. QED BY <1>1, <1>13, <1>14, <1>15, StaysSound

LEMMA BLOCKInv ==
  ASSUME StorageAssumption, ~Stale, Inv, BLOCK
  PROVE Inv'
<1>1. PICK n \in 1..2 : Allocate(m, n, Blocked(Provided(m, n), n)) BY DEF BLOCK
<1> DEFINE s == Provided(m, n)
           t == Blocked(s, n)
           cells == [i \in 1..n |-> Zero]
<1>2. Sound(m, brktb, xocbsc) BY DEF Inv
<1>3. ASSUME Sound(s, brktb, xocbsc), n <= Room(s) PROVE Sound(t, brktb, xocbsc)
  <2> HIDE DEF s
  <2>1. t = [s EXCEPT !.heap = Block(s, cells), !.reg["XPTR"] = Free(s)] BY DEF Blocked
  <2>2. cells \in Seq(Cell) /\ Len(cells) = n /\ \A i \in DOMAIN cells : cells[i] = Zero
    BY DEF Zero, Cell
  <2>3. \A c : c = Zero => Held(s.heap, c) BY DEF Zero, Cell, Held, In
  <2> HIDE DEF cells, t
  <2>4. \A i \in DOMAIN cells : Held(s.heap, cells[i]) BY <2>2, <2>3
  <2>0. s = [heap |-> s.heap, bins |-> s.bins, reg |-> s.reg, stack |-> s.stack] BY <1>3 DEF Sound, Good, IsState
  <2>5. IsState(t) /\ t.heap = Block(s, cells) /\ t.bins = s.bins /\ t.stack = s.stack /\ t.reg = [s.reg EXCEPT !["XPTR"] = Free(s)]
    BY <2>0, <2>1 DEF IsState
  <2>6. QED BY <1>3, <2>2, <2>4, <2>5, NewSound
<1>4. QED BY <1>1, <1>2, <1>3, AllocateSound

\* What a regeneration makes of a pair list that a register names.
LEMMA GCCells ==
  ASSUME StorageAssumption, NEW s, Good(s), NEW r \in Regs, In(s.reg[r])
  PROVE LET t == GC(s)
            k == Top(t.heap, t.reg[r].a)
        IN k \in DOMAIN t.heap /\ Len(t.heap[k].cells) = Len(s.heap[Top(s.heap, s.reg[r].a)].cells)
<1> DEFINE t == GC(s)
           K == Marked(s)
           l == Top(s.heap, s.reg[r].a)
<1>1. Regenerated(s, t) BY GCRegenerates
<1> HIDE DEF t
<1>2. Keeps(s, K) /\ t.heap = Moved(s, K) /\ Follows(s, K, s.reg[r], t.heap, t.reg[r]) BY <1>1 DEF Regenerated
<1>3. Laid(s.heap) /\ CellsOf(s.heap) /\ BinsOf(s) BY DEF Good
<1> HIDE DEF K
<1>4. l \in K /\ Top(t.heap, t.reg[r].a) = NewPlace(K, l) /\ Top(t.heap, t.reg[r].a) \in DOMAIN t.heap BY <1>2 DEF Follows
<1>5. Moved(s, K)[NewPlace(K, l)] = Kept(s, K, l) BY <1>2, <1>3, <1>4, NewPlaceIs
<1>6. Len(Kept(s, K, l).cells) = Len(s.heap[l].cells) BY <1>2, <1>3, <1>4, KeptIs DEF KeptAs
<1>7. QED BY <1>2, <1>4, <1>5, <1>6 DEF t

With(s, h, r, c) == [s EXCEPT !.heap = h, !.reg[r] = c]
Differ(s, t, h, r, c) == IsState(t) /\ t.heap = h /\ t.bins = s.bins /\ t.stack = s.stack /\ t.reg = [s.reg EXCEPT ![r] = c]

LEMMA WithIs ==
  ASSUME NEW s, IsState(s), NEW h, NEW r, NEW c, NEW t, t = With(s, h, r, c)
  PROVE Differ(s, t, h, r, c)
BY DEF With, Differ, IsState

\* A longer copy of the block a register names.
LEMMA LongerSound ==
  ASSUME StorageAssumption, NEW s, NEW brk, NEW x, Sound(s, brk, x), NEW k \in DOMAIN s.heap,
         Len(s.heap[k].cells) + 2 <= Room(s), 
         NEW t, t = With(s, Block(s, s.heap[k].cells \o <<s.reg["XPTR"], s.reg["XPTR"]>>), "YPTR", Free(s))
  PROVE Sound(t, brk, x)
<1> DEFINE old == s.heap[k].cells
           c == s.reg["XPTR"]
           cells == old \o <<c, c>>
<1>1. Laid(s.heap) /\ CellsOf(s.heap) /\ \A y \in Regs : Held(s.heap, s.reg[y]) BY DEF Sound, Good
<1>2. s.heap[k] \in BlockOf BY <1>1, LaidType
<1>3. old \in Seq(Cell) BY <1>2 DEF BlockOf
<1>4. \A i \in DOMAIN old : Held(s.heap, old[i]) BY <1>1 DEF CellsOf
<1>5. Held(s.heap, c) /\ c \in Cell BY <1>1, RegsAre DEF Held
<1>6. t = With(s, Block(s, cells), "YPTR", Free(s)) OBVIOUS
<1> HIDE DEF cells
<1> DEFINE h == Block(s, cells)
<1>7. IsState(t) /\ t.heap = h /\ t.bins = s.bins /\ t.stack = s.stack /\ t.reg = [s.reg EXCEPT !["YPTR"] = Free(s)]
  <2>0. IsState(s) BY DEF Sound, Good
  <2>1. t = With(s, h, "YPTR", Free(s)) BY <1>6
  <2> HIDE DEF h
  <2>2. Differ(s, t, h, "YPTR", Free(s)) BY <2>0, <2>1, WithIs
  <2>3. QED BY <2>2 DEF Differ
<1> HIDE DEF old, c
<1>8. cells \in Seq(Cell) /\ Len(cells) = Len(old) + 2 /\ \A i \in DOMAIN cells : cells[i] = c \/ \E j \in DOMAIN old : cells[i] = old[j]
  BY <1>3, <1>5 DEF cells
<1>9. \A i \in DOMAIN cells : Held(s.heap, cells[i]) BY <1>4, <1>5, <1>8
<1>10. Len(cells) <= Room(s) BY <1>8 DEF old
<1>11. QED BY <1>7, <1>8, <1>9, <1>10, NewSound

LEMMA PairInv ==
  ASSUME StorageAssumption, Inv, NEW l \in DOMAIN heap, NEW i \in DOMAIN heap[l].cells, i + 1 \in DOMAIN heap[l].cells,
         NEW c, Held(heap, c), xocbsc' = xocbsc, brktb' = brktb,
         Become([m EXCEPT !.heap[l].cells[i] = c, !.heap[l].cells[i + 1] = c])
  PROVE Inv'
<1> DEFINE old == heap[l].cells
           cells == [old EXCEPT ![i] = c, ![i + 1] = c]
           t == [m EXCEPT !.heap[l].cells[i] = c, !.heap[l].cells[i + 1] = c]
<1>1. Laid(heap) /\ CellsOf(heap) /\ heap \in Seq(BlockOf) BY InvIs
<1>2. c \in Cell BY DEF Held
<1>3. t.bins = bins /\ t.reg = reg /\ t.stack = stack /\ Become(t) /\ IsState(t)
  <2> DEFINE h1 == [heap EXCEPT ![l].cells[i] = c]
             t1 == [m EXCEPT !.heap[l].cells[i] = c]
             h == [h1 EXCEPT ![l].cells[i + 1] = c]
  <2>1. t1 = [heap |-> h1, bins |-> bins, reg |-> reg, stack |-> stack] BY DEF m
  <2>2. t = [t1 EXCEPT !.heap[l].cells[i + 1] = c] OBVIOUS
  <2> HIDE DEF h1, t1
  <2>3. t = [heap |-> h, bins |-> bins, reg |-> reg, stack |-> stack] BY <2>1, <2>2
  <2> HIDE DEF h, t
  <2>4. IsState(t) /\ t.bins = bins /\ t.reg = reg /\ t.stack = stack BY <2>3 DEF IsState
  <2>5. Become(t) BY DEF t
  <2>6. QED BY <2>4, <2>5
<1>4. t.heap = [heap EXCEPT ![l].cells = cells]
  <2>1. t.heap = [heap EXCEPT ![l].cells[i] = c, ![l].cells[i + 1] = c] BY DEF m
  <2>2. heap[l] \in BlockOf /\ DOMAIN heap = 1..Len(heap) BY <1>1
  <2> DEFINE b == heap[l]
             b1 == [b EXCEPT !.cells = [old EXCEPT ![i] = c]]
             b2 == [b1 EXCEPT !.cells = [b1.cells EXCEPT ![i + 1] = c]]
  <2>3. b1.cells = [old EXCEPT ![i] = c] BY <2>2 DEF BlockOf
  <2>4. b2 = [b EXCEPT !.cells = cells] BY <2>2, <2>3 DEF BlockOf
  <2> DEFINE h1 == [heap EXCEPT ![l] = b1]
  <2>5. h1[l] = b1 OBVIOUS
  <2>6. t.heap = [h1 EXCEPT ![l] = b2] BY <2>1, <2>5
  <2> HIDE DEF b1, b2
  <2>7. t.heap = [heap EXCEPT ![l] = b2] BY <2>6
  <2>8. QED BY <2>4, <2>7
<1> HIDE DEF t
<1>5. heap[l] \in BlockOf BY <1>1, LaidType
<1>6. old \in Seq(Cell) /\ \A n \in DOMAIN old : Held(heap, old[n]) BY <1>1, <1>5 DEF CellsOf, BlockOf
<1>7. i \in DOMAIN old /\ i + 1 \in DOMAIN old OBVIOUS
<1> HIDE DEF old
<1>8. cells \in Seq(Cell) /\ Len(cells) = Len(old) /\ DOMAIN cells = DOMAIN old
  <2>1. Len(old) \in Nat /\ old \in [1..Len(old) -> Cell] /\ DOMAIN old = 1..Len(old) BY <1>6
  <2>2. cells \in [1..Len(old) -> Cell] BY <1>2, <2>1
  <2> HIDE DEF cells
  <2>3. cells \in Seq(Cell) /\ Len(cells) = Len(old) /\ DOMAIN cells = 1..Len(old) BY <2>1, <2>2
  <2>4. QED BY <2>1, <2>3
<1>9. \A n \in DOMAIN cells : Held(heap, cells[n]) BY <1>6, <1>7, <1>8
<1> HIDE DEF cells
<1>10. Len(cells) = Len(heap[l].cells) BY <1>8 DEF old
<1>11. QED BY <1>3, <1>4, <1>8, <1>9, <1>10, WritesSound

LEMMA AUGATLInv ==
  ASSUME StorageAssumption, ~Stale, Inv, AUGATL
  PROVE Inv'
<1> DEFINE y == reg["YPTR"]
           l == Top(heap, y.a)
           pairs == heap[l].cells
           free == {i \in DOMAIN pairs : i % 2 = 1 /\ pairs[i] = Zero}
           n == Len(pairs) + 2
           s == Provided(m, n)
           k == Top(s.heap, s.reg["YPTR"].a)
           long == [s EXCEPT !.heap = Block(s, s.heap[k].cells \o <<s.reg["XPTR"], s.reg["XPTR"]>>),
                             !.reg["YPTR"] = Free(s)]
<1>1. /\ y.p /\ l # 0 /\ Len(pairs) % 2 = 0
      /\ free = {} => Allocate(m, n, long)
      /\ free # {} => /\ xocbsc' = xocbsc /\ brktb' = brktb
                      /\ Become([m EXCEPT !.heap[l].cells[Min(free)] = reg["XPTR"],
                                          !.heap[l].cells[Min(free) + 1] = reg["XPTR"]])
  BY DEF AUGATL, Still
<1>2. "XPTR" \in Regs /\ "YPTR" \in Regs BY RegsAre
<1>3. Laid(heap) /\ CellsOf(heap) /\ Good(m) /\ m.heap = heap /\ m.reg = reg BY InvIs
<1>4. Held(heap, y) /\ Held(heap, reg["XPTR"]) BY <1>2, InvIs
<1>5. In(y)
  <2>1. y.a \in Int /\ HDSGPT \in Int BY <1>4 DEF Held, Cell, StorageAssumption
  <2>2. y.a < HDSGPT => l = 0 BY <1>3, <2>1, TopBelow
  <2>3. ~(y.a < HDSGPT) BY <1>1, <2>2
  <2> HIDE DEF y
  <2>4. y.a >= HDSGPT BY <2>1, <2>3
  <2>5. QED BY <1>1, <2>4 DEF In
<1>6. l \in DOMAIN heap BY <1>3, <1>4, <1>5, HeldIn
<1>7. pairs \in Seq(Cell)
  <2>1. heap[l] \in BlockOf BY <1>3, <1>6, LaidType
  <2>2. QED BY <2>1 DEF BlockOf
<1>8. CASE free = {}
  <2>1. Sound(m, brktb, xocbsc) BY DEF Inv
  <2>2. ASSUME Sound(s, brktb, xocbsc), n <= Room(s) PROVE Sound(long, brktb, xocbsc)
    <3>1. k \in DOMAIN s.heap /\ Len(s.heap[k].cells) = Len(pairs)
      <4>1. CASE n <= Room(m) BY <1>3, <1>6, <4>1 DEF Provided
      <4>2. CASE ~(n <= Room(m))
        <5>1. s = GC(m) BY <4>2 DEF Provided
        <5>2. In(m.reg["YPTR"]) BY <1>3, <1>5
        <5> HIDE DEF s, n
        <5>3. QED BY <1>2, <1>3, <5>1, <5>2, GCCells
      <4>3. QED BY <4>1, <4>2
    <3>2. Len(s.heap[k].cells) + 2 <= Room(s) BY <2>2, <3>1
    <3>3. long = With(s, Block(s, s.heap[k].cells \o <<s.reg["XPTR"], s.reg["XPTR"]>>), "YPTR", Free(s)) BY DEF With
    <3> HIDE DEF s, k, long
    <3>4. QED BY <2>2, <3>1, <3>2, <3>3, LongerSound
  <2> HIDE DEF long
  <2>3. Allocate(m, n, long) BY <1>1, <1>8
  <2> HIDE DEF n
  <2>4. QED BY <2>1, <2>2, <2>3, AllocateSound
<1>9. CASE free # {}
  <2> DEFINE i == Min(free)
  <2>1. i \in free
    <3>1. free \subseteq Nat BY <1>7
    <3> HIDE DEF free
    <3>2. QED BY <1>9, <3>1, MinIs
  <2>2. i \in DOMAIN pairs /\ i % 2 = 1 BY <2>1
  <2>3. Become([m EXCEPT !.heap[l].cells[i] = reg["XPTR"], !.heap[l].cells[i + 1] = reg["XPTR"]])
        /\ xocbsc' = xocbsc /\ brktb' = brktb
    BY <1>1, <1>9
  <2> HIDE DEF i, free
  <2>4. i + 1 \in DOMAIN pairs
    <3>1. DOMAIN pairs = 1..Len(pairs) /\ Len(pairs) \in Nat BY <1>7
    <3>2. i \in 1..Len(pairs) /\ i % 2 = 1 BY <2>2, <3>1
    <3>3. i # Len(pairs)
      <4> SUFFICES ASSUME i = Len(pairs) PROVE FALSE OBVIOUS
      <4>1. Len(pairs) % 2 = 0 BY <1>1
      <4>2. i % 2 = 1 /\ i = Len(pairs) BY <2>2
      <4>3. Len(pairs) % 2 = 1 BY <4>2
      <4> HIDE DEF pairs
      <4>4. QED BY <4>1, <4>3
    <3> DEFINE L == Len(pairs)
    <3>4. L \in Nat /\ i \in 1..L /\ i # L /\ DOMAIN pairs = 1..L BY <3>1, <3>2, <3>3
    <3> HIDE DEF L, pairs
    <3>5. QED BY <3>4
  <2> HIDE DEF l
  <2>5. QED BY <1>4, <1>6, <2>2, <2>3, <2>4, PairInv
<1>10. QED BY <1>8, <1>9

------------------------------------------------------------------------------
\* LOCA1 changes LSTPTR and BUKPTR only.
LEMMA LocatedSound ==
  ASSUME StorageAssumption, NEW s, NEW brk, NEW x, Sound(s, brk, x), NEW t \in Strings
  PROVE /\ Sound(Located(s, t), brk, x)
        /\ IF IsThere(Located(s, t), t) THEN Present(Located(s, t), t) ELSE Absent(Located(s, t), t)
<1> DEFINE l == Located(s, t)
<1>1. Good(s) /\ Len(s.stack) <= MaxStack BY DEF Sound
<1>2. /\ Good(l) /\ l.heap = s.heap /\ l.stack = s.stack
      /\ \A y \in Regs \ {"LSTPTR", "BUKPTR"} : l.reg[y] = s.reg[y]
      /\ IF IsThere(l, t) THEN Present(l, t) ELSE Absent(l, t)
  BY <1>1, LocatedIs
<1> HIDE DEF l
<1>3. l.reg["TBLBCS"] = s.reg["TBLBCS"] /\ l.reg["OCBSCL"] = s.reg["OCBSCL"] BY <1>2, RegsAre
<1>4. Stays(s.heap, l.heap)
  <2>1. Laid(s.heap) BY <1>1 DEF Good
  <2>2. FRSGPT(s.heap) \in Int BY <2>1, LaidEnds
  <2>3. QED BY <1>2, <2>1, <2>2 DEF Stays
<1>5. Sound(l, brk, x) BY <1>1, <1>2, <1>3, <1>4, StaysSound
<1>6. QED BY <1>2, <1>5 DEF l

LEMMA FoundSound ==
  ASSUME StorageAssumption, NEW s, NEW brk, NEW x, Sound(s, brk, x), NEW t \in Strings, Present(s, t)
  PROVE Sound(Found(s, t), brk, x)
<1> DEFINE e == Found(s, t)
<1>1. Good(s) /\ Len(s.stack) <= MaxStack BY DEF Sound
<1>2. Laid(s.heap) /\ s.reg \in [Regs -> Cell] /\ (\A y \in Regs : Held(s.heap, s.reg[y]))
      /\ s.stack \in Seq(Cell) /\ \A i \in DOMAIN s.stack : Held(s.heap, s.stack[i])
  BY <1>1 DEF Good
<1>3. e = [s EXCEPT !.reg["XPTR"] = s.reg["BUKPTR"]] BY DEF Found
<1> HIDE DEF e
<1>4. s = [heap |-> s.heap, bins |-> s.bins, reg |-> s.reg, stack |-> s.stack] BY <1>1 DEF Good, IsState
<1>5. IsState(e) /\ e.heap = s.heap /\ e.bins = s.bins /\ e.stack = s.stack /\ e.reg = [s.reg EXCEPT !["XPTR"] = s.reg["BUKPTR"]]
  BY <1>3, <1>4 DEF IsState
<1>6. /\ e.reg \in [Regs -> Cell] /\ \A y \in Regs : e.reg[y] = s.reg[y] \/ e.reg[y] = s.reg["BUKPTR"]
      /\ e.reg["TBLBCS"] = s.reg["TBLBCS"] /\ e.reg["OCBSCL"] = s.reg["OCBSCL"] /\ "BUKPTR" \in Regs
  BY <1>2, <1>5, RegsAre
<1>7. \A y \in Regs : Held(s.heap, e.reg[y]) BY <1>2, <1>6
<1>8. Good(e) BY <1>1, <1>2, <1>5, <1>6, <1>7, GoodSame
<1>9. Stays(s.heap, e.heap)
  <2>1. FRSGPT(s.heap) \in Int BY <1>2, LaidEnds
  <2>2. QED BY <1>2, <1>5, <2>1 DEF Stays
<1>10. QED BY <1>1, <1>5, <1>6, <1>8, <1>9, StaysSound DEF e

LEMMA EnteredSound ==
  ASSUME StorageAssumption, NEW s, NEW brk, NEW x, Sound(s, brk, x), NEW t \in Strings, Absent(s, t),
         3 + Words[t] <= Room(s)
  PROVE Sound(Entered(s, t), brk, x)
<1> DEFINE e == Entered(s, t)
<1>1. Good(s) /\ Len(s.stack) <= MaxStack BY DEF Sound
<1>2. Laid(s.heap) /\ s.heap \in Seq(BlockOf) /\ s.reg \in [Regs -> Cell] BY <1>1 DEF Good, Laid
<1>3. FRSGPT(s.heap) + 4 + Words[t] <= TLSGP1
  <2>1. FRSGPT(s.heap) \in Int BY <1>2, LaidEnds
  <2>2. Words[t] \in Nat /\ TLSGP1 \in Nat BY DEF StorageAssumption
  <2>3. QED BY <2>1, <2>2 DEF Room
<1>4. Good(e) /\ Entering(s, t, e) BY <1>1, <1>3, EnteredGood
<1> HIDE DEF e
<1>5. /\ e.stack = s.stack /\ e.reg = [s.reg EXCEPT !["XPTR"] = Free(s)]
      /\ Laid(e.heap) /\ Len(e.heap) = Len(s.heap) + 1 /\ FRSGPT(s.heap) < FRSGPT(e.heap)
      /\ \A k \in DOMAIN s.heap : e.heap[k].a = s.heap[k].a /\ e.heap[k].id = s.heap[k].id
  BY <1>4 DEF Entering
<1>6. e.reg["TBLBCS"] = s.reg["TBLBCS"] /\ e.reg["OCBSCL"] = s.reg["OCBSCL"] BY <1>2, <1>5, RegsAre
<1>7. Stays(s.heap, e.heap)
  <2>1. FRSGPT(s.heap) \in Int /\ FRSGPT(e.heap) \in Int BY <1>2, <1>5, LaidEnds
  <2>2. e.heap \in Seq(BlockOf) BY <1>5 DEF Laid
  <2>3. \A k \in DOMAIN s.heap : k \in DOMAIN e.heap BY <1>2, <1>5, <2>2
  <2>4. QED BY <1>5, <2>1, <2>3 DEF Stays
<1>8. QED BY <1>1, <1>4, <1>5, <1>6, <1>7, StaysSound DEF e

\* GENVAR: between LOCA1 and entering the string there may be a regeneration.
LEMMA GENVARInv ==
  ASSUME StorageAssumption, ~Stale, Inv, GENVAR
  PROVE Inv'
<1>1. PICK t \in Strings :
        LET l == Located(m, t)
            n == 3 + Words[t]
        IN IF IsThere(l, t) THEN Step /\ Become(Found(l, t)) /\ Still ELSE Allocate(l, n, Entered(Provided(l, n), t))
  BY DEF GENVAR
<1> DEFINE l == Located(m, t)
           n == 3 + Words[t]
           s == Provided(l, n)
<1>2. Sound(m, brktb, xocbsc) BY DEF Inv
<1>3. Sound(l, brktb, xocbsc) /\ IF IsThere(l, t) THEN Present(l, t) ELSE Absent(l, t) BY <1>2, LocatedSound
<1>4. IF IsThere(l, t) THEN Become(Found(l, t)) /\ Still ELSE Allocate(l, n, Entered(s, t)) BY <1>1
<1> HIDE DEF l
<1>5. CASE IsThere(l, t)
  <2>1. Sound(Found(l, t), brktb, xocbsc) BY <1>3, <1>5, FoundSound
  <2>2. Sound(Found(l, t), brktb', xocbsc') /\ Become(Found(l, t)) BY <1>4, <1>5, <2>1 DEF Still
  <2>3. QED BY <2>2, Becomes
<1>6. CASE ~IsThere(l, t)
  <2>1. Absent(s, t)
    <3>1. CASE n <= Room(l) BY <1>3, <1>6, <3>1 DEF Provided
    <3>2. CASE ~(n <= Room(l))
      <4>1. s = GC(l) BY <3>2 DEF Provided
      <4>2. Good(l) /\ Absent(l, t) BY <1>3, <1>6 DEF Sound
      <4>3. QED BY <4>1, <4>2, AbsentKept
    <3>3. QED BY <3>1, <3>2
  <2>2. ASSUME Sound(s, brktb, xocbsc), n <= Room(s) PROVE Sound(Entered(s, t), brktb, xocbsc)
    <3> HIDE DEF s
    <3>1. QED BY <2>1, <2>2, EnteredSound
  <2>3. Allocate(l, n, Entered(s, t)) BY <1>4, <1>6
  <2> HIDE DEF n
  <2>4. QED BY <1>3, <2>2, <2>3, AllocateSound
<1>7. QED BY <1>5, <1>6

LEMMA CONVARInv ==
  ASSUME StorageAssumption, ~Stale, Inv, CONVAR
  PROVE Inv'
<1>1. PICK t \in Strings : \E n \in Words[t]..Words[t] + 1 : Allocate(m, 3 + n, Loca1(Provided(m, 3 + n), t)) BY DEF CONVAR
<1>2. PICK n \in Words[t]..Words[t] + 1 : Allocate(m, 3 + n, Loca1(Provided(m, 3 + n), t)) BY <1>1
<1> DEFINE k == 3 + n
           s == Provided(m, k)
           l == Located(s, t)
<1>3. Sound(m, brktb, xocbsc) BY DEF Inv
<1>4. ASSUME Sound(s, brktb, xocbsc), k <= Room(s) PROVE Sound(Loca1(s, t), brktb, xocbsc)
  <2>1. Sound(l, brktb, xocbsc) /\ IF IsThere(l, t) THEN Present(l, t) ELSE Absent(l, t)
    <3> HIDE DEF s
    <3>1. QED BY <1>4, LocatedSound
  <2>2. Room(l) = Room(s) /\ Room(l) \in Int
    <3>1. Good(s) BY <1>4 DEF Sound
    <3> HIDE DEF s
    <3>2. l.heap = s.heap BY <3>1, LocatedIs
    <3>3. FRSGPT(s.heap) \in Int /\ TLSGP1 \in Nat BY <3>1, LaidEnds DEF Good, StorageAssumption
    <3>4. QED BY <3>2, <3>3 DEF Room
  <2>3. 3 + Words[t] <= Room(l)
    <3>1. Words[t] \in Nat /\ n \in Int /\ Words[t] <= n BY DEF StorageAssumption
    <3> HIDE DEF s, l
    <3>2. QED BY <1>4, <2>2, <3>1
  <2>4. Loca1(s, t) = IF IsThere(l, t) THEN Found(l, t) ELSE Entered(l, t) BY DEF Loca1
  <2> HIDE DEF l, s
  <2>5. CASE IsThere(l, t) BY <2>1, <2>4, <2>5, FoundSound
  <2>6. CASE ~IsThere(l, t) BY <2>1, <2>3, <2>4, <2>6, EnteredSound
  <2>7. QED BY <2>5, <2>6
<1>5. Allocate(m, k, Loca1(s, t)) BY <1>2
<1> HIDE DEF k
<1>6. QED BY <1>3, <1>4, <1>5, AllocateSound

------------------------------------------------------------------------------
\* A block with two in its place.
Halves(h, k, x, y) == [j \in 1..Len(h) + 1 |-> IF j < k THEN h[j] ELSE IF j = k THEN x ELSE IF j = k + 1 THEN y ELSE h[j - 1]]

Joined(X, w, p, r, M, n) ==
  w \in Seq(X) /\ Len(w) = M + n /\ (\A j \in 1..M : w[j] = p[j]) /\ \A j \in 1..n : w[M + j] = r[j]

LEMMA ConcatIs ==
  ASSUME NEW X, NEW p \in Seq(X), NEW r \in Seq(X), NEW M \in Nat, Len(p) = M, NEW n \in Nat, Len(r) = n
  PROVE Joined(X, p \o r, p, r, M, n)
BY DEF Joined

LEMMA PartIs ==
  ASSUME NEW X, NEW s \in Seq(X), NEW i \in 1..Len(s) + 1, NEW j \in 0..Len(s), i <= j + 1
  PROVE /\ SubSeq(s, i, j) \in Seq(X) /\ Len(SubSeq(s, i, j)) = j - i + 1
        /\ \A n \in 1..j - i + 1 : SubSeq(s, i, j)[n] = s[i + n - 1]
OBVIOUS

Halved(X, h, k, x, y, g) ==
  /\ g \in Seq(X) /\ Len(g) = Len(h) + 1
  /\ \A j \in 1..Len(h) + 1 : g[j] = IF j < k THEN h[j] ELSE IF j = k THEN x ELSE IF j = k + 1 THEN y ELSE h[j - 1]

LEMMA HalvesIs ==
  ASSUME NEW X, NEW h \in Seq(X), NEW k \in DOMAIN h, NEW x \in X, NEW y \in X,
         NEW new, new = SubSeq(h, 1, k - 1) \o <<x, y>> \o SubSeq(h, k + 1, Len(h))
  PROVE Halved(X, h, k, x, y, new)
<1> DEFINE N == Len(h)
           g == Halves(h, k, x, y)
           p == SubSeq(h, 1, k - 1)
           r == SubSeq(h, k + 1, N)
           c == p \o <<x, y>> \o r
<1>1. N \in Nat /\ h \in [1..N -> X] /\ k \in 1..N /\ k \in Nat OBVIOUS
<1>2. \A j \in 1..N + 1 : g[j] = IF j < k THEN h[j] ELSE IF j = k THEN x ELSE IF j = k + 1 THEN y ELSE h[j - 1]
  BY DEF Halves
<1>3. g \in [1..N + 1 -> X]
  <2>1. ASSUME NEW j \in 1..N + 1 PROVE g[j] \in X
    <3>1. CASE j < k BY <1>1, <1>2, <3>1
    <3>2. CASE j = k \/ j = k + 1 BY <1>1, <1>2, <3>2
    <3>3. CASE j > k + 1
      <4>1. j - 1 \in 1..N BY <1>1, <3>3
      <4>0. ~(j < k) /\ j # k /\ j # k + 1 BY <1>1, <3>3
      <4> HIDE DEF g
      <4>2. g[j] = h[j - 1] BY <1>2, <4>0
      <4>3. QED BY <1>1, <4>1, <4>2
    <3>4. QED BY <1>1, <3>1, <3>2, <3>3
  <2>2. g = [j \in 1..N + 1 |-> g[j]] BY DEF Halves
  <2> HIDE DEF g
  <2>3. QED BY <2>1, <2>2
<1>4. p \in Seq(X) /\ Len(p) = k - 1 /\ \A j \in 1..k - 1 : p[j] = h[j] BY <1>1
<1>5. r \in Seq(X) /\ Len(r) = N - k /\ \A j \in 1..N - k : r[j] = h[k + j]
  <2>1. k + 1 \in 1..Len(h) + 1 /\ N \in 0..Len(h) /\ k + 1 <= N + 1 /\ N - (k + 1) + 1 = N - k BY <1>1
  <2>2. r \in Seq(X) /\ Len(r) = N - (k + 1) + 1 /\ \A j \in 1..N - (k + 1) + 1 : r[j] = h[k + 1 + j - 1] BY <2>1, PartIs
  <2>3. \A j \in 1..N - k : k + 1 + j - 1 = k + j BY <1>1
  <2> HIDE DEF r, N
  <2>4. QED BY <2>1, <2>2, <2>3
<1> HIDE DEF p, r, g, N
<1>6. g \in Seq(X) /\ Len(g) = N + 1 BY <1>1, <1>3
<1> DEFINE q == p \o <<x, y>>
<1>7. q \in Seq(X) /\ Len(q) = k + 1 /\ (\A j \in 1..k - 1 : q[j] = p[j]) /\ q[k] = x /\ q[k + 1] = y
  <2>1. <<x, y>> \in Seq(X) /\ Len(<<x, y>>) = 2 /\ <<x, y>>[1] = x /\ <<x, y>>[2] = y OBVIOUS
  <2> DEFINE u == <<x, y>>
  <2> HIDE DEF u
  <2>2. u \in Seq(X) /\ Len(u) = 2 /\ u[1] = x /\ u[2] = y BY <2>1 DEF u
  <2> DEFINE v == p \o u
  <2>0. k - 1 \in Nat /\ 2 \in Nat BY <1>1
  <2>3. v \in Seq(X) /\ Len(v) = k - 1 + 2 /\ (\A j \in 1..k - 1 : v[j] = p[j])
        /\ \A j \in 1..2 : v[k - 1 + j] = u[j]
    <3>1. Joined(X, v, p, u, k - 1, 2) BY <1>4, <2>2, <2>0, ConcatIs
    <3> HIDE DEF v
    <3>2. QED BY <3>1 DEF Joined
  <2> HIDE DEF v
  <2>4. v \in Seq(X) /\ Len(v) = k + 1 /\ (\A j \in 1..k - 1 : v[j] = p[j]) /\ v[k] = u[1] /\ v[k + 1] = u[2]
    <3>1. k - 1 + 1 = k /\ k - 1 + 2 = k + 1 /\ 1 \in 1..2 /\ 2 \in 1..2 BY <1>1
    <3>2. v[k - 1 + 1] = u[1] /\ v[k - 1 + 2] = u[2] BY <2>3, <3>1
    <3>3. QED BY <2>3, <3>1, <3>2
  <2>5. q = v BY DEF u, v
  <2>6. QED BY <2>2, <2>4, <2>5
<1> HIDE DEF q
<1>8. c \in Seq(X) /\ Len(c) = N + 1 /\ (\A j \in 1..k + 1 : c[j] = q[j]) /\ \A j \in k + 2..N + 1 : c[j] = r[j - k - 1]
  <2> DEFINE w == q \o r
  <2>0. k + 1 \in Nat /\ N - k \in Nat BY <1>1
  <2>1. w \in Seq(X) /\ Len(w) = k + 1 + (N - k) /\ (\A j \in 1..k + 1 : w[j] = q[j])
        /\ \A j \in 1..N - k : w[k + 1 + j] = r[j]
    <3>1. Joined(X, w, q, r, k + 1, N - k) BY <1>5, <1>7, <2>0, ConcatIs
    <3> HIDE DEF w
    <3>2. QED BY <3>1 DEF Joined
  <2>2. c = w BY DEF q
  <2> HIDE DEF w, c
  <2>3. k + 1 + (N - k) = N + 1 BY <1>1
  <2>4. \A j \in k + 2..N + 1 : j - k - 1 \in 1..N - k /\ k + 1 + (j - k - 1) = j BY <1>1
  <2>5. \A j \in k + 2..N + 1 : w[j] = r[j - k - 1]
    <3> TAKE j \in k + 2..N + 1
    <3>1. j - k - 1 \in 1..N - k /\ k + 1 + (j - k - 1) = j BY <2>4
    <3>2. w[k + 1 + (j - k - 1)] = r[j - k - 1] BY <2>1, <3>1
    <3>3. QED BY <3>1, <3>2
  <2>6. QED BY <2>1, <2>2, <2>3, <2>5
<1> HIDE DEF c
<1>9. ASSUME NEW j \in 1..N + 1 PROVE c[j] = g[j]
  <2>1. CASE j < k
    <3>1. j \in 1..k - 1 /\ j \in 1..k + 1 BY <1>1, <2>1
    <3>2. QED BY <1>2, <1>4, <1>7, <1>8, <2>1, <3>1
  <2>2. CASE j = k
    <3>1. j \in 1..k + 1 /\ ~(j < k) BY <1>1, <2>2
    <3>2. QED BY <1>2, <1>7, <1>8, <2>2, <3>1
  <2>3. CASE j = k + 1
    <3>1. j \in 1..k + 1 /\ ~(j < k) /\ j # k BY <1>1, <2>3
    <3>2. QED BY <1>2, <1>7, <1>8, <2>3, <3>1
  <2>4. CASE j > k + 1
    <3>1. j \in k + 2..N + 1 /\ j - k - 1 \in 1..N - k /\ k + (j - k - 1) = j - 1 BY <1>1, <2>4
    <3>2. c[j] = h[j - 1] BY <1>5, <1>8, <3>1
    <3>3. ~(j < k) /\ j # k /\ j # k + 1 BY <1>1, <2>4
    <3>4. QED BY <1>2, <3>2, <3>3
  <2>5. QED BY <1>1, <2>1, <2>2, <2>3, <2>4
<1>10. c = g BY <1>6, <1>8, <1>9, SameSeq
<1>11. new = g
  <2>1. new = c BY DEF c, p, r, N
  <2>2. QED BY <1>10, <2>1
<1>12. \A j \in 1..Len(h) + 1 : new[j] = IF j < k THEN h[j] ELSE IF j = k THEN x ELSE IF j = k + 1 THEN y ELSE h[j - 1]
  BY <1>2, <1>11 DEF N
<1>13. QED BY <1>6, <1>11, <1>12 DEF Halved, N

\* One block in two: what is laid out, where it ends and what it holds.
Split(h, g, k, i, new) ==
  /\ g \in Seq(BlockOf) /\ Len(g) = Len(h) + 1
  /\ \A j \in 1..Len(h) + 1 :
       /\ j < k => g[j] = h[j]
       /\ j = k => g[j].a = h[k].a /\ g[j].id = h[k].id /\ g[j].cells = SubSeq(h[k].cells, 1, i)
       /\ j = k + 1 => g[j].a = h[k].a + i + 1 /\ g[j].id = new /\ g[j].cells = SubSeq(h[k].cells, i + 2, Len(h[k].cells))
       /\ j > k + 1 => g[j] = h[j - 1]

LEMMA SplitLaid ==
  ASSUME StorageAssumption, NEW h, Laid(h), NEW k \in DOMAIN h, h[k].id \in Ids, NEW i \in Nat, i > 0, i + 1 < Len(h[k].cells),
         NEW new \in Ids, NEW g, Split(h, g, k, i, new)
  PROVE Laid(g) /\ FRSGPT(g) = FRSGPT(h)
<1> DEFINE N == Len(h)
           L == Len(h[k].cells)
<1>1. N \in Nat /\ DOMAIN h = 1..N /\ k \in 1..N /\ k \in Nat BY DEF Laid
<1>2. h[k] \in BlockOf /\ h[k].a \in Int BY LaidType
<1>3. h[k].cells \in Seq(Cell) /\ L \in Nat BY <1>2 DEF BlockOf
<1>4. /\ g \in Seq(BlockOf) /\ Len(g) = N + 1 /\ \A j \in 1..N + 1 :
         /\ j < k => g[j] = h[j]
         /\ j = k => g[j].a = h[k].a /\ g[j].id = h[k].id /\ g[j].cells = SubSeq(h[k].cells, 1, i)
         /\ j = k + 1 => g[j].a = h[k].a + i + 1 /\ g[j].id = new /\ g[j].cells = SubSeq(h[k].cells, i + 2, L)
         /\ j > k + 1 => g[j] = h[j - 1]
  BY DEF Split
<1>5. h[k].id \notin Strings /\ new \notin Strings BY DEF StorageAssumption
<1>6. Size(h[k]) = L + 1 BY <1>5 DEF Size
<1>7. g[k].a = h[k].a /\ Size(g[k]) = i + 1
  <2>1. k \in 1..N + 1 BY <1>1
  <2>2. g[k].id = h[k].id /\ g[k].a = h[k].a /\ g[k].cells = SubSeq(h[k].cells, 1, i) BY <1>4, <2>1
  <2>3. 1 \in 1..L + 1 /\ i \in 0..L /\ 1 <= i + 1 /\ i - 1 + 1 = i BY <1>3
  <2>4. Len(SubSeq(h[k].cells, 1, i)) = i - 1 + 1 BY <1>3, <2>3, PartIs
  <2>5. Size(g[k]) = Len(g[k].cells) + 1 BY <1>5, <2>2 DEF Size
  <2>6. QED BY <2>2, <2>3, <2>4, <2>5
<1>8. g[k + 1].a = h[k].a + i + 1 /\ Size(g[k + 1]) = L - i
  <2>1. k + 1 \in 1..N + 1 BY <1>1
  <2>2. g[k + 1].id = new /\ g[k + 1].a = h[k].a + i + 1 /\ g[k + 1].cells = SubSeq(h[k].cells, i + 2, L) BY <1>4, <2>1
  <2>3. i + 2 \in 1..L + 1 /\ L \in 0..L /\ i + 2 <= L + 1 /\ L - (i + 2) + 1 + 1 = L - i BY <1>3
  <2>4. Len(SubSeq(h[k].cells, i + 2, L)) = L - (i + 2) + 1 BY <1>3, <2>3, PartIs
  <2>5. Size(g[k + 1]) = Len(g[k + 1].cells) + 1 BY <1>5, <2>2 DEF Size
  <2>6. QED BY <2>2, <2>3, <2>4, <2>5
<1> HIDE DEF N, L
<1>9. \A j \in 1..N - 1 : h[j + 1].a = h[j].a + Size(h[j]) BY DEF Laid, N
<1>10. N > 0 => h[1].a = HDSGPT BY DEF Laid, N
<1>11. \A j \in 1..N : h[j].a \in Int /\ Size(h[j]) \in Nat BY <1>1, LaidType
<1>12. g[1].a = HDSGPT
  <2>1. 1 \in 1..N + 1 /\ N > 0 BY <1>1
  <2>2. CASE k = 1 BY <1>7, <1>10, <2>1, <2>2
  <2>3. CASE k # 1
    <3>1. 1 < k BY <1>1, <2>3
    <3>2. QED BY <1>4, <1>10, <2>1, <3>1
  <2>4. QED BY <2>2, <2>3
<1>13. ASSUME NEW j \in 1..N PROVE g[j + 1].a = g[j].a + Size(g[j])
  <2>1. j \in 1..N + 1 /\ j + 1 \in 1..N + 1 /\ j \in Nat BY <1>1
  <2>2. CASE j < k - 1
    <3>1. j < k /\ j + 1 < k /\ j \in 1..N - 1 BY <1>1, <2>1, <2>2
    <3>2. g[j] = h[j] /\ g[j + 1] = h[j + 1] BY <1>4, <2>1, <3>1
    <3>3. QED BY <1>9, <3>1, <3>2
  <2>3. CASE j = k - 1
    <3>1. j < k /\ j + 1 = k /\ j \in 1..N - 1 BY <1>1, <2>1, <2>3
    <3>2. g[j] = h[j] /\ h[j + 1].a = h[j].a + Size(h[j]) BY <1>4, <1>9, <2>1, <3>1
    <3>3. QED BY <1>7, <3>1, <3>2
  <2>4. CASE j = k BY <1>2, <1>7, <1>8, <2>4
  <2>5. CASE j = k + 1
    <3>1. k \in 1..N - 1 /\ j + 1 > k + 1 /\ (j + 1) - 1 = k + 1 BY <1>1, <2>1, <2>5
    <3>2. g[j + 1] = h[k + 1] BY <1>4, <2>1, <3>1
    <3>3. h[k + 1].a = h[k].a + (L + 1) BY <1>6, <1>9, <3>1
    <3>4. QED BY <1>2, <1>3, <1>8, <2>5, <3>2, <3>3
  <2>6. CASE j > k + 1
    <3>1. j - 1 \in 1..N - 1 /\ j + 1 > k + 1 /\ (j + 1) - 1 = j /\ (j - 1) + 1 = j BY <1>1, <2>1, <2>6
    <3>2. g[j + 1] = h[j] /\ g[j] = h[j - 1] BY <1>4, <2>1, <2>6, <3>1
    <3>3. h[(j - 1) + 1].a = h[j - 1].a + Size(h[j - 1]) BY <1>9, <3>1
    <3>4. QED BY <3>1, <3>2, <3>3
  <2>7. QED BY <1>1, <2>1, <2>2, <2>3, <2>4, <2>5, <2>6
<1>14. Laid(g)
  <2>1. Len(g) - 1 = N BY <1>1, <1>4
  <2>2. QED BY <1>4, <1>12, <1>13, <2>1 DEF Laid
<1>15. FRSGPT(g) = FRSGPT(h)
  <2>1. FRSGPT(g) = g[N + 1].a + Size(g[N + 1])
    <3>1. g # <<>> BY <1>1, <1>4
    <3>2. Last(g) = g[N + 1] BY <1>4 DEF Last
    <3>3. QED BY <3>1, <3>2 DEF FRSGPT
  <2>2. FRSGPT(h) = h[N].a + Size(h[N])
    <3>1. h # <<>> BY <1>1
    <3>2. Last(h) = h[N] BY DEF Last, N
    <3>3. QED BY <3>1, <3>2 DEF FRSGPT
  <2>3. CASE k = N BY <1>2, <1>3, <1>6, <1>8, <2>1, <2>2, <2>3
  <2>4. CASE k # N
    <3>1. N + 1 \in 1..N + 1 /\ N + 1 > k + 1 /\ (N + 1) - 1 = N BY <1>1, <2>4
    <3>2. g[N + 1] = h[N] BY <1>4, <3>1
    <3>3. QED BY <2>1, <2>2, <3>2
  <2>5. QED BY <2>3, <2>4
<1>16. QED BY <1>14, <1>15

LEMMA SplitSound ==
  ASSUME StorageAssumption, NEW s, NEW brk, NEW x, Sound(s, brk, x),
         NEW k \in DOMAIN s.heap, s.heap[k].id \in Ids, NEW i \in Nat, i > 0, i + 1 < Len(s.heap[k].cells),
         NEW new \in Ids, \A j \in DOMAIN s.heap : s.heap[j].id # new,
         NEW t, IsState(t), Split(s.heap, t.heap, k, i, new), t.bins = s.bins, t.reg = s.reg, t.stack = s.stack
  PROVE Sound(t, brk, x)
<1> DEFINE h == s.heap
           N == Len(h)
           g == t.heap
           at(j) == IF j <= k THEN j ELSE j + 1
<1>1. Good(s) /\ Len(s.stack) <= MaxStack BY DEF Sound
<1>2. /\ Laid(h) /\ h \in Seq(BlockOf) /\ IdsOf(h) /\ CellsOf(h) /\ BinsOf(s) /\ FRSGPT(h) <= TLSGP1
      /\ s.reg \in [Regs -> Cell] /\ (\A y \in Regs : Held(h, s.reg[y]))
      /\ s.stack \in Seq(Cell) /\ \A j \in DOMAIN s.stack : Held(h, s.stack[j])
  BY <1>1 DEF Good, Laid
<1>3. N \in Nat /\ DOMAIN h = 1..N /\ k \in 1..N /\ k \in Nat BY <1>2
<1>4. Laid(g) /\ FRSGPT(g) = FRSGPT(h) BY <1>2, SplitLaid
<1>5. \A c : Held(h, c) => Held(g, c) BY <1>4 DEF Held
<1>6. /\ g \in Seq(BlockOf) /\ Len(g) = N + 1 /\ \A j \in 1..N + 1 :
         /\ j < k => g[j] = h[j]
         /\ j = k => g[j].a = h[k].a /\ g[j].id = h[k].id /\ g[j].cells = SubSeq(h[k].cells, 1, i)
         /\ j = k + 1 => g[j].a = h[k].a + i + 1 /\ g[j].id = new /\ g[j].cells = SubSeq(h[k].cells, i + 2, Len(h[k].cells))
         /\ j > k + 1 => g[j] = h[j - 1]
  BY DEF Split
<1>7. DOMAIN g = 1..N + 1 BY <1>3, <1>6
<1>8. h[k].id \notin Strings /\ new \notin Strings BY DEF StorageAssumption
<1>9. \A j \in 1..N : h[j].id # new BY <1>3
<1> HIDE DEF h, g, N
<1>10. \A j \in 1..N : at(j) \in 1..N + 1 BY <1>3
<1>11. \A j \in 1..N : /\ g[at(j)].a = h[j].a /\ g[at(j)].id = h[j].id
                       /\ j # k => g[at(j)] = h[j]
  <2> TAKE j \in 1..N
  <2>1. CASE j < k BY <1>3, <1>6, <1>10, <2>1
  <2>2. CASE j = k BY <1>3, <1>6, <1>10, <2>2
  <2>3. CASE j > k
    <3>1. j + 1 \in 1..N + 1 /\ j + 1 > k + 1 /\ (j + 1) - 1 = j /\ at(j) = j + 1 BY <1>3, <2>3
    <3>2. g[j + 1] = h[j] BY <1>6, <3>1
    <3>3. QED BY <3>1, <3>2
  <2>4. QED BY <1>3, <2>1, <2>2, <2>3
<1>12. \A j, l \in 1..N : at(j) = at(l) => j = l BY <1>3
<1>13. \A l \in 1..N + 1 : l = k + 1 \/ \E j \in 1..N : at(j) = l
  <2> TAKE l \in 1..N + 1
  <2>1. CASE l <= k BY <1>3, <2>1
  <2>2. CASE l > k + 1
    <3>1. l - 1 \in 1..N /\ at(l - 1) = l BY <1>3, <2>2
    <3>2. QED BY <3>1
  <2>3. QED BY <1>3, <2>1, <2>2
<1>14. k + 1 \in 1..N + 1 /\ g[k + 1].id = new BY <1>3, <1>6
<1> DEFINE f == [j \in DOMAIN s.heap |-> at(j)]
<1>15. \A j \in 1..N : f[j] = at(j) BY <1>3 DEF h
<1>16. f \in [DOMAIN s.heap -> DOMAIN t.heap] BY <1>3, <1>7, <1>10 DEF h, g
<1> HIDE DEF at, f
<1>17. Mapped(s, t, f)
  <2>1. \A j \in 1..N : g[f[j]].id = h[j].id /\ g[f[j]].a = h[j].a BY <1>11, <1>15
  <2>2. \A j \in 1..N : h[j].id \in Strings => g[f[j]].link = h[j].link
    <3> TAKE j \in 1..N
    <3>1. h[j].id \in Strings => j # k BY <1>8
    <3>2. j # k => g[f[j]] = h[j] BY <1>11, <1>15
    <3>3. QED BY <3>1, <3>2
  <2>3. \A j, l \in 1..N : f[j] = f[l] => j = l BY <1>12, <1>15
  <2>4. \A l \in 1..N + 1 : g[l].id \in Strings => \E j \in 1..N : f[j] = l BY <1>8, <1>13, <1>14, <1>15
  <2>5. QED BY <1>3, <1>7, <1>16, <2>1, <2>2, <2>3, <2>4 DEF Mapped, h, g
<1>18. BinsOf(t) BY <1>2, <1>17, BinsMapped DEF h
<1>19. IdsOf(g)
  <2> SUFFICES ASSUME NEW j \in 1..N + 1, NEW l \in 1..N + 1, g[j].id = g[l].id PROVE j = l BY <1>7 DEF IdsOf
  <2>1. \A m1 \in 1..N : g[at(m1)].id # new BY <1>9, <1>11
  <2>2. CASE j = k + 1
    <3>1. g[l].id = new BY <1>14, <2>2
    <3>2. QED BY <1>13, <2>1, <2>2, <3>1
  <2>3. CASE l = k + 1
    <3>1. g[j].id = new BY <1>14, <2>3
    <3>2. QED BY <1>13, <2>1, <2>3, <3>1
  <2>4. CASE j # k + 1 /\ l # k + 1
    <3>1. PICK m1 \in 1..N : at(m1) = j BY <1>13, <2>4
    <3>2. PICK m2 \in 1..N : at(m2) = l BY <1>13, <2>4
    <3>3. h[m1].id = h[m2].id BY <1>11, <3>1, <3>2
    <3>4. m1 = m2 BY <1>2, <1>3, <3>3 DEF IdsOf
    <3>5. QED BY <3>1, <3>2, <3>4
  <2>5. QED BY <2>2, <2>3, <2>4
<1>20. CellsOf(g)
  <2> SUFFICES ASSUME NEW l \in 1..N + 1
               PROVE /\ g[l].id \in Strings => Len(g[l].cells) = 2
                     /\ \A n \in DOMAIN g[l].cells : Held(g, g[l].cells[n])
    BY <1>7 DEF CellsOf
  <2>1. \A j \in 1..N : /\ h[j].id \in Strings => Len(h[j].cells) = 2
                        /\ \A n \in DOMAIN h[j].cells : Held(g, h[j].cells[n])
    BY <1>2, <1>3, <1>5 DEF CellsOf
  <2> DEFINE c == h[k].cells
             L == Len(c)
  <2>2. c \in Seq(Cell) /\ L \in Nat /\ DOMAIN c = 1..L
    <3>1. h[k] \in BlockOf BY <1>2, <1>3, LaidType
    <3>2. QED BY <3>1 DEF BlockOf
  <2>3. \A n \in 1..L : Held(g, c[n]) BY <1>3, <2>1, <2>2
  <2>4. i + 1 < L BY DEF h
  <2>5. CASE l = k
    <3>1. g[l].id \notin Strings /\ g[l].cells = SubSeq(c, 1, i) BY <1>6, <1>8, <2>5
    <3> HIDE DEF c
    <3>2. 1 \in 1..L + 1 /\ i \in 0..L /\ 1 <= i + 1 /\ i - 1 + 1 = i BY <2>2, <2>4
    <3>3. SubSeq(c, 1, i) \in Seq(Cell) /\ Len(SubSeq(c, 1, i)) = i - 1 + 1
          /\ \A n \in 1..i - 1 + 1 : SubSeq(c, 1, i)[n] = c[1 + n - 1]
      BY <2>2, <3>2, PartIs
    <3> DEFINE d == SubSeq(c, 1, i)
    <3> HIDE DEF d, L
    <3>4. DOMAIN d = 1..i /\ \A n \in 1..i : d[n] = c[1 + n - 1] BY <3>2, <3>3 DEF d
    <3>5. \A n \in 1..i : 1 + n - 1 \in 1..L BY <2>2, <2>4
    <3>6. \A n \in DOMAIN d : Held(g, d[n]) BY <2>3, <3>4, <3>5
    <3>7. QED BY <3>1, <3>6 DEF d
  <2>6. CASE l = k + 1
    <3>1. g[l].id \notin Strings /\ g[l].cells = SubSeq(c, i + 2, L) BY <1>6, <1>8, <2>6
    <3> HIDE DEF c
    <3>2. i + 2 \in 1..L + 1 /\ L \in 0..L /\ i + 2 <= L + 1 BY <2>2, <2>4
    <3>3. SubSeq(c, i + 2, L) \in Seq(Cell) /\ Len(SubSeq(c, i + 2, L)) = L - (i + 2) + 1
          /\ \A n \in 1..L - (i + 2) + 1 : SubSeq(c, i + 2, L)[n] = c[i + 2 + n - 1]
      BY <2>2, <3>2, PartIs
    <3> DEFINE d == SubSeq(c, i + 2, L)
    <3> HIDE DEF d, L
    <3>4. DOMAIN d = 1..L - (i + 2) + 1 /\ \A n \in 1..L - (i + 2) + 1 : d[n] = c[i + 2 + n - 1] BY <3>3 DEF d
    <3>5. \A n \in 1..L - (i + 2) + 1 : i + 2 + n - 1 \in 1..L BY <2>2, <2>4
    <3>6. \A n \in DOMAIN d : Held(g, d[n]) BY <2>3, <3>4, <3>5
    <3>7. QED BY <3>1, <3>6 DEF d
  <2>7. CASE l # k /\ l # k + 1
    <3>1. PICK j \in 1..N : at(j) = l BY <1>13, <2>7
    <3>2. j # k BY <1>3, <2>7, <3>1 DEF at
    <3>3. g[l] = h[j] BY <1>11, <3>1, <3>2
    <3>4. QED BY <2>1, <3>3
  <2>8. QED BY <2>5, <2>6, <2>7
<1>21. Good(t)
  <2>1. \A y \in Regs : Held(g, s.reg[y]) BY <1>2, <1>5
  <2>2. \A j \in DOMAIN s.stack : Held(g, s.stack[j]) BY <1>2, <1>5
  <2>3. QED BY <1>2, <1>4, <1>18, <1>19, <1>20, <2>1, <2>2 DEF Good, g
<1>22. Stays(s.heap, t.heap)
  <2>1. FRSGPT(h) \in Int BY <1>2, LaidEnds
  <2>2. \A j \in 1..N : \E l \in 1..N + 1 : g[l].a = h[j].a /\ g[l].id = h[j].id BY <1>10, <1>11
  <2>3. FRSGPT(h) <= FRSGPT(g) BY <1>4, <2>1
  <2>4. Stays(h, g) BY <1>3, <1>4, <1>7, <2>2, <2>3 DEF Stays
  <2>5. QED BY <2>4 DEF h, g
<1>23. QED BY <1>1, <1>21, <1>22, StaysSound

LEMMA SPLITInv ==
  ASSUME StorageAssumption, Inv, SPLIT
  PROVE Inv'
<1> DEFINE c == reg["XPTR"]
           k == Obj(c)
           i == Off(c)
           b == heap[k]
           rest == [b EXCEPT !.a = c.a + 1, !.id = Fresh(m), !.cells = SubSeq(@, i + 2, Len(@))]
           first == [b EXCEPT !.cells = SubSeq(@, 1, i)]
           g == SubSeq(heap, 1, k - 1) \o <<first, rest>> \o SubSeq(heap, k + 1, Len(heap))
<1>1. /\ In(c) /\ b.id \in Ids
      /\ IF i = 0 \/ i + 1 >= Len(b.cells) THEN Do(m)
         ELSE Do([m EXCEPT !.heap = SubSeq(@, 1, k - 1) \o <<first, rest>> \o SubSeq(@, k + 1, Len(@))])
  BY DEF SPLIT
<1>2. Sound(m, brktb, xocbsc) BY DEF Inv
<1>3. m.heap = heap /\ m.bins = bins /\ m.reg = reg /\ m.stack = stack BY DEF m
<1>4. Good(m) /\ Laid(heap) /\ heap \in Seq(BlockOf) /\ FRSGPT(heap) <= TLSGP1 /\ Held(heap, c) BY RegsAre, InvIs
<1>5. CASE i = 0 \/ i + 1 >= Len(b.cells)
  <2>1. Do(m) BY <1>1, <1>5
  <2>2. Sound(m, brktb', xocbsc') /\ Become(m) BY <1>2, <2>1 DEF Do, Still
  <2>3. QED BY <2>2, Becomes
<1>6. CASE ~(i = 0 \/ i + 1 >= Len(b.cells))
  <2> DEFINE t == [m EXCEPT !.heap = g]
  <2>1. Do(t) BY <1>1, <1>3, <1>6
  <2>2. t.heap = g /\ t.bins = bins /\ t.reg = reg /\ t.stack = stack /\ IsState(t)
    <3> HIDE DEF g
    <3>1. t = [heap |-> g, bins |-> bins, reg |-> reg, stack |-> stack] BY DEF m
    <3>2. QED BY <3>1 DEF IsState
  <2> HIDE DEF t, g
  <2>3. k \in DOMAIN heap /\ c.a \in Int /\ b.a <= c.a BY <1>1, <1>4, HeldIn DEF Obj
  <2>4. b \in BlockOf BY <1>4, <2>3, LaidType
  <2>5. b.a \in Int /\ b.cells \in Seq(Cell) /\ Len(b.cells) \in Nat BY <2>4 DEF BlockOf
  <2>6. i = c.a - b.a BY DEF Off, Obj
  <2> HIDE DEF k, b, c
  <2>7. i \in Nat /\ i > 0 /\ i + 1 < Len(b.cells) /\ c.a + 1 = b.a + i + 1
    <3> HIDE DEF i
    <3>1. i \in Nat BY <2>3, <2>5, <2>6
    <3>2. QED BY <1>6, <2>3, <2>5, <2>6, <3>1
  <2> HIDE DEF i
  <2>8. Fresh(m) \in Ids /\ \A j \in DOMAIN heap : heap[j].id # Fresh(m) BY <1>3, <1>4, FreshIs
  <2>9. first \in BlockOf /\ first.a = b.a /\ first.id = b.id /\ first.cells = SubSeq(b.cells, 1, i)
    <3>1. 1 \in 1..Len(b.cells) + 1 /\ i \in 0..Len(b.cells) /\ 1 <= i + 1 BY <2>5, <2>7
    <3>2. SubSeq(b.cells, 1, i) \in Seq(Cell) BY <2>5, <3>1, PartIs
    <3>3. QED BY <2>4, <3>2 DEF BlockOf
  <2>10. rest \in BlockOf /\ rest.a = b.a + i + 1 /\ rest.id = Fresh(m) /\ rest.cells = SubSeq(b.cells, i + 2, Len(b.cells))
    <3>1. i + 2 \in 1..Len(b.cells) + 1 /\ Len(b.cells) \in 0..Len(b.cells) /\ i + 2 <= Len(b.cells) + 1 BY <2>5, <2>7
    <3>2. SubSeq(b.cells, i + 2, Len(b.cells)) \in Seq(Cell) BY <2>5, <3>1, PartIs
    <3>3. c.a + 1 \in Int BY <2>3
    <3>4. QED BY <2>4, <2>7, <2>8, <3>2, <3>3 DEF BlockOf
  <2> HIDE DEF first, rest
  <2>11. Split(heap, g, k, i, Fresh(m))
    <3>1. /\ g \in Seq(BlockOf) /\ Len(g) = Len(heap) + 1
          /\ \A j \in 1..Len(heap) + 1 :
               g[j] = IF j < k THEN heap[j] ELSE IF j = k THEN first ELSE IF j = k + 1 THEN rest ELSE heap[j - 1]
      <4>1. heap \in Seq(BlockOf) /\ k \in DOMAIN heap /\ first \in BlockOf /\ rest \in BlockOf BY <1>4, <2>3, <2>9, <2>10
      <4>2. g = SubSeq(heap, 1, k - 1) \o <<first, rest>> \o SubSeq(heap, k + 1, Len(heap)) BY DEF g
      <4>3. Halved(BlockOf, heap, k, first, rest, g) BY <4>1, <4>2, HalvesIs
      <4>4. QED BY <4>3 DEF Halved
    <3>2. k \in Nat BY <1>4, <2>3
    <3>3. b = heap[k] BY DEF b
    <3>4. QED BY <2>9, <2>10, <3>1, <3>2, <3>3 DEF Split
  <2>12. Sound(t, brktb, xocbsc)
    <3>1. b = heap[k] BY DEF b
    <3>2. heap[k].id \in Ids BY <1>1, <3>1
    <3>3. i + 1 < Len(heap[k].cells) BY <2>7, <3>1
    <3>4. Split(m.heap, t.heap, k, i, Fresh(m)) BY <1>3, <2>2, <2>11
    <3>5. QED BY <1>2, <1>3, <2>2, <2>3, <2>7, <2>8, <3>2, <3>3, <3>4, SplitSound
  <2>13. QED BY <2>1, <2>12, Becomes DEF Do, Still
<1>7. QED BY <1>5, <1>6

------------------------------------------------------------------------------
LEMMA InitInv ==
  ASSUME StorageAssumption, Init
  PROVE Inv
<1>1. /\ heap = <<>> /\ bins = [b \in Bins |-> 0] /\ stack = <<>>
      /\ reg = [x \in Regs |-> IF x \in {"LSTPTR", "BUKPTR"} THEN Ptr(0) ELSE Zero]
      /\ xocbsc = [c |-> Zero, of |-> ""] /\ brktb = ""
  BY DEF Init, Begin, Empty
<1>2. m.heap = heap /\ m.bins = bins /\ m.reg = reg /\ m.stack = stack BY DEF m
<1>20. heap \in Seq(BlockOf) /\ Len(heap) = 0 /\ DOMAIN heap = {}
  <2>1. <<>> \in Seq(BlockOf) /\ Len(<<>>) = 0 /\ DOMAIN <<>> = {} OBVIOUS
  <2>2. QED BY <1>1, <2>1
<1>3. Laid(heap)
  <2>1. \A k \in 1..Len(heap) - 1 : FALSE BY <1>20
  <2>2. QED BY <1>20, <2>1 DEF Laid
<1>4. FRSGPT(heap) <= TLSGP1 BY <1>1 DEF FRSGPT, StorageAssumption
<1>5. IdsOf(heap) /\ CellsOf(heap) BY <1>20 DEF IdsOf, CellsOf
<1>6. \A x \in Regs : reg[x] = Ptr(0) \/ reg[x] = Zero BY <1>1
<1>7. \A c : c = Ptr(0) \/ c = Zero => c \in Cell /\ ~In(c) /\ Held(heap, c)
  <2>1. Ptr(0) \in Cell /\ Ptr(0).a = 0 /\ Zero \in Cell /\ ~Zero.p BY DEF Ptr, Zero, Cell
  <2>2. HDSGPT \in Nat /\ HDSGPT > 0 BY DEF StorageAssumption
  <2>3. QED BY <2>1, <2>2 DEF In, Held
<1>8. reg \in [Regs -> Cell]
  <2>1. \A x \in Regs : reg[x] \in Cell BY <1>6, <1>7
  <2>2. DOMAIN reg = Regs /\ reg = [x \in Regs |-> reg[x]] BY <1>1
  <2>3. QED BY <2>1, <2>2
<1>9. stack \in Seq(Cell) /\ DOMAIN stack = {} /\ Len(stack) = 0 /\ MaxStack \in Nat
  <2>1. <<>> \in Seq(Cell) /\ Len(<<>>) = 0 /\ DOMAIN <<>> = {} OBVIOUS
  <2>2. QED BY <1>1, <2>1 DEF StorageAssumption
<1>10. BinsOf(m)
  <2>1. m.bins \in [Bins -> Int]
    <3>1. [b \in Bins |-> 0] \in [Bins -> Int] OBVIOUS
    <3>2. m.bins = [b \in Bins |-> 0] BY <1>1, <1>2
    <3>3. QED BY <3>1, <3>2
  <2>2. ASSUME NEW b \in Bins PROVE Strung(m, b, <<>>)
    <3>1. bins[b] = 0 BY <1>1
    <3>2. <<>> \in Seq(DOMAIN m.heap) /\ DOMAIN <<>> = {} OBVIOUS
    <3>3. OfBin(m, b) = {} BY <1>2, <1>20 DEF OfBin
    <3>4. At(m, <<>>, 1) = 0 BY <3>2 DEF At
    <3>5. QED BY <1>2, <3>1, <3>2, <3>3, <3>4 DEF Strung
  <2>3. QED BY <2>1, <2>2 DEF BinsOf
<1>11. Good(m)
  <2>1. \A x \in Regs : Held(heap, reg[x]) BY <1>6, <1>7
  <2>2. \A i \in DOMAIN stack : Held(heap, stack[i]) BY <1>9
  <2>3. IsState(m) BY DEF m, IsState
  <2>4. QED BY <1>2, <1>3, <1>4, <1>5, <1>8, <1>9, <1>10, <2>1, <2>2, <2>3 DEF Good
<1>12. ~In(reg["TBLBCS"]) /\ ~In(reg["OCBSCL"]) BY <1>6, <1>7, RegsAre
<1>13. Table(m, brktb) /\ AtCode(m.heap, m.reg["OCBSCL"]) BY <1>2, <1>12 DEF Table, AtCode
<1>14. Saved(m.heap, xocbsc)
  <2>1. xocbsc.c = Zero /\ xocbsc = [c |-> xocbsc.c, of |-> xocbsc.of] BY <1>1
  <2>2. xocbsc.c \in Cell /\ ~xocbsc.c.p BY <1>7, <2>1 DEF Zero
  <2>3. QED BY <2>1, <2>2 DEF Saved
<1>15. QED BY <1>2, <1>9, <1>11, <1>13, <1>14 DEF Inv, Sound

LEMMA StutterInv ==
  ASSUME Inv, UNCHANGED vars
  PROVE Inv'
<1>1. heap' = heap /\ bins' = bins /\ reg' = reg /\ stack' = stack /\ xocbsc' = xocbsc /\ brktb' = brktb BY DEF vars
<1>2. Become(m) BY <1>1 DEF Become, m
<1>3. Sound(m, brktb', xocbsc') BY <1>1 DEF Inv
<1>4. QED BY <1>2, <1>3, Becomes

LEMMA NextInv ==
  ASSUME StorageAssumption, ~Stale, Inv, [Next]_vars
  PROVE Inv'
<1>1. CASE BLOCK BY <1>1, BLOCKInv
<1>2. CASE GENVAR BY <1>2, GENVARInv
<1>3. CASE CONVAR BY <1>3, CONVARInv
<1>4. CASE AUGATL BY <1>4, AUGATLInv
<1>5. CASE COLECT BY <1>5, COLECTInv
<1>6. CASE SPLIT BY <1>6, SPLITInv
<1>7. CASE PutD BY <1>7, PutDInv
<1>8. CASE GetD BY <1>8, GetDInv
<1>9. CASE Sum BY <1>9, SumInv
<1>10. CASE Exchange BY <1>10, ExchangeInv
<1>11. CASE Number BY <1>11, NumberInv
<1>12. CASE Push BY <1>12, PushInv
<1>13. CASE Pop BY <1>13, PopInv
<1>14. CASE Goto BY <1>14, GotoInv
<1>15. CASE Xithnd BY <1>15, XithndInv
<1>16. CASE Continue BY <1>16, ContinueInv
<1>17. CASE Break BY <1>17, BreakInv
<1>18. CASE UNCHANGED vars BY <1>18, StutterInv
<1>19. QED
  BY <1>1, <1>2, <1>3, <1>4, <1>5, <1>6, <1>7, <1>8, <1>9, <1>10, <1>11, <1>12, <1>13, <1>14, <1>15, <1>16, <1>17,
     <1>18 DEF Next

LEMMA Invariance ==
  ASSUME StorageAssumption, ~Stale
  PROVE Spec => []Inv
<1>1. Init => Inv BY InitInv
<1>2. Inv /\ [Next]_vars => Inv' BY NextInv
<1>3. QED BY <1>1, <1>2, PTL DEF Spec

------------------------------------------------------------------------------
\* Registers, stack and storage: every pointer of a register and of the stack that is
\* not below HDSGPT is in a block, after any number of regenerations, and FRSGPT is
\* never behind TLSGP1.
THEOREM PlacesInBlocks ==
  ASSUME StorageAssumption, ~Stale
  PROVE Spec => []TypeOK
<1>1. ASSUME Inv PROVE TypeOK
  <2>1. Laid(heap) /\ FRSGPT(heap) <= TLSGP1 /\ reg \in [Regs -> Cell] /\ (\A x \in Regs : Held(heap, reg[x]))
        /\ stack \in Seq(Cell) /\ Len(stack) <= MaxStack /\ \A i \in DOMAIN stack : Held(heap, stack[i])
    BY <1>1, InvIs
  <2>2. \A c \in Range(reg) \cup Range(stack) : Held(heap, c) BY <2>1 DEF Range
  <2>3. \A c : Held(heap, c) /\ In(c) => Obj(c) \in DOMAIN heap BY <2>1, HeldIn DEF Obj
  <2>4. QED BY <2>1, <2>2, <2>3 DEF TypeOK
<1>2. Inv => TypeOK BY <1>1
<1>3. QED BY <1>2, Invariance, PTL

\* LOCA1 finds every string there is, and each text has one block: the bin of a text
\* links exactly the blocks of its texts, each once, however often regenerations
\* have dropped others from it.
THEOREM StringsInBins ==
  ASSUME StorageAssumption, ~Stale
  PROVE Spec => []OneForEachText
<1>1. ASSUME Inv PROVE OneForEachText
  <2>1. Laid(heap) /\ IdsOf(heap) /\ BinsOf(m) /\ m.heap = heap /\ heap \in Seq(BlockOf) BY <1>1, InvIs
  <2>2. ASSUME NEW b \in Bins
        PROVE LET c == Tail(Chain(m, b))
              IN /\ IsInjective(c) /\ \A i \in DOMAIN c : Obj(Ptr(c[i])) \in DOMAIN heap /\ Off(Ptr(c[i])) = 0
                 /\ {heap[Obj(Ptr(a))].id : a \in Range(c)}
                      = {heap[k].id : k \in DOMAIN heap} \cap {t \in Strings : Hash[t].bin = b}
    <3>1. PICK q : Strung(m, b, q) BY <2>1 DEF BinsOf
    <3>2. Chain(m, b) = Along(m, b, q) BY <2>1, <3>1, ChainOf
    <3>3. Len(q) \in Nat /\ DOMAIN q = 1..Len(q) /\ \A i \in DOMAIN q : q[i] \in DOMAIN heap BY <2>1, <3>1, StrungShort
    <3>4. \A k \in DOMAIN heap : Top(heap, heap[k].a) = k /\ heap[k].a \in Int BY <2>1, TopOwn
    <3> DEFINE a == Along(m, b, q)
               N == Len(q)
               c == Tail(Chain(m, b))
    <3>5. b \in Nat BY BinType
    <3>6. a \in Seq(Int) /\ Len(a) = N + 1 /\ \A i \in 1..N : a[i + 1] = heap[q[i]].a
      <4>1. \A i \in 1..N + 1 : a[i] = IF i = 1 THEN -b ELSE heap[q[i - 1]].a BY <2>1 DEF Along
      <4>2. \A i \in 1..N + 1 : a[i] \in Int
        <5> TAKE i \in 1..N + 1
        <5>1. CASE i = 1 BY <3>5, <4>1, <5>1
        <5>2. CASE i # 1
          <6>1. i - 1 \in 1..N BY <3>3, <5>2
          <6>2. a[i] = heap[q[i - 1]].a BY <4>1, <5>2
          <6> HIDE DEF a
          <6>3. QED BY <3>3, <3>4, <6>1, <6>2
        <5>3. QED BY <5>1, <5>2
      <4>3. a = [i \in 1..N + 1 |-> a[i]] BY DEF Along
      <4> HIDE DEF a
      <4>4. a \in [1..N + 1 -> Int] BY <4>2, <4>3
      <4>5. N + 1 \in Nat BY <3>3
      <4>6. a \in Seq(Int) /\ Len(a) = N + 1 BY <4>4, <4>5
      <4>7. \A i \in 1..N : i + 1 \in 1..N + 1 /\ i + 1 # 1 /\ (i + 1) - 1 = i BY <3>3
      <4>8. QED BY <4>1, <4>6, <4>7
    <3>7. DOMAIN c = 1..N /\ \A i \in 1..N : c[i] = heap[q[i]].a
      <4>1. c = Tail(a) BY <3>2
      <4> HIDE DEF a, c, N
      <4>2. a # <<>> BY <3>3, <3>6 DEF N
      <4>3. N \in Nat BY <3>3 DEF N
      <4>4. Len(Tail(a)) = N /\ Tail(a) \in Seq(Int) /\ \A i \in 1..N : Tail(a)[i] = a[i + 1] BY <3>6, <4>2, <4>3
      <4>5. DOMAIN Tail(a) = 1..N BY <4>4
      <4>6. QED BY <3>6, <4>1, <4>4, <4>5
    <3> HIDE DEF a, c
    <3>8. \A i \in 1..N : Top(heap, c[i]) = q[i] /\ q[i] \in DOMAIN heap BY <3>3, <3>4, <3>7
    <3>9. \A i \in 1..N : Obj(Ptr(c[i])) = q[i] /\ Off(Ptr(c[i])) = 0
      <4>1. \A x : Obj(Ptr(x)) = Top(heap, x) /\ Off(Ptr(x)) = x - heap[Top(heap, x)].a BY DEF Obj, Off, Ptr
      <4>2. \A i \in 1..N : heap[q[i]].a \in Int BY <3>3, <3>4
      <4>3. QED BY <3>7, <3>8, <4>1, <4>2
    <3>10. IsInjective(c)
      <4>1. \A i, j \in 1..N : i < j => q[i] # q[j] BY <3>1, <3>3 DEF Strung
      <4>2. \A i, j \in 1..N : q[i] = q[j] => i = j BY <3>3, <4>1
      <4>3. \A i, j \in 1..N : c[i] = c[j] => i = j BY <3>8, <4>2
      <4>4. QED BY <3>7, <4>3 DEF IsInjective
    <3>11. {heap[Obj(Ptr(x))].id : x \in Range(c)} = {heap[k].id : k \in DOMAIN heap} \cap {t \in Strings : Hash[t].bin = b}
      <4>1. Range(c) = {c[i] : i \in 1..N} BY <3>7 DEF Range
      <4>2. {heap[Obj(Ptr(x))].id : x \in Range(c)} = {heap[q[i]].id : i \in 1..N} BY <3>9, <4>1
      <4>3. (\A i \in 1..N : q[i] \in OfBin(m, b)) /\ \A k \in OfBin(m, b) : \E i \in 1..N : q[i] = k
        BY <3>1, <3>3 DEF Strung
      <4>4. \A k : k \in OfBin(m, b) <=> k \in DOMAIN heap /\ heap[k].id \in Strings /\ Hash[heap[k].id].bin = b
        BY <2>1 DEF OfBin
      <4>5. \A u : u \in {heap[q[i]].id : i \in 1..N} => u \in {heap[k].id : k \in DOMAIN heap} /\ u \in Strings /\ Hash[u].bin = b
        BY <4>3, <4>4
      <4>6. \A u : u \in {heap[k].id : k \in DOMAIN heap} /\ u \in Strings /\ Hash[u].bin = b
                   => \E i \in 1..N : heap[q[i]].id = u
        <5> TAKE u
        <5> HAVE u \in {heap[k].id : k \in DOMAIN heap} /\ u \in Strings /\ Hash[u].bin = b
        <5>1. PICK k \in DOMAIN heap : u = heap[k].id OBVIOUS
        <5>2. k \in OfBin(m, b) BY <4>4, <5>1
        <5>3. QED BY <4>3, <5>1, <5>2
      <4>7. QED BY <4>2, <4>5, <4>6
    <3>12. QED BY <3>7, <3>8, <3>9, <3>10, <3>11 DEF c
  <2>3. QED BY <2>1, <2>2 DEF OneForEachText, IdsOf
<1>2. Inv => OneForEachText BY <1>1
<1>3. QED BY <1>2, Invariance, PTL

\* BREAK's table belongs to the string whose address is kept beside it, also after
\* that string has been moved and another one is where it was.
THEOREM TableKept ==
  ASSUME StorageAssumption, ~Stale
  PROVE Spec => []TableOfItsString
<1>1. ASSUME Inv PROVE TableOfItsString
  <2> DEFINE c == reg["TBLBCS"]
  <2>1. Laid(heap) /\ Held(heap, c) /\ Table(m, brktb) /\ m.heap = heap /\ m.reg = reg BY <1>1, RegsAre, InvIs
  <2>2. In(c) => Top(heap, c.a) \in DOMAIN heap BY <2>1, HeldIn
  <2>3. QED BY <2>1, <2>2 DEF TableOfItsString, Table, Obj
<1>2. Inv => TableOfItsString BY <1>1
<1>3. QED BY <1>2, Invariance, PTL

\* A handler's CONTINUE goes on in the code the error was in, when no regeneration
\* comes in between.
THEOREM CodeIsKept ==
  ASSUME StorageAssumption, ~Stale
  PROVE Spec => []CodeKept
<1>1. ASSUME Inv PROVE CodeKept
  <2>1. Laid(heap) /\ Saved(heap, xocbsc) BY <1>1, InvIs
  <2>2. xocbsc.c.p => In(xocbsc.c) /\ Held(heap, xocbsc.c) /\ heap[Top(heap, xocbsc.c.a)].id = xocbsc.of BY <2>1 DEF Saved
  <2>3. xocbsc.c.p => Top(heap, xocbsc.c.a) \in DOMAIN heap BY <2>1, <2>2, HeldIn
  <2>4. QED BY <2>2, <2>3 DEF CodeKept, Obj
<1>2. Inv => CodeKept BY <1>1
<1>3. QED BY <1>2, Invariance, PTL
===============================================================================
