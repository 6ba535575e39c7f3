------------------------- MODULE PacketDecodingProofs -------------------------
(* Proofs about Decode, ReadBits, the checksum and the source's packets, for *)
(* every packet.  What recursive functions compute is proved by induction    *)
(* over sets of numbers (SetInduction); a checksum is taken for the sum of   *)
(* each byte's own part, folded to what is left of it by all ones.           *)
EXTENDS PacketDecoding, WellFoundedInduction, FiniteSetTheorems, SequenceTheorems, TLAPS

\* Induction over the naturals, with the set of those a property holds of in
\* place of the property: a set that misses one would miss a least one.
LEMMA SetInduction ==
  ASSUME NEW T, 0 \in T, \A n \in Nat : n \in T => n + 1 \in T
  PROVE  \A n \in Nat : n \in T
<1> SUFFICES ASSUME Nat \ T # {} PROVE FALSE
  OBVIOUS
<1> DEFINE R == OpToRel(<, Nat)
<1>1. IsWellFoundedOn(R, Nat)
  BY NatLessThanWellFounded
<1>2. PICK x \in Nat \ T : \A y \in Nat \ T : ~(<<y, x>> \in R)
  <2> HIDE DEF R
  <2> QED BY <1>1, WFMin
<1>3. x # 0 /\ x - 1 \in Nat
  OBVIOUS
<1>4. <<x - 1, x>> \in R
  BY <1>3 DEF OpToRel
<1>5. x - 1 \in T
  BY <1>2, <1>3, <1>4
<1>6. x - 1 + 1 = x
  OBVIOUS
<1> QED
  BY <1>3, <1>5, <1>6

\* The same from all the smaller numbers.
LEMMA SetStrongInduction ==
  ASSUME NEW T, \A n \in Nat : (\A m \in Nat : m < n => m \in T) => n \in T
  PROVE  \A n \in Nat : n \in T
<1> SUFFICES ASSUME Nat \ T # {} PROVE FALSE
  OBVIOUS
<1> DEFINE R == OpToRel(<, Nat)
<1>1. IsWellFoundedOn(R, Nat)
  BY NatLessThanWellFounded
<1>2. PICK x \in Nat \ T : \A y \in Nat \ T : ~(<<y, x>> \in R)
  <2> HIDE DEF R
  <2> QED BY <1>1, WFMin
<1>3. \A m \in Nat : m < x => <<m, x>> \in R
  BY DEF OpToRel
<1> QED
  BY <1>2, <1>3

(* One's complement: what is left of a sum when its carries are added back.   *)
Folded(s) == IF s = 0 THEN 0 ELSE ((s - 1) % 65535) + 1
\* Of a sum above 0 it is a remainder, moved by one.
LEMMA PositiveFolded ==
  ASSUME NEW s \in Nat, s # 0
  PROVE  Folded(s) = ((s - 1) % 65535) + 1
BY SMT DEF Folded

\* Sums that leave the same remainder leave the same.
LEMMA SameFolded ==
  ASSUME NEW s \in Nat, NEW t \in Nat, s # 0, t # 0, (s - 1) % 65535 = (t - 1) % 65535
  PROVE  Folded(s) = Folded(t)
BY PositiveFolded, SMT

\* Adding the carries back once makes a sum smaller and leaves the same of it.
LEMMA FoldOnce ==
  ASSUME NEW s \in Nat, s >= 65536
  PROVE  /\ (s % 65536) + (s \div 65536) \in Nat /\ (s % 65536) + (s \div 65536) < s
         /\ Folded(s) = Folded((s % 65536) + (s \div 65536))
<1> DEFINE q == s \div 65536
           r == s % 65536
<1>1. q \in Nat
  BY SMT
<1>2. r \in Nat /\ r < 65536
  BY ONLY s \in Nat, SMT
<1>3. s = 65536 * q + r
  BY SMT
<1>4. q >= 1
  BY SMT
<1> HIDE DEF q, r
<1>5. r + q \in Nat /\ r + q < s /\ r + q >= 1
  BY <1>1, <1>2, <1>3, <1>4, SMT
<1>6. (s - 1) % 65535 = (r + q - 1) % 65535
  <2>1. s - 1 = (r + q - 1) + 65535 * q
    BY <1>1, <1>2, <1>3, SMT
  <2>2. \A a \in Nat, k \in Nat : (a + 65535 * k) % 65535 = a % 65535
    BY SMT
  <2>3. r + q - 1 \in Nat
    BY <1>1, <1>2, <1>5, SMT
  <2> QED BY <1>1, <2>1, <2>2, <2>3, SMT
<1>7. s # 0 /\ r + q # 0
  BY <1>5, SMT
<1>8. Folded(s) = Folded(r + q)
  <2> DEFINE t == r + q
  <2>1. t \in Nat /\ t # 0 /\ s \in Nat /\ s # 0 /\ (s - 1) % 65535 = (t - 1) % 65535
    BY <1>1, <1>2, <1>5, <1>6, <1>7, SMT
  <2> HIDE DEF t
  <2>2. Folded(s) = Folded(t)
    BY ONLY <2>1, SameFolded, SMT
  <2> QED BY ONLY <2>2 DEF t
<1> QED
  BY ONLY <1>5, <1>8, SMT DEF q, r

\* So the loop of CalculateChecksum comes to that.
THEOREM FoldCarriesIs == \A s \in Nat : FoldCarries[s] = Folded(s)
<1> DEFINE step(f) == [s \in Nat |-> IF s < 65536 THEN s ELSE f[(s % 65536) + (s \div 65536)]]
           h == [s \in Nat |-> Folded(s)]
<1>1. h = step(h)
  <2>1. ASSUME NEW s \in Nat PROVE h[s] = step(h)[s]
    <3>1. CASE s < 65536
      BY <3>1 DEF Folded
    <3>2. CASE s >= 65536
      BY <3>2, FoldOnce
    <3> QED BY <3>1, <3>2
  <2> QED BY <2>1
<1>2. FoldCarries = CHOOSE f : f = step(f)
  BY DEF FoldCarries
<1> HIDE DEF h
<1>3. FoldCarries = step(FoldCarries)
  BY <1>1, <1>2
<1> DEFINE T == {n \in Nat : FoldCarries[n] = Folded(n)}
<1>4. ASSUME NEW n \in Nat, \A m \in Nat : m < n => m \in T PROVE n \in T
  <2>0. FoldCarries[n] = step(FoldCarries)[n]
    BY <1>3
  <2>1. CASE n < 65536
    BY <2>0, <2>1 DEF Folded
  <2>2. CASE n >= 65536
    <3>1. FoldCarries[n] = FoldCarries[(n % 65536) + (n \div 65536)]
      BY <2>0, <2>2
    <3> QED BY <1>4, <2>2, <3>1, FoldOnce
  <2> QED BY <2>1, <2>2
<1> HIDE DEF T
<1>5. \A n \in Nat : n \in T
  BY <1>4, SetStrongInduction
<1> QED
  BY <1>5 DEF T

-------------------------------------------------------------------------------
(* Sums over the subsets of 1..n, whichever element is taken out first.       *)
SumsUp(g, w, D) ==
  /\ g \in [SUBSET D -> Nat] /\ g[{}] = 0
  /\ \A s \in SUBSET D : \A x \in s : g[s] = w[x] + g[s \ {x}]

\* There is such a function, whatever the numbers.
LEMMA SumsExist ==
  ASSUME NEW n \in Nat, NEW w \in [1..n -> Nat]
  PROVE  \E g : SumsUp(g, w, 1..n)
<1> DEFINE T == {m \in Nat : m <= n => \E g : SumsUp(g, w, 1..m)}
<1>1. 0 \in T
  <2> DEFINE g == [s \in SUBSET {} |-> 0]
  <2>1. 1..0 = {}
    OBVIOUS
  <2>2. SumsUp(g, w, {})
    BY DEF SumsUp
  <2> QED BY <2>1, <2>2
<1>2. ASSUME NEW m \in Nat, m \in T PROVE m + 1 \in T
  <2> SUFFICES ASSUME m + 1 <= n PROVE \E g : SumsUp(g, w, 1..(m + 1))
    OBVIOUS
  <2>1. PICK g : SumsUp(g, w, 1..m)
    BY <1>2
  <2> DEFINE h == [s \in SUBSET (1..(m + 1)) |-> IF m + 1 \in s THEN w[m + 1] + g[s \ {m + 1}] ELSE g[s]]
  <2>2. w[m + 1] \in Nat
    OBVIOUS
  <2>3. \A s \in SUBSET (1..(m + 1)) : s \ {m + 1} \in SUBSET (1..m) /\ (m + 1 \notin s => s \in SUBSET (1..m))
    OBVIOUS
  <2>4. \A s \in SUBSET (1..(m + 1)) : h[s] = IF m + 1 \in s THEN w[m + 1] + g[s \ {m + 1}] ELSE g[s]
    OBVIOUS
  <2>5. g \in [SUBSET (1..m) -> Nat] /\ g[{}] = 0 /\ \A s \in SUBSET (1..m) : \A x \in s : g[s] = w[x] + g[s \ {x}]
    BY <2>1 DEF SumsUp
  <2>6. h \in [SUBSET (1..(m + 1)) -> Nat]
    BY <2>2, <2>3, <2>5
  <2>7. h[{}] = 0
    BY <2>4, <2>5
  <2>8. ASSUME NEW s \in SUBSET (1..(m + 1)), NEW x \in s PROVE h[s] = w[x] + h[s \ {x}]
    <3> HIDE DEF h
    <3>0. s \ {x} \in SUBSET (1..(m + 1))
      OBVIOUS
    <3>1. CASE x = m + 1
      <4>1. m + 1 \notin s \ {x}
        BY <3>1
      <4> QED BY ONLY <2>4, <3>0, <3>1, <4>1, s \in SUBSET (1..(m + 1)), x \in s
    <3>2. CASE x # m + 1 /\ m + 1 \in s
      <4>1. m + 1 \in s \ {x} /\ (s \ {x}) \ {m + 1} = (s \ {m + 1}) \ {x} /\ x \in s \ {m + 1}
        BY <3>2
      <4>2. g[s \ {m + 1}] = w[x] + g[(s \ {m + 1}) \ {x}]
        BY ONLY <2>3, <2>5, <4>1, s \in SUBSET (1..(m + 1))
      <4>3. h[s] = w[m + 1] + g[s \ {m + 1}] /\ h[s \ {x}] = w[m + 1] + g[(s \ {m + 1}) \ {x}]
        BY ONLY <2>4, <3>0, <3>2, <4>1, s \in SUBSET (1..(m + 1))
      <4>4. g[(s \ {m + 1}) \ {x}] \in Nat /\ w[x] \in Nat
        <5>1. (s \ {m + 1}) \ {x} \in SUBSET (1..m)
          BY <2>3
        <5>2. x \in 1..n
          OBVIOUS
        <5> QED BY ONLY <5>1, <5>2, <2>5, w \in [1..n -> Nat]
      <4> QED BY ONLY <2>2, <4>2, <4>3, <4>4
    <3>3. CASE x # m + 1 /\ m + 1 \notin s
      <4>1. m + 1 \notin s \ {x}
        BY <3>3
      <4>2. h[s] = g[s] /\ h[s \ {x}] = g[s \ {x}]
        BY ONLY <2>4, <3>0, <3>3, <4>1, s \in SUBSET (1..(m + 1))
      <4>3. s \in SUBSET (1..m)
        BY <2>3, <3>3
      <4> QED BY ONLY <2>5, <4>2, <4>3, x \in s
    <3> QED BY <3>1, <3>2, <3>3
  <2> HIDE DEF h
  <2>9. SumsUp(h, w, 1..(m + 1))
    BY <2>6, <2>7, <2>8 DEF SumsUp
  <2> QED BY <2>9
<1> HIDE DEF T
<1>3. n \in T
  BY <1>1, <1>2, SetInduction
<1> QED BY <1>3 DEF T

(* The word at place i, and the places where words begin.                     *)
Word(data, i) == 256 * data[i] + (IF i < Len(data) THEN data[i + 1] ELSE 0)
OddPlaces(data) == {i \in DOMAIN data : i % 2 = 1}

\* The sum of the words is what any way of adding them up gives.
LEMMA WordSumAddsUp ==
  ASSUME NEW data \in Seq(Nat), NEW g, NEW w,
         w = [i \in 1..Len(data) |-> Word(data, i)], SumsUp(g, w, 1..Len(data))
  PROVE  WordSum(data) = g[OddPlaces(data)]
<1> DEFINE D == OddPlaces(data)
           step(f) == [s \in SUBSET D |->
                         IF s = {} THEN 0
                         ELSE LET x == CHOOSE y \in s : TRUE IN Word(data, x) + f[s \ {x}]]
           iter == CHOOSE f : f = step(f)
           h == [s \in SUBSET D |-> g[s]]
<1>1. WordSum(data) = iter[D]
  BY DEF WordSum, Word, OddPlaces, Ext!MapThenSumSet, Ext!MapThenFoldSet
<1>2. D \subseteq 1..Len(data) /\ IsFiniteSet(D) /\ Len(data) \in Nat
  <2>1. D \subseteq 1..Len(data) /\ Len(data) \in Nat
    BY DEF OddPlaces
  <2> HIDE DEF D
  <2>2. IsFiniteSet(1..Len(data))
    BY ONLY <2>1, FS_Interval
  <2>3. IsFiniteSet(D)
    BY ONLY <2>1, <2>2, FS_Subset
  <2> QED BY ONLY <2>1, <2>3
<1> HIDE DEF D
<1>3. \A s \in SUBSET D : s # {} => (CHOOSE y \in s : TRUE) \in s
  OBVIOUS
<1>4. \A x \in D : w[x] = Word(data, x)
  BY <1>2
<1>5. h = step(h)
  <2>1. \A s \in SUBSET D : h[s] = step(h)[s]
    <3> SUFFICES ASSUME NEW s \in SUBSET D PROVE h[s] = step(h)[s]
      OBVIOUS
    <3>1. CASE s = {}
      BY <3>1 DEF SumsUp
    <3>2. CASE s # {}
      <4> DEFINE x == CHOOSE y \in s : TRUE
      <4>1. x \in s
        BY <3>2
      <4> HIDE DEF x
      <4>2. g[s] = w[x] + g[s \ {x}]
        BY <1>2, <4>1 DEF SumsUp
      <4>3. step(h)[s] = Word(data, x) + h[s \ {x}]
        BY <3>2 DEF x
      <4>4. h[s] = g[s] /\ h[s \ {x}] = g[s \ {x}]
        OBVIOUS
      <4> QED BY ONLY <1>4, <4>1, <4>2, <4>3, <4>4, s \in SUBSET D
    <3> QED BY <3>1, <3>2
  <2>2. h = [s \in SUBSET D |-> h[s]]
    OBVIOUS
  <2> HIDE DEF h
  <2>3. step(h) = [s \in SUBSET D |-> step(h)[s]]
    OBVIOUS
  <2> HIDE DEF step
  <2> QED BY ONLY <2>1, <2>2, <2>3
<1> HIDE DEF h
<1>6. iter = step(iter)
  BY <1>5
<1> HIDE DEF iter
<1> DEFINE T == {k \in Nat : \A s \in SUBSET D : Cardinality(s) = k => iter[s] = g[s]}
<1>7. 0 \in T
  <2> SUFFICES ASSUME NEW s \in SUBSET D, Cardinality(s) = 0 PROVE iter[s] = g[s]
    OBVIOUS
  <2>1. s = {}
    BY <1>2, FS_Subset, FS_EmptySet
  <2>2. iter[s] = step(iter)[s]
    BY ONLY <1>6
  <2>3. step(iter)[s] = 0
    BY <2>1
  <2> QED BY ONLY <2>1, <2>2, <2>3, SumsUp(g, w, 1..Len(data)) DEF SumsUp
<1>8. ASSUME NEW k \in Nat, k \in T PROVE k + 1 \in T
  <2> SUFFICES ASSUME NEW s \in SUBSET D, Cardinality(s) = k + 1 PROVE iter[s] = g[s]
    OBVIOUS
  <2>1. IsFiniteSet(s) /\ s # {}
    <3>1. IsFiniteSet(s)
      BY ONLY <1>2, FS_Subset, s \in SUBSET D
    <3>2. Cardinality(s) # 0
      BY ONLY k \in Nat, Cardinality(s) = k + 1
    <3>3. Cardinality({}) = 0
      BY FS_EmptySet
    <3> QED BY ONLY <3>1, <3>2, <3>3
  <2> DEFINE x == CHOOSE y \in s : TRUE
  <2>2. x \in s
    BY <2>1
  <2>3. step(iter)[s] = Word(data, x) + iter[s \ {x}]
    BY <2>1
  <2> HIDE DEF x
  <2>4. iter[s] = step(iter)[s]
    BY ONLY <1>6
  <2>5. Cardinality(s \ {x}) = k /\ s \ {x} \in SUBSET D
    <3>1. Cardinality(s \ {x}) = Cardinality(s) - 1
      BY ONLY <2>1, <2>2, FS_RemoveElement
    <3>2. s \ {x} \in SUBSET D
      OBVIOUS
    <3>3. k + 1 - 1 = k
      OBVIOUS
    <3> QED BY ONLY <3>1, <3>2, <3>3, Cardinality(s) = k + 1
  <2>6. iter[s \ {x}] = g[s \ {x}]
    BY <1>8, <2>5
  <2>7. g[s] = w[x] + g[s \ {x}]
    <3>1. \A a \in SUBSET (1..Len(data)) : \A y \in a : g[a] = w[y] + g[a \ {y}]
      BY ONLY SumsUp(g, w, 1..Len(data)), Zenon DEF SumsUp
    <3>2. s \in SUBSET (1..Len(data))
      BY ONLY <1>2, s \in SUBSET D, Zenon
    <3> QED BY ONLY <2>2, <3>1, <3>2, Zenon
  <2> HIDE DEF step
  <2> QED BY ONLY <1>4, <2>2, <2>3, <2>4, <2>6, <2>7, s \in SUBSET D
<1> HIDE DEF T
<1>9. Cardinality(D) \in T
  <2>1. Cardinality(D) \in Nat
    BY <1>2, FS_CardinalityType
  <2> QED BY <2>1, <1>7, <1>8, SetInduction
<1>10. iter[D] = g[D]
  BY <1>9 DEF T
<1> QED BY <1>1, <1>10 DEF D

-------------------------------------------------------------------------------
(* The same sum, byte by byte: the first byte of a word counts 256 times.     *)
Part(i, x) == IF i % 2 = 1 THEN 256 * x ELSE x
Prefixes(p, data) ==
  /\ p \in [0..Len(data) -> Nat] /\ p[0] = 0
  /\ \A i \in 1..Len(data) : p[i] = p[i - 1] + Part(i, data[i])

\* It is a number.
LEMMA PartType == ASSUME NEW i \in Int, NEW x \in Nat PROVE Part(i, x) \in Nat
BY DEF Part

\* There are such sums, one for each prefix.
LEMMA PrefixesExist ==
  ASSUME NEW data \in Seq(Nat)
  PROVE  \E p : Prefixes(p, data)
<1> DEFINE Good(p, m) == /\ p \in [0..m -> Nat] /\ p[0] = 0
                         /\ \A i \in 1..m : p[i] = p[i - 1] + Part(i, data[i])
           T == {m \in Nat : m <= Len(data) => \E p : Good(p, m)}
<1>1. 0 \in T
  <2> DEFINE p == [i \in 0..0 |-> 0]
  <2>1. Good(p, 0)
    OBVIOUS
  <2> QED BY <2>1
<1>2. ASSUME NEW m \in Nat, m \in T PROVE m + 1 \in T
  <2> SUFFICES ASSUME m + 1 <= Len(data) PROVE \E p : Good(p, m + 1)
    <3> HIDE DEF Good
    <3> QED OBVIOUS
  <2>0. Len(data) \in Nat /\ data[m + 1] \in Nat /\ m <= Len(data)
    OBVIOUS
  <2>1. PICK p : Good(p, m)
    BY <1>2, <2>0
  <2> DEFINE part == Part(m + 1, data[m + 1])
             q == [i \in 0..(m + 1) |-> IF i = m + 1 THEN p[m] + part ELSE p[i]]
  <2>2. part \in Nat
    <3>1. m + 1 \in Int
      OBVIOUS
    <3> QED BY ONLY <2>0, <3>1, PartType
  <2>3. p \in [0..m -> Nat] /\ p[0] = 0 /\ p[m] \in Nat
    BY <2>1
  <2> HIDE DEF part
  <2>4. q \in [0..(m + 1) -> Nat] /\ q[0] = 0 /\ q[m + 1] = p[m] + part /\ \A i \in 0..m : q[i] = p[i]
    BY <2>2, <2>3
  <2> HIDE DEF q
  <2>5. \A i \in 1..(m + 1) : q[i] = q[i - 1] + Part(i, data[i])
    <3> SUFFICES ASSUME NEW i \in 1..(m + 1) PROVE q[i] = q[i - 1] + Part(i, data[i])
      OBVIOUS
    <3>1. CASE i = m + 1
      <4>1. i - 1 = m /\ m \in 0..m
        BY <3>1
      <4> QED BY ONLY <2>4, <3>1, <4>1 DEF part
    <3>2. CASE i # m + 1
      <4>1. i \in 1..m /\ i - 1 \in 0..m /\ i \in 0..m
        BY <3>2
      <4> QED BY ONLY <2>1, <2>4, <4>1
    <3> QED BY <3>1, <3>2
  <2> QED BY <2>4, <2>5
<1> HIDE DEF T
<1>3. Len(data) \in T
  <2>1. Len(data) \in Nat
    OBVIOUS
  <2> QED BY <1>1, <1>2, <2>1, SetInduction
<1> QED BY <1>3 DEF T, Prefixes

\* The sum of the words is the sum of all the bytes' parts.
LEMMA WordSumIs ==
  ASSUME NEW data \in Seq(Nat), NEW p, Prefixes(p, data)
  PROVE  WordSum(data) = p[Len(data)]
<1> DEFINE n == Len(data)
           w == [i \in 1..n |-> Word(data, i)]
           Upto(k) == {i \in 1..k : i % 2 = 1}
           Half(k) == IF k % 2 = 1 /\ k < n THEN data[k + 1] ELSE 0
<1>0. n \in Nat /\ DOMAIN data = 1..n /\ \A i \in 1..n : data[i] \in Nat
  OBVIOUS
<1> HIDE DEF n
<1>1. w \in [1..n -> Nat]
  <2>1. \A i \in 1..n : Word(data, i) \in Nat
    BY <1>0 DEF Word, n
  <2> QED BY <2>1
<1>2. PICK g : SumsUp(g, w, 1..n)
  <2> HIDE DEF w
  <2> QED BY <1>0, <1>1, SumsExist
<1>3. WordSum(data) = g[OddPlaces(data)]
  BY <1>2, WordSumAddsUp DEF n
<1>4. OddPlaces(data) = Upto(n)
  BY <1>0 DEF OddPlaces
<1>5. /\ p \in [0..n -> Nat] /\ p[0] = 0
      /\ \A i \in 1..n : p[i] = p[i - 1] + Part(i, data[i])
  BY DEF Prefixes, n
<1>6. /\ g \in [SUBSET (1..n) -> Nat] /\ g[{}] = 0
      /\ \A s \in SUBSET (1..n) : \A x \in s : g[s] = w[x] + g[s \ {x}]
  BY <1>2 DEF SumsUp
<1> DEFINE T == {k \in Nat : k <= n => g[Upto(k)] = p[k] + Half(k)}
<1>7. 0 \in T
  <2>1. Upto(0) = {} /\ Half(0) = 0
    OBVIOUS
  <2>2. g[Upto(0)] = 0 /\ p[0] + Half(0) = 0
    <3> HIDE DEF Upto, Half
    <3>1. p[0] = 0 /\ g[{}] = 0
      BY <1>5, <1>6
    <3>2. Upto(0) = {} /\ Half(0) = 0
      BY <2>1
    <3>3. p[0] + Half(0) = 0
      BY ONLY <3>1, <3>2
    <3>4. g[Upto(0)] = 0
      BY ONLY <3>1, <3>2
    <3> QED BY <3>3, <3>4
  <2> QED BY <2>2
<1>8. ASSUME NEW k \in Nat, k \in T PROVE k + 1 \in T
  <2> SUFFICES ASSUME k + 1 <= n PROVE g[Upto(k + 1)] = p[k + 1] + Half(k + 1)
    <3> HIDE DEF Upto, Half
    <3>1. k + 1 \in Nat
      BY ONLY k \in Nat
    <3> QED BY <3>1
  <2>1. g[Upto(k)] = p[k] + Half(k)
    BY <1>0, <1>8
  <2>2. /\ k + 1 \in 1..n /\ k \in 0..n /\ k + 1 - 1 = k /\ data[k + 1] \in Nat /\ p[k] \in Nat
        /\ p[k + 1] = p[k] + Part(k + 1, data[k + 1])
    <3>1. k + 1 \in 1..n /\ k \in 0..n /\ k + 1 - 1 = k
      BY <1>0
    <3> QED BY <3>1, <1>0, <1>5
  <2>3. CASE k % 2 = 0
    <3>1. (k + 1) % 2 = 1
      BY <2>3
    <3>2. Upto(k + 1) \in SUBSET (1..n) /\ k + 1 \in Upto(k + 1) /\ Upto(k + 1) \ {k + 1} = Upto(k)
      BY <3>1, <1>0
    <3>3. Part(k + 1, data[k + 1]) = 256 * data[k + 1]
      BY <3>1 DEF Part
    <3>4. Half(k) = 0 /\ Half(k + 1) = IF k + 1 < n THEN data[k + 1 + 1] ELSE 0
      BY <2>3, <3>1
    <3>5. w[k + 1] = 256 * data[k + 1] + (IF k + 1 < n THEN data[k + 1 + 1] ELSE 0)
      BY <2>2 DEF Word, n
    <3> HIDE DEF w, Upto, Half
    <3>6. g[Upto(k + 1)] = w[k + 1] + g[Upto(k)]
      BY <1>6, <3>2
    <3> DEFINE next == IF k + 1 < n THEN data[k + 1 + 1] ELSE 0
    <3>7. next \in Nat
      BY <1>0
    <3>8. w[k + 1] = 256 * data[k + 1] + next /\ Half(k + 1) = next
      BY <3>4, <3>5
    <3> HIDE DEF next
    <3>9. g[Upto(k)] = p[k] + 0
      BY ONLY <2>1, <3>4
    <3>10. p[k + 1] = p[k] + 256 * data[k + 1]
      BY ONLY <2>2, <3>3
    <3>11. g[Upto(k + 1)] = (256 * data[k + 1] + next) + (p[k] + 0)
      BY ONLY <3>6, <3>8, <3>9
    <3> QED BY ONLY <2>2, <3>7, <3>8, <3>10, <3>11, SMT
  <2>4. CASE k % 2 = 1
    <3>1. (k + 1) % 2 = 0
      BY <2>4
    <3>2. Upto(k + 1) = Upto(k)
      <4>1. \A i \in 1..(k + 1) : i % 2 = 1 => i # k + 1
        BY <3>1
      <4> QED BY <4>1
    <3>3. Part(k + 1, data[k + 1]) = data[k + 1]
      BY <3>1 DEF Part
    <3>4. Half(k) = data[k + 1] /\ Half(k + 1) = 0
      BY <1>0, <2>4, <3>1
    <3> HIDE DEF Upto, Half, w
    <3> QED BY ONLY <2>1, <2>2, <3>2, <3>3, <3>4
  <2>5. k % 2 = 0 \/ k % 2 = 1
    OBVIOUS
  <2> QED BY <2>3, <2>4, <2>5
<1> HIDE DEF T
<1>9. n \in T
  BY <1>0, <1>7, <1>8, SetInduction
<1>10. Half(n) = 0 /\ p[n] \in Nat
  BY <1>0, <1>5
<1>11. g[Upto(n)] = p[n]
  <2>1. g[Upto(n)] = p[n] + Half(n)
    <3> HIDE DEF Upto, Half
    <3>1. n <= n => g[Upto(n)] = p[n] + Half(n)
      BY <1>9 DEF T
    <3> QED BY ONLY <3>1, <1>0
  <2> HIDE DEF Upto, Half
  <2> QED BY ONLY <1>10, <2>1
<1> QED BY ONLY <1>3, <1>4, <1>11 DEF n

-------------------------------------------------------------------------------
\* The sum of the words is a number.
LEMMA WordSumType ==
  ASSUME NEW data \in Seq(Nat)
  PROVE  WordSum(data) \in Nat
<1>1. PICK p : Prefixes(p, data)
  BY PrefixesExist
<1>2. WordSum(data) = p[Len(data)]
  BY <1>1, WordSumIs
<1>3. p \in [0..Len(data) -> Nat] /\ Len(data) \in 0..Len(data)
  BY <1>1 DEF Prefixes
<1> QED BY <1>2, <1>3

\* A changed byte changes the sum by its own part of it.
LEMMA WordSumChanged ==
  ASSUME NEW data \in Seq(Nat), NEW i \in 1..Len(data), NEW b \in Nat
  PROVE  WordSum([data EXCEPT ![i] = b]) = (WordSum(data) - Part(i, data[i])) + Part(i, b)
<1> DEFINE n == Len(data)
           new == [data EXCEPT ![i] = b]
           old == Part(i, data[i])
           put == Part(i, b)
<1>1. /\ n \in Nat /\ i \in 1..n /\ new \in Seq(Nat) /\ Len(new) = n /\ new[i] = b
      /\ \A j \in 1..n : j # i => new[j] = data[j]
  OBVIOUS
<1>2. \A j \in 1..n : data[j] \in Nat /\ Part(j, data[j]) \in Nat
  <2> SUFFICES ASSUME NEW j \in 1..n PROVE data[j] \in Nat /\ Part(j, data[j]) \in Nat
    OBVIOUS
  <2>1. data[j] \in Nat /\ j \in Int
    OBVIOUS
  <2> QED BY ONLY <2>1, PartType
<1>3. old \in Nat /\ put \in Nat
  <2>1. i \in Int /\ data[i] \in Nat
    OBVIOUS
  <2> QED BY ONLY <2>1, b \in Nat, PartType
<1>4. PICK p : Prefixes(p, data)
  BY PrefixesExist
<1>5. /\ p \in [0..n -> Nat] /\ p[0] = 0
      /\ \A j \in 1..n : p[j] = p[j - 1] + Part(j, data[j])
  BY <1>4 DEF Prefixes
<1> HIDE DEF n, new, old, put
<1> DEFINE q == [j \in 0..n |-> IF j < i THEN p[j] ELSE (p[j] - old) + put]
           T == {j \in Nat : j >= i /\ j <= n => p[j] >= old}
<1>6. 0 \in T
  BY <1>1
<1>7. ASSUME NEW j \in Nat, j \in T PROVE j + 1 \in T
  <2> SUFFICES ASSUME j + 1 >= i, j + 1 <= n PROVE p[j + 1] >= old
    OBVIOUS
  <2>1. j + 1 \in 1..n /\ j \in 0..n /\ j + 1 - 1 = j
    BY <1>1
  <2>2. p[j + 1] = p[j] + Part(j + 1, data[j + 1]) /\ p[j] \in Nat /\ Part(j + 1, data[j + 1]) \in Nat
    <3>1. p[j + 1] = p[(j + 1) - 1] + Part(j + 1, data[j + 1]) /\ Part(j + 1, data[j + 1]) \in Nat
      BY ONLY <1>2, <1>5, <2>1
    <3>2. p[j] \in Nat
      BY ONLY <1>5, <2>1
    <3> QED BY ONLY <3>1, <3>2, <2>1
  <2>3. CASE j + 1 = i
    BY ONLY <1>3, <2>2, <2>3 DEF old
  <2>4. CASE j + 1 # i
    <3>1. p[j] >= old
      BY <1>1, <1>7, <2>1, <2>4
    <3> QED BY ONLY <1>3, <2>2, <3>1
  <2> QED BY <2>3, <2>4
<1>8. \A j \in 0..n : j >= i => p[j] >= old
  <2> HIDE DEF T
  <2>1. \A j \in Nat : j \in T
    BY ONLY <1>6, <1>7, SetInduction
  <2> QED BY <1>1, <2>1 DEF T
<1>9. q \in [0..n -> Nat] /\ q[0] = 0
  <2>1. \A j \in 0..n : p[j] \in Nat
    BY <1>5
  <2>2. \A j \in 0..n : (IF j < i THEN p[j] ELSE (p[j] - old) + put) \in Nat
    <3> SUFFICES ASSUME NEW j \in 0..n PROVE (IF j < i THEN p[j] ELSE (p[j] - old) + put) \in Nat
      OBVIOUS
    <3>1. p[j] \in Nat /\ (j >= i => p[j] >= old) /\ (j < i \/ j >= i)
      BY ONLY <1>1, <1>8, <2>1, j \in 0..n
    <3> HIDE DEF old, put
    <3> QED BY ONLY <1>3, <3>1, SMT
  <2>3. 0 \in 0..n /\ 0 < i
    BY <1>1
  <2> QED BY <1>5, <2>2, <2>3
<1>10. \A j \in 1..n : q[j] = q[j - 1] + Part(j, new[j])
  <2> SUFFICES ASSUME NEW j \in 1..n PROVE q[j] = q[j - 1] + Part(j, new[j])
    OBVIOUS
  <2>1. p[j] = p[j - 1] + Part(j, data[j]) /\ p[j] \in Nat /\ p[j - 1] \in Nat /\ Part(j, data[j]) \in Nat
    <3>1. p[j] = p[j - 1] + Part(j, data[j]) /\ Part(j, data[j]) \in Nat
      BY ONLY <1>2, <1>5, j \in 1..n
    <3>2. j \in 0..n /\ j - 1 \in 0..n
      BY ONLY <1>1, j \in 1..n
    <3>3. p[j] \in Nat /\ p[j - 1] \in Nat
      BY ONLY <3>2, <1>5
    <3> QED BY ONLY <3>1, <3>3
  <2>2. q[j] = (IF j < i THEN p[j] ELSE (p[j] - old) + put)
        /\ q[j - 1] = (IF j - 1 < i THEN p[j - 1] ELSE (p[j - 1] - old) + put)
    BY <1>1
  <2> HIDE DEF q
  <2>3. CASE j < i
    <3>1. new[j] = data[j] /\ j - 1 < i
      BY <1>1, <2>3
    <3> QED BY ONLY <2>1, <2>2, <2>3, <3>1
  <2>4. CASE j = i
    <3>1. new[j] = b /\ j - 1 < i /\ ~(j < i)
      BY <1>1, <2>4
    <3> QED BY ONLY <1>3, <2>1, <2>2, <2>4, <3>1 DEF old, put
  <2>5. CASE j > i
    <3>1. new[j] = data[j] /\ ~(j - 1 < i) /\ ~(j < i)
      BY <1>1, <2>5
    <3>2. q[j] = (p[j] - old) + put /\ q[j - 1] = (p[j - 1] - old) + put
      BY ONLY <2>2, <3>1
    <3>3. Part(j, new[j]) = Part(j, data[j])
      BY ONLY <3>1
    <3> HIDE DEF old, put
    <3> DEFINE part == Part(j, data[j])
    <3>4. part \in Nat /\ p[j] = p[j - 1] + part /\ Part(j, new[j]) = part
      BY ONLY <2>1, <3>3
    <3> HIDE DEF part
    <3>5. p[j - 1] \in Nat /\ old \in Nat /\ put \in Nat
      BY ONLY <1>3, <2>1
    <3> QED BY ONLY <3>2, <3>4, <3>5, SMT
  <2> QED BY <1>1, <2>3, <2>4, <2>5
<1>11. Prefixes(q, new)
  BY ONLY <1>1, <1>9, <1>10 DEF Prefixes
<1>12. WordSum(new) = q[n] /\ WordSum(data) = p[n]
  <2>1. WordSum(new) = q[Len(new)]
    BY ONLY <1>1, <1>11, WordSumIs
  <2>2. WordSum(data) = p[Len(data)]
    BY <1>4, WordSumIs
  <2> QED BY ONLY <1>1, <2>1, <2>2 DEF n
<1>13. q[n] = (p[n] - old) + put
  BY <1>1
<1> QED BY ONLY <1>12, <1>13 DEF new, old, put

\* Behind an even number of bytes the words of a sequence stay its words.
LEMMA WordSumJoined ==
  ASSUME NEW a \in Seq(Nat), NEW b \in Seq(Nat), Len(a) % 2 = 0
  PROVE  WordSum(a \o b) = WordSum(a) + WordSum(b)
<1> DEFINE m == Len(a)
           n == Len(b)
<1>1. /\ m \in Nat /\ n \in Nat /\ a \o b \in Seq(Nat) /\ Len(a \o b) = m + n /\ m % 2 = 0
      /\ \A i \in 1..m : (a \o b)[i] = a[i]
      /\ \A i \in (m + 1)..(m + n) : (a \o b)[i] = b[i - m]
  <2> DEFINE c == a \o b
  <2>1. m \in Nat /\ n \in Nat /\ m % 2 = 0
    OBVIOUS
  <2>2. c \in Seq(Nat) /\ Len(c) = m + n /\ \A i \in 1..(m + n) : c[i] = IF i <= m THEN a[i] ELSE b[i - m]
    BY ConcatProperties
  <2> HIDE DEF c, m, n
  <2>3. \A i \in 1..m : c[i] = a[i]
    BY ONLY <2>1, <2>2
  <2>4. \A i \in (m + 1)..(m + n) : c[i] = b[i - m]
    BY ONLY <2>1, <2>2
  <2> QED BY ONLY <2>1, <2>2, <2>3, <2>4 DEF c
<1>2. PICK p : Prefixes(p, a)
  BY PrefixesExist
<1>3. PICK q : Prefixes(q, b)
  BY PrefixesExist
<1>4. /\ p \in [0..m -> Nat] /\ p[0] = 0
      /\ \A i \in 1..m : p[i] = p[i - 1] + Part(i, a[i])
  BY <1>2 DEF Prefixes
<1>5. /\ q \in [0..n -> Nat] /\ q[0] = 0
      /\ \A i \in 1..n : q[i] = q[i - 1] + Part(i, b[i])
  BY <1>3 DEF Prefixes
<1>6. WordSum(a) = p[m] /\ WordSum(b) = q[n]
  BY <1>2, <1>3, WordSumIs
<1>7. \A i \in Int, x \in Nat : i >= m => Part(i - m, x) = Part(i, x)
  <2> SUFFICES ASSUME NEW i \in Int, NEW x \in Nat, i >= m PROVE Part(i - m, x) = Part(i, x)
    OBVIOUS
  <2>1. (i - m) % 2 = i % 2
    <3> HIDE DEF m
    <3>1. m = 2 * (m \div 2) /\ m \div 2 \in Nat
      BY ONLY <1>1
    <3> DEFINE h == m \div 2
    <3> HIDE DEF h
    <3>2. m = 2 * h /\ h \in Nat
      BY ONLY <3>1 DEF h
    <3>3. \A k \in Nat : (i - 2 * k) % 2 = i % 2
      BY ONLY i \in Int
    <3> QED BY ONLY <3>2, <3>3
  <2> QED BY ONLY <2>1 DEF Part
<1> HIDE DEF m, n
<1> DEFINE r == [i \in 0..(m + n) |-> IF i <= m THEN p[i] ELSE p[m] + q[i - m]]
<1>8. r \in [0..(m + n) -> Nat] /\ r[0] = 0
  <2>1. \A i \in 0..(m + n) : (IF i <= m THEN p[i] ELSE p[m] + q[i - m]) \in Nat
    <3> SUFFICES ASSUME NEW i \in 0..(m + n) PROVE (IF i <= m THEN p[i] ELSE p[m] + q[i - m]) \in Nat
      OBVIOUS
    <3>1. CASE i <= m
      <4>1. i \in 0..m
        BY ONLY <1>1, <3>1, i \in 0..(m + n)
      <4> QED BY ONLY <1>4, <3>1, <4>1
    <3>2. CASE ~(i <= m)
      <4>1. i - m \in 0..n /\ m \in 0..m
        BY ONLY <1>1, <3>2, i \in 0..(m + n)
      <4>2. q[i - m] \in Nat /\ p[m] \in Nat
        BY ONLY <1>4, <1>5, <4>1
      <4> QED BY ONLY <3>2, <4>2
    <3> QED BY ONLY <3>1, <3>2
  <2>2. r \in [0..(m + n) -> Nat]
    BY <2>1
  <2>3. 0 \in 0..(m + n) /\ 0 <= m
    BY ONLY <1>1
  <2>4. r[0] = p[0]
    BY <2>3
  <2> QED BY ONLY <2>2, <2>4, <1>4
<1>9. \A i \in 1..(m + n) : r[i] = r[i - 1] + Part(i, (a \o b)[i])
  <2> SUFFICES ASSUME NEW i \in 1..(m + n) PROVE r[i] = r[i - 1] + Part(i, (a \o b)[i])
    OBVIOUS
  <2>1. /\ r[i] = (IF i <= m THEN p[i] ELSE p[m] + q[i - m])
        /\ r[i - 1] = (IF i - 1 <= m THEN p[i - 1] ELSE p[m] + q[(i - 1) - m])
    BY <1>1
  <2> HIDE DEF r
  <2>2. CASE i <= m
    <3>1. i \in 1..m /\ i - 1 <= m
      BY <1>1, <2>2
    <3>2. p[i] = p[i - 1] + Part(i, a[i]) /\ (a \o b)[i] = a[i]
      BY ONLY <1>1, <1>4, <3>1
    <3> QED BY ONLY <2>1, <2>2, <3>1, <3>2
  <2>3. CASE i > m
    <3>1. i \in (m + 1)..(m + n) /\ i - m \in 1..n /\ (i - m) - 1 = (i - 1) - m
      BY <1>1, <2>3
    <3>2. (a \o b)[i] = b[i - m] /\ b[i - m] \in Nat /\ i \in Int /\ i >= m
      <4>1. b[i - m] \in Nat
        BY <3>1 DEF n
      <4> QED BY ONLY <1>1, <2>3, <3>1, <4>1
    <3>3. Part(i - m, b[i - m]) = Part(i, (a \o b)[i])
      BY ONLY <1>7, <3>2
    <3>4. q[i - m] = q[(i - 1) - m] + Part(i, (a \o b)[i])
      BY ONLY <1>5, <3>1, <3>3
    <3>5. r[i - 1] = p[m] + q[(i - 1) - m]
      <4>1. CASE i - 1 = m
        <5>1. (i - 1) - m = 0 /\ p[m] \in Nat
          BY <1>1, <1>4, <4>1
        <5> QED BY ONLY <2>1, <1>1, <1>5, <4>1, <5>1
      <4>2. CASE i - 1 # m
        <5>1. ~(i - 1 <= m)
          BY <1>1, <2>3, <4>2
        <5> QED BY ONLY <2>1, <5>1
      <4> QED BY <4>1, <4>2
    <3>6. r[i] = p[m] + q[i - m]
      BY <1>1, <2>1, <2>3
    <3>7. p[m] \in Nat /\ q[(i - 1) - m] \in Nat /\ q[i - m] \in Nat /\ Part(i, (a \o b)[i]) \in Nat
      <4>1. (i - 1) - m \in 0..n /\ i - m \in 0..n /\ m \in 0..m
        BY <1>1, <3>1
      <4>2. Part(i, (a \o b)[i]) \in Nat
        BY ONLY <3>2, PartType
      <4> QED BY ONLY <4>1, <4>2, <1>4, <1>5
    <3> DEFINE u == p[m]   v == q[(i - 1) - m]   part == Part(i, (a \o b)[i])
    <3>8. r[i] = u + (v + part) /\ r[i - 1] = u + v /\ u \in Nat /\ v \in Nat /\ part \in Nat
      BY ONLY <3>4, <3>5, <3>6, <3>7
    <3> HIDE DEF u, v, part
    <3>9. r[i] = r[i - 1] + part
      BY ONLY <3>8
    <3> QED BY ONLY <3>9 DEF part
  <2>4. i <= m \/ i > m
    BY ONLY <1>1, i \in 1..(m + n)
  <2> QED BY ONLY <2>2, <2>3, <2>4
<1> HIDE DEF r
<1>10. Prefixes(r, a \o b)
  BY ONLY <1>1, <1>8, <1>9 DEF Prefixes
<1>11. WordSum(a \o b) = r[m + n]
  BY ONLY <1>1, <1>10, WordSumIs
<1>12. r[m + n] = p[m] + q[n]
  <2>1. r[m + n] = IF m + n <= m THEN p[m + n] ELSE p[m] + q[(m + n) - m]
    BY <1>1 DEF r
  <2>2. CASE n = 0
    <3>1. m + n <= m /\ m + n = m /\ q[n] = 0 /\ p[m] \in Nat
      BY <1>1, <1>4, <1>5, <2>2
    <3> QED BY ONLY <2>1, <3>1
  <2>3. CASE n # 0
    <3>1. ~(m + n <= m) /\ (m + n) - m = n
      BY <1>1, <2>3
    <3> QED BY ONLY <2>1, <3>1
  <2> QED BY <2>2, <2>3
<1> QED BY ONLY <1>6, <1>11, <1>12

\* The sum of one word is that word.
LEMMA WordSumPair ==
  ASSUME NEW x \in Nat, NEW y \in Nat
  PROVE  WordSum(<<x, y>>) = 256 * x + y
<1> DEFINE s == <<x, y>>
           p == [i \in 0..2 |-> IF i = 0 THEN 0 ELSE IF i = 1 THEN 256 * x ELSE 256 * x + y]
<1>1. s \in Seq(Nat) /\ Len(s) = 2 /\ s[1] = x /\ s[2] = y
  OBVIOUS
<1>2. p \in [0..2 -> Nat] /\ p[0] = 0 /\ p[1] = 256 * x /\ p[2] = 256 * x + y
  OBVIOUS
<1> HIDE DEF s, p
<1>3. Part(1, s[1]) = 256 * x /\ Part(2, s[2]) = y
  BY <1>1 DEF Part
<1>4. \A i \in 1..Len(s) : p[i] = p[i - 1] + Part(i, s[i])
  <2>1. \A i \in 1..Len(s) : i = 1 \/ i = 2
    BY <1>1
  <2>2. 1 - 1 = 0 /\ 2 - 1 = 1
    OBVIOUS
  <2>3. p[1] = p[0] + Part(1, s[1])
    BY ONLY <1>2, <1>3, x \in Nat
  <2>4. p[2] = p[1] + Part(2, s[2])
    BY ONLY <1>2, <1>3, x \in Nat, y \in Nat
  <2> QED BY ONLY <2>1, <2>2, <2>3, <2>4
<1>5. Prefixes(p, s)
  BY ONLY <1>1, <1>2, <1>4 DEF Prefixes
<1>6. WordSum(s) = p[Len(s)]
  BY ONLY <1>1, <1>5, WordSumIs
<1> QED BY ONLY <1>1, <1>2, <1>6, Zenon DEF s

\* Zeros add nothing.
LEMMA WordSumZeros ==
  ASSUME NEW n \in Nat
  PROVE  WordSum([i \in 1..n |-> 0]) = 0
<1> DEFINE s == [i \in 1..n |-> 0]
           p == [i \in 0..n |-> 0]
<1>1. s \in Seq(Nat) /\ Len(s) = n /\ \A i \in 1..n : s[i] = 0
  OBVIOUS
<1>2. \A i \in 1..n : Part(i, 0) = 0
  BY DEF Part
<1>3. p \in [0..n -> Nat] /\ p[0] = 0 /\ p[n] = 0 /\ \A i \in 1..n : p[i] = 0 /\ p[i - 1] = 0
  OBVIOUS
<1> HIDE DEF s, p
<1>4. \A i \in 1..n : p[i] = p[i - 1] + Part(i, s[i])
  BY <1>1, <1>2, <1>3
<1>5. Prefixes(p, s)
  BY ONLY <1>1, <1>3, <1>4 DEF Prefixes
<1> QED BY ONLY <1>1, <1>3, <1>5, WordSumIs DEF s

\* A byte that is not 0 adds something.
LEMMA WordSumPositive ==
  ASSUME NEW data \in Seq(Nat), NEW i \in 1..Len(data), data[i] > 0
  PROVE  WordSum(data) > 0
<1> DEFINE new == [data EXCEPT ![i] = 0]
<1>1. new \in Seq(Nat) /\ data[i] \in Nat /\ i \in Int
  OBVIOUS
<1>2. WordSum(new) = (WordSum(data) - Part(i, data[i])) + Part(i, 0)
  BY WordSumChanged
<1>3. WordSum(new) \in Nat /\ WordSum(data) \in Nat
  <2> HIDE DEF new
  <2> QED BY ONLY <1>1, WordSumType, data \in Seq(Nat)
<1>4. Part(i, 0) = 0 /\ Part(i, data[i]) > 0 /\ Part(i, data[i]) \in Nat
  BY ONLY <1>1, data[i] > 0 DEF Part
<1> HIDE DEF new
<1> QED BY ONLY <1>2, <1>3, <1>4

-------------------------------------------------------------------------------
(* Sixteen ones, and the difference one byte can make to a sum.               *)
Ones == 65535
OneByteMore == 65280
Close(s, t) == s - t <= OneByteMore /\ t - s <= OneByteMore

\* All ones are a number; a range up to it is easier said with inequalities.
LEMMA OnesIs == /\ Ones \in Nat /\ Ones > 0 /\ Ones <= 65535
                /\ \A n \in 0..Ones : n \in Nat /\ n <= Ones
                /\ \A q \in Nat : Ones * q \in Nat
<1>1. Ones \in Nat /\ Ones > 0 /\ Ones <= 65535
  BY ONLY SMT DEF Ones
<1>2. ASSUME NEW q \in Nat PROVE Ones * q \in Nat
  BY ONLY SMT DEF Ones
<1> QED BY ONLY <1>1, <1>2

\* Division by all ones, with the remainder in the range of a sum.
LEMMA DivideByOnes ==
  ASSUME NEW n \in Nat
  PROVE  n % Ones \in Nat /\ n % Ones < Ones /\ n \div Ones \in Nat /\ n = Ones * (n \div Ones) + (n % Ones)
<1>1. n % Ones \in Nat /\ n % Ones < Ones
  BY SMT DEF Ones
<1>2. n \div Ones \in Nat
  BY SMT DEF Ones
<1>3. n = Ones * (n \div Ones) + (n % Ones)
  BY SMT DEF Ones
<1> QED BY ONLY <1>1, <1>2, <1>3, Zenon

\* What is left of a multiple of all ones and a little more.
LEMMA LittleMore ==
  ASSUME NEW q \in Nat, NEW r \in Nat, r < Ones
  PROVE  (Ones * q + r) % Ones = r
BY SMT DEF Ones

\* The sum folded, said without the numeral.
LEMMA FoldedPositive ==
  ASSUME NEW s \in Nat, s > 0
  PROVE  FoldCarries[s] = ((s - 1) % Ones) + 1
BY FoldCarriesIs, PositiveFolded, SMT DEF Ones

\* What is left of a sum fits in 16 bits, and is nothing only of nothing.
LEMMA FoldedType ==
  ASSUME NEW s \in Nat
  PROVE  FoldCarries[s] \in 0..Ones /\ (s > 0 => FoldCarries[s] > 0)
<1>0. FoldCarries[s] = Folded(s)
  BY FoldCarriesIs, SMT
<1>1. CASE s = 0
  BY ONLY <1>0, <1>1, SMT DEF Folded, Ones
<1>2. CASE s # 0
  <2> DEFINE r == (s - 1) % Ones
  <2>1. FoldCarries[s] = r + 1
    BY ONLY <1>2, s \in Nat, FoldedPositive
  <2>2. r \in Nat /\ r < Ones
    <3>1. s - 1 \in Nat
      BY ONLY <1>2, s \in Nat
    <3> QED BY ONLY <3>1, DivideByOnes, Zenon
  <2> HIDE DEF r
  <2>3. Ones \in Nat
    BY ONLY SMT DEF Ones
  <2> QED BY ONLY <2>1, <2>2, <2>3
<1> QED BY ONLY <1>1, <1>2, SMT

\* A sum is what is left of it and a multiple of all ones.
LEMMA FoldedQuotient ==
  ASSUME NEW s \in Nat, s > 0
  PROVE  \E q \in Nat : s = Ones * q + FoldCarries[s]
<1> DEFINE n == s - 1   q == n \div Ones   r == n % Ones
<1>0. n \in Nat
  BY ONLY s \in Nat, s > 0
<1>1. FoldCarries[s] = r + 1
  BY FoldedPositive
<1>2. q \in Nat /\ r \in Nat /\ n = Ones * q + r
  <2> HIDE DEF n
  <2> QED BY ONLY <1>0, DivideByOnes, Zenon
<1>3. s = n + 1
  BY ONLY s \in Nat
<1> HIDE DEF n, q, r
<1>4. s = Ones * q + FoldCarries[s]
  BY ONLY <1>1, <1>2, <1>3, SMT DEF Ones
<1> QED BY ONLY <1>2, <1>4

\* What is left of a multiple of all ones and a bit more is the bit more.
LEMMA FoldedOf ==
  ASSUME NEW q \in Nat, NEW r \in 1..Ones
  PROVE  FoldCarries[Ones * q + r] = r
<1> DEFINE s == Ones * q + r   p == r - 1
<1>0. r \in Nat /\ r >= 1 /\ r <= Ones
  BY ONLY r \in 1..Ones, OnesIs
<1>1. s \in Nat /\ s > 0 /\ p \in Nat /\ p < Ones /\ s - 1 = Ones * q + p /\ r = p + 1
  <2> DEFINE m == Ones * q
  <2>1. m \in Nat
    BY ONLY q \in Nat, OnesIs
  <2>2. s = m + r
    OBVIOUS
  <2> HIDE DEF m, s
  <2>3. s \in Nat /\ s > 0 /\ p \in Nat /\ p < Ones /\ s - 1 = m + p /\ r = p + 1
    BY ONLY <1>0, <2>1, <2>2, OnesIs
  <2> QED BY ONLY <2>3 DEF m
<1>2. (Ones * q + p) % Ones = p
  <2> HIDE DEF p
  <2> QED BY ONLY <1>1, q \in Nat, LittleMore, Zenon
<1> HIDE DEF s, p
<1>3. FoldCarries[s] = ((s - 1) % Ones) + 1
  BY ONLY <1>1, FoldedPositive
<1>4. FoldCarries[s] = r
  BY ONLY <1>1, <1>2, <1>3, SMT
<1> QED BY ONLY <1>4, SMT DEF s

\* A sum with its checksum added is all ones.
LEMMA ChecksumCompletes ==
  ASSUME NEW s \in Nat
  PROVE  FoldCarries[s + (Ones - FoldCarries[s])] = Ones
<1> DEFINE f == FoldCarries[s]
<1>0. f \in 0..Ones /\ Ones \in 1..Ones /\ Ones \in Nat
  <2>1. f \in 0..Ones
    BY ONLY s \in Nat, FoldedType
  <2>2. Ones \in 1..Ones /\ Ones \in Nat
    BY ONLY SMT DEF Ones
  <2> QED BY ONLY <2>1, <2>2
<1>1. CASE s = 0
  <2>1. f = 0
    BY ONLY <1>1, FoldCarriesIs, SMT DEF Folded
  <2> HIDE DEF f
  <2>2. FoldCarries[Ones * 0 + Ones] = Ones
    <3>1. 0 \in Nat
      BY SMT
    <3> QED BY ONLY <1>0, <3>1, FoldedOf
  <2>3. s + (Ones - f) = Ones * 0 + Ones
    BY ONLY <1>0, <1>1, <2>1
  <2> QED BY ONLY <2>2, <2>3 DEF f
<1>2. CASE s > 0
  <2>1. PICK q \in Nat : s = Ones * q + f
    BY ONLY <1>2, s \in Nat, FoldedQuotient
  <2> HIDE DEF f
  <2> DEFINE m == Ones * q
  <2>0. m \in Nat /\ s = m + f /\ f \in Int /\ Ones \in Int
    <3>1. m \in Nat
      BY ONLY q \in Nat, OnesIs
    <3>2. f \in Int /\ Ones \in Int
      BY ONLY <1>0, OnesIs
    <3> QED BY ONLY <2>1, <3>1, <3>2
  <2>2. s + (Ones - f) = Ones * q + Ones
    <3> HIDE DEF m
    <3>1. s + (Ones - f) = m + Ones
      BY ONLY <2>0, SMT
    <3> QED BY ONLY <3>1 DEF m
  <2>3. FoldCarries[Ones * q + Ones] = Ones
    BY ONLY <1>0, q \in Nat, FoldedOf
  <2> QED BY ONLY <2>2, <2>3 DEF f
<1> QED BY ONLY <1>1, <1>2, s \in Nat

\* Numbers that differ by less than all ones do not fold to the same.
LEMMA CloseSumsDiffer ==
  ASSUME NEW s \in Nat, NEW t \in Nat, s > 0, t > 0, s # t, Close(s, t)
  PROVE  FoldCarries[s] # FoldCarries[t]
<1> SUFFICES ASSUME FoldCarries[s] = FoldCarries[t] PROVE FALSE
  OBVIOUS
<1>1. PICK q \in Nat : s = Ones * q + FoldCarries[s]
  BY FoldedQuotient
<1>2. PICK p \in Nat : t = Ones * p + FoldCarries[t]
  BY FoldedQuotient
<1> DEFINE f == FoldCarries[s]
<1>3. f \in 0..Ones
  BY ONLY s \in Nat, FoldedType
<1>4. s = Ones * q + f /\ t = Ones * p + f
  BY <1>1, <1>2
<1> HIDE DEF f
<1> DEFINE d == q - p
<1>5. d \in Int /\ d # 0 /\ s - t = Ones * d
  <2>1. f \in Nat
    BY ONLY <1>3, OnesIs
  <2> QED BY ONLY <2>1, <1>4, s # t, q \in Nat, p \in Nat, SMTT(30) DEF Ones
<1> HIDE DEF d
<1>6. ~(Ones * d <= OneByteMore /\ -OneByteMore <= Ones * d)
  BY ONLY <1>5, SMT DEF Ones, OneByteMore
<1> DEFINE e == Ones * d
<1>7. e \in Int /\ s - t = e /\ ~(e <= OneByteMore /\ -OneByteMore <= e)
  BY ONLY <1>5, <1>6, SMT DEF Ones
<1> HIDE DEF e
<1> QED BY ONLY <1>7, s \in Nat, t \in Nat, Close(s, t), SMT DEF Close, OneByteMore

\* A sum that is all ones is no longer so when one byte of it changes.
LEMMA OnesAreLost ==
  ASSUME NEW s \in Nat, NEW t \in Nat, FoldCarries[s] = Ones, s # t, Close(s, t)
  PROVE  FoldCarries[t] # Ones
<1>0. FoldCarries[0] = 0 /\ Ones # 0
  BY ONLY FoldCarriesIs, SMT DEF Folded, Ones
<1>1. s > 0
  BY <1>0
<1>2. CASE t = 0
  BY ONLY <1>0, <1>2
<1>3. CASE t > 0
  BY <1>1, <1>3, CloseSumsDiffer
<1> QED BY ONLY <1>2, <1>3, t \in Nat

\* A changed byte changes the sum, by less than all ones.
LEMMA PartDiffers ==
  ASSUME NEW i \in Int, NEW x \in Byte, NEW y \in Byte, x # y
  PROVE  Close(Part(i, x), Part(i, y)) /\ Part(i, x) # Part(i, y)
<1>1. x \in Nat /\ y \in Nat /\ x <= 255 /\ y <= 255
  BY DEF Byte
<1>2. CASE i % 2 = 1
  <2>1. Part(i, x) = 256 * x /\ Part(i, y) = 256 * y
    BY ONLY <1>2 DEF Part
  <2>2. 256 * x # 256 * y /\ 256 * x - 256 * y <= OneByteMore /\ 256 * y - 256 * x <= OneByteMore
    BY ONLY <1>1, x # y, SMT DEF OneByteMore
  <2> QED BY ONLY <2>1, <2>2, Zenon DEF Close
<1>3. CASE i % 2 # 1
  <2>1. Part(i, x) = x /\ Part(i, y) = y
    BY ONLY <1>3 DEF Part
  <2>2. x - y <= OneByteMore /\ y - x <= OneByteMore
    BY ONLY <1>1, SMT DEF OneByteMore
  <2> QED BY ONLY <2>1, <2>2, x # y DEF Close
<1> QED BY ONLY <1>2, <1>3

\* The same of the sum of the words of a sequence.
LEMMA ChangedSum ==
  ASSUME NEW data \in Seq(Byte), NEW i \in 1..Len(data), NEW b \in Byte, b # data[i]
  PROVE  LET s == WordSum(data)   t == WordSum([data EXCEPT ![i] = b])
         IN  s \in Nat /\ t \in Nat /\ s # t /\ Close(s, t)
<1>1. data \in Seq(Nat) /\ b \in Nat /\ data[i] \in Byte /\ i \in Int /\ [data EXCEPT ![i] = b] \in Seq(Nat)
  <2>1. Byte \subseteq Nat
    BY DEF Byte
  <2>2. data \in Seq(Nat)
    BY ONLY <2>1, data \in Seq(Byte), SeqMonotonic
  <2>3. b \in Nat /\ i \in Int /\ data[i] \in Byte
    BY <2>1
  <2>4. [data EXCEPT ![i] = b] \in Seq(Nat)
    BY ONLY <2>2, <2>3, i \in 1..Len(data)
  <2> QED BY ONLY <2>2, <2>3, <2>4
<1> DEFINE s == WordSum(data)   t == WordSum([data EXCEPT ![i] = b])
           x == Part(i, data[i])   y == Part(i, b)
<1>2. s \in Nat /\ t \in Nat
  BY ONLY <1>1, WordSumType
<1>3. t = (s - x) + y
  BY ONLY <1>1, i \in 1..Len(data), WordSumChanged
<1>4. Close(x, y) /\ x # y /\ x \in Nat /\ y \in Nat
  <2>1. Close(x, y) /\ x # y
    BY ONLY <1>1, b \in Byte, b # data[i], PartDiffers
  <2>2. data[i] \in Nat
    BY <1>1
  <2> QED BY ONLY <1>1, <2>1, <2>2, PartType
<1> HIDE DEF s, t, x, y
<1>5. s # t /\ Close(s, t)
  BY ONLY <1>2, <1>3, <1>4, SMT DEF Close, OneByteMore
<1> QED BY ONLY <1>2, <1>5 DEF s, t

\* Sixteen bits are two bytes, whose value and word they are.
LEMMA TwoBytes ==
  ASSUME NEW n \in 0..Ones
  PROVE  /\ Uint16(n) \in Seq(Byte) /\ Len(Uint16(n)) = 2 /\ 256 * Uint16(n)[1] + Uint16(n)[2] = n
         /\ WordSum(Uint16(n)) = n
<1> DEFINE x == n \div 256   y == n % 256
<1>0. n \in Nat /\ n <= 65535
  <2>1. n \in Nat /\ n <= Ones
    BY ONLY n \in 0..Ones, OnesIs
  <2> QED BY ONLY <2>1, OnesIs
<1>1. x \in 0..255 /\ y \in 0..255 /\ 256 * x + y = n
  BY ONLY <1>0, SMTT(30)
<1>2. Uint16(n) = <<x, y>>
  BY DEF Uint16
<1> HIDE DEF x, y
<1>3. WordSum(<<x, y>>) = 256 * x + y
  BY ONLY <1>1, WordSumPair, SMT
<1>4. <<x, y>> \in Seq(Byte) /\ Len(<<x, y>>) = 2 /\ <<x, y>>[1] = x /\ <<x, y>>[2] = y
  BY ONLY <1>1 DEF Byte
<1> QED BY ONLY <1>1, <1>2, <1>3, <1>4

-------------------------------------------------------------------------------
\* The loop of ReadBits, of which a field that lies in two bytes makes two turns.
FirstBit(bitOffset, b) == IF b = bitOffset \div 8 THEN bitOffset % 8 ELSE 0
BitsOf(bitOffset, numBits, b) ==
  Ext!Min({8 - FirstBit(bitOffset, b), bitOffset + numBits - (8 * b + FirstBit(bitOffset, b))})
Turn(data, bitOffset, numBits, result, b) ==
  result * 2^BitsOf(bitOffset, numBits, b)
  + ((data[b + 1] \div 2^(8 - FirstBit(bitOffset, b) - BitsOf(bitOffset, numBits, b)))
       % 2^BitsOf(bitOffset, numBits, b))

\* The library defines the least and the largest by CHOOSE.
LEMMA LargestOfTwo ==
  /\ \A k \in Int : Ext!Max({k}) = k
  /\ Ext!Max({1, 2}) = 2
  /\ \A j, k \in Int : Ext!Min({j, k}) = IF j < k THEN j ELSE k
<1>1. \A k \in Int : Ext!Max({k}) = k
  BY DEF Ext!Max
<1>2. Ext!Max({1, 2}) = 2
  BY DEF Ext!Max
<1>3. \A j, k \in Int : Ext!Min({j, k}) = IF j < k THEN j ELSE k
  BY DEF Ext!Min
<1> QED
  BY <1>1, <1>2, <1>3

\* The fold that ReadBits is, taken apart into its two turns.
LEMMA ReadTwoBytes ==
  ASSUME NEW data, NEW bitOffset \in Nat, NEW numBits \in Nat,
         (bitOffset + numBits - 1) \div 8 = (bitOffset \div 8) + 1
  PROVE  ReadBits(data, bitOffset, numBits)
           = Turn(data, bitOffset, numBits,
                  Turn(data, bitOffset, numBits, 0, bitOffset \div 8), (bitOffset \div 8) + 1)
<1> DEFINE first == bitOffset \div 8
           turn(result, b) == Turn(data, bitOffset, numBits, result, b)
           bytes == [i \in 1..((first + 1) - first + 1) |-> first + i - 1]
           S == DOMAIN bytes
           iter == CHOOSE f : f = [s \in SUBSET S |->
                     IF s = {} THEN 0
                     ELSE LET x == Ext!Max(s) IN turn(f[s \ {x}], bytes[x])]
<1>1. ReadBits(data, bitOffset, numBits) = Ext!FoldLeft(turn, 0, bytes)
  BY DEF ReadBits, Turn, BitsOf, FirstBit
<1>2. Ext!FoldLeft(turn, 0, bytes) = iter[S]
  BY DEF Ext!FoldLeft, Ext!MapThenFoldSet
<1>3. first \in Int /\ bytes = <<first, first + 1>> /\ S = {1, 2} /\ bytes[1] = first /\ bytes[2] = first + 1
  OBVIOUS
<1> DEFINE one == turn(0, first)
           two == turn(one, first + 1)
           other == turn(0, first + 1)
           isIter(f) == f = [s \in SUBSET S |->
                          IF s = {} THEN 0 ELSE LET x == Ext!Max(s) IN turn(f[s \ {x}], bytes[x])]
           f0 == [s \in SUBSET S |-> IF s = {} THEN 0 ELSE IF s = {1} THEN one
                                     ELSE IF s = {2} THEN other ELSE two]
<1>4. \A s \in SUBSET S : s = {} \/ s = {1} \/ s = {2} \/ s = {1, 2}
  <2> SUFFICES ASSUME NEW s \in SUBSET {1, 2} PROVE s = {} \/ s = {1} \/ s = {2} \/ s = {1, 2}
    BY <1>3
  <2>1. CASE 1 \in s /\ 2 \in s
    BY ONLY <2>1, s \in SUBSET {1, 2}
  <2>2. CASE 1 \in s /\ 2 \notin s
    BY ONLY <2>2, s \in SUBSET {1, 2}
  <2>3. CASE 1 \notin s /\ 2 \in s
    BY ONLY <2>3, s \in SUBSET {1, 2}
  <2>4. CASE 1 \notin s /\ 2 \notin s
    BY ONLY <2>4, s \in SUBSET {1, 2}
  <2> QED
    BY <2>1, <2>2, <2>3, <2>4
<1>5. Ext!Max({1}) = 1 /\ Ext!Max({2}) = 2 /\ Ext!Max({1, 2}) = 2
  BY LargestOfTwo
<1>6. isIter(f0)
  <2> HIDE DEF one, two, other
  <2>1. f0[{}] = 0 /\ f0[{1}] = one /\ f0[{2}] = other /\ f0[{1, 2}] = two
    <3>1. {} \in SUBSET S /\ {1} \in SUBSET S /\ {2} \in SUBSET S /\ {1, 2} \in SUBSET S
      BY ONLY <1>3
    <3>2. {1} # {} /\ {2} # {} /\ {1} # {2} /\ {1, 2} # {} /\ {1, 2} # {1} /\ {1, 2} # {2}
      <4>1. 1 \in {1} /\ 2 \in {2} /\ 1 \notin {2} /\ 2 \notin {1} /\ 1 \in {1, 2} /\ 2 \in {1, 2} /\ 1 \notin {} 
        OBVIOUS
      <4> QED
        BY ONLY <4>1
    <3> QED
      BY ONLY <3>1, <3>2
  <2> DEFINE g == [s \in SUBSET S |-> IF s = {} THEN 0
                                     ELSE LET x == Ext!Max(s) IN turn(f0[s \ {x}], bytes[x])]
  <2> HIDE DEF f0, bytes, turn
  <2>2. g[{}] = 0
    BY ONLY <1>3
  <2>3. g[{1}] = turn(f0[{}], bytes[1])
    <3>1. {1} \ {1} = {} /\ {1} \in SUBSET S /\ {1} # {}
      BY ONLY <1>3
    <3> QED
      BY ONLY <1>5, <3>1
  <2>4. g[{2}] = turn(f0[{}], bytes[2])
    <3>1. {2} \ {2} = {} /\ {2} \in SUBSET S /\ {2} # {}
      BY ONLY <1>3
    <3> QED
      BY ONLY <1>5, <3>1
  <2>5. g[{1, 2}] = turn(f0[{1}], bytes[2])
    <3>1. {1, 2} \ {2} = {1} /\ {1, 2} \in SUBSET S /\ {1, 2} # {}
      BY ONLY <1>3
    <3> QED
      BY ONLY <1>5, <3>1
  <2>6. g[{1}] = one /\ g[{2}] = other /\ g[{1, 2}] = two
    BY <2>1, <2>3, <2>4, <2>5, <1>3 DEF one, two, other
  <2>7. f0 = [s \in SUBSET S |-> f0[s]]
    BY DEF f0
  <2>8. \A s \in SUBSET S : f0[s] = g[s]
    <3> HIDE DEF g
    <3> QED
      BY ONLY <1>4, <2>1, <2>2, <2>6
  <2>9. f0 = g
    BY ONLY <2>7, <2>8
  <2> QED
    BY <2>9
<1>7. isIter(iter)
  BY <1>6
<1> HIDE DEF iter, turn, S
<1>8. iter[{}] = 0 /\ iter[{1}] = turn(iter[{}], first) /\ iter[{1, 2}] = turn(iter[{1}], first + 1)
  <2>1. /\ {} \in SUBSET S /\ {1} \in SUBSET S /\ {1, 2} \in SUBSET S
        /\ {1} # {} /\ {1, 2} # {} /\ {1} \ {1} = {} /\ {1, 2} \ {2} = {1}
    BY ONLY <1>3
  <2>2. \A s \in SUBSET S : iter[s] = IF s = {} THEN 0 ELSE turn(iter[s \ {Ext!Max(s)}], bytes[Ext!Max(s)])
    BY <1>7
  <2> HIDE DEF isIter
  <2>3. iter[{}] = 0 /\ iter[{1}] = turn(iter[{1} \ {Ext!Max({1})}], bytes[Ext!Max({1})])
        /\ iter[{1, 2}] = turn(iter[{1, 2} \ {Ext!Max({1, 2})}], bytes[Ext!Max({1, 2})])
    BY ONLY <2>1, <2>2
  <2>4. iter[{1}] = turn(iter[{1} \ {1}], bytes[1])
    BY ONLY <1>5, <2>3
  <2>5. iter[{1, 2}] = turn(iter[{1, 2} \ {2}], bytes[2])
    BY ONLY <1>5, <2>3
  <2> QED
    BY ONLY <1>3, <2>1, <2>3, <2>4, <2>5
<1> QED
  BY <1>1, <1>2, <1>3, <1>8 DEF turn

\* A field that lies in one byte makes one turn.
LEMMA ReadOneByte ==
  ASSUME NEW data, NEW bitOffset \in Nat, NEW numBits \in Nat,
         (bitOffset + numBits - 1) \div 8 = bitOffset \div 8
  PROVE  ReadBits(data, bitOffset, numBits) = Turn(data, bitOffset, numBits, 0, bitOffset \div 8)
<1> DEFINE first == bitOffset \div 8
           turn(result, b) == Turn(data, bitOffset, numBits, result, b)
           bytes == [i \in 1..(first - first + 1) |-> first + i - 1]
           S == DOMAIN bytes
           iter == CHOOSE f : f = [s \in SUBSET S |->
                     IF s = {} THEN 0
                     ELSE LET x == Ext!Max(s) IN turn(f[s \ {x}], bytes[x])]
           isIter(f) == f = [s \in SUBSET S |->
                     IF s = {} THEN 0 ELSE LET x == Ext!Max(s) IN turn(f[s \ {x}], bytes[x])]
           one == turn(0, first)
           f0 == [s \in SUBSET S |-> IF s = {} THEN 0 ELSE one]
<1>1. ReadBits(data, bitOffset, numBits) = Ext!FoldLeft(turn, 0, bytes)
  BY DEF ReadBits, Turn, BitsOf, FirstBit
<1>2. Ext!FoldLeft(turn, 0, bytes) = iter[S]
  BY DEF Ext!FoldLeft, Ext!MapThenFoldSet
<1>3. S = {1} /\ bytes[1] = first
  <2>1. first \in Int
    OBVIOUS
  <2> QED BY <2>1
<1>4. Ext!Max({1}) = 1
  BY LargestOfTwo
<1>5. \A s \in SUBSET S : s = {} \/ s = {1}
  BY ONLY <1>3
<1> HIDE DEF bytes, turn
<1>6. {} \in SUBSET S /\ {1} \in SUBSET S /\ {1} # {} /\ {1} \ {1} = {}
  BY ONLY <1>3
<1> HIDE DEF S, one
<1>7. isIter(f0)
  <2> DEFINE g == [s \in SUBSET S |-> IF s = {} THEN 0
                                     ELSE LET x == Ext!Max(s) IN turn(f0[s \ {x}], bytes[x])]
  <2>1. f0[{}] = 0 /\ f0[{1}] = one
    BY ONLY <1>6
  <2>2. g[{}] = 0 /\ g[{1}] = turn(f0[{1} \ {Ext!Max({1})}], bytes[Ext!Max({1})])
    BY ONLY <1>6
  <2>3. g[{1}] = one
    BY ONLY <1>3, <1>4, <1>6, <2>1, <2>2 DEF one
  <2>4. f0 = [s \in SUBSET S |-> f0[s]]
    OBVIOUS
  <2> HIDE DEF f0
  <2>5. g = [s \in SUBSET S |-> g[s]]
    OBVIOUS
  <2> HIDE DEF g
  <2>6. \A s \in SUBSET S : f0[s] = g[s]
    BY ONLY <1>5, <2>1, <2>2, <2>3
  <2>7. f0 = g
    BY ONLY <2>4, <2>5, <2>6
  <2> QED BY ONLY <2>7 DEF g
<1> HIDE DEF f0
<1>8. isIter(iter)
  BY ONLY <1>7
<1> HIDE DEF iter
<1>9. iter[{}] = 0 /\ iter[{1}] = turn(iter[{1} \ {Ext!Max({1})}], bytes[Ext!Max({1})])
  BY ONLY <1>6, <1>8
<1>10. iter[{1}] = one
  BY ONLY <1>3, <1>4, <1>6, <1>9 DEF one
<1> QED BY ONLY <1>1, <1>2, <1>3, <1>10 DEF one, turn

\* The powers of two of the fields.
LEMMA Powers ==
  /\ 2^14 = 16384 /\ 2^8 = 256 /\ 2^6 = 64 /\ 2^0 = 1
  /\ 2^1 = 2 /\ 2^3 = 8 /\ 2^4 = 16 /\ 2^5 = 32
BY SMT

\* Fields that are one or two whole bytes.
LEMMA WholeBytes ==
  ASSUME NEW data, NEW k \in Nat, data[k + 1] \in Byte
  PROVE  /\ ReadBits(data, 8 * k, 8) = data[k + 1]
         /\ data[k + 2] \in Byte => ReadBits(data, 8 * k, 16) = 256 * data[k + 1] + data[k + 2]
<1> DEFINE x == data[k + 1]   y == data[k + 2]
<1>1. /\ (8 * k) \div 8 = k /\ (8 * k) % 8 = 0 /\ (8 * k + 8 - 1) \div 8 = k
      /\ (8 * k + 16 - 1) \div 8 = k + 1 /\ 8 * k \in Nat /\ k + 1 # k /\ k + 1 + 1 = k + 2
  BY SMT
<1>2. FirstBit(8 * k, k) = 0 /\ FirstBit(8 * k, k + 1) = 0
  BY ONLY <1>1 DEF FirstBit
<1>3. BitsOf(8 * k, 8, k) = 8 /\ BitsOf(8 * k, 16, k) = 8 /\ BitsOf(8 * k, 16, k + 1) = 8
  BY ONLY <1>2, k \in Nat, LargestOfTwo, SMT DEF BitsOf
<1>4. 8 - 0 - 8 = 0
  OBVIOUS
<1>5. /\ \A r : Turn(data, 8 * k, 8, r, k) = r * 2^8 + ((data[k + 1] \div 2^0) % 2^8)
      /\ \A r : Turn(data, 8 * k, 16, r, k) = r * 2^8 + ((data[k + 1] \div 2^0) % 2^8)
      /\ \A r : Turn(data, 8 * k, 16, r, k + 1) = r * 2^8 + ((data[k + 1 + 1] \div 2^0) % 2^8)
  BY ONLY <1>2, <1>3, <1>4, Zenon DEF Turn
<1>6. x \in 0..255
  BY DEF Byte
<1>7. (x \div 1) % 256 = x
  BY ONLY <1>6, SMT
<1>8. ReadBits(data, 8 * k, 8) = 0 * 2^8 + ((x \div 2^0) % 2^8)
  <2>1. ReadBits(data, 8 * k, 8) = Turn(data, 8 * k, 8, 0, k)
    BY ONLY <1>1, 8 \in Nat, ReadOneByte
  <2> QED BY ONLY <1>5, <2>1
<1> HIDE DEF x, y
<1>9. ReadBits(data, 8 * k, 8) = x
  BY ONLY <1>6, <1>7, <1>8, Powers, SMT
<1>10. ASSUME y \in Byte PROVE ReadBits(data, 8 * k, 16) = 256 * x + y
  <2>1. y \in 0..255
    BY <1>10 DEF Byte
  <2>2. (y \div 1) % 256 = y
    BY ONLY <2>1, SMT
  <2>3. ReadBits(data, 8 * k, 16) = Turn(data, 8 * k, 16, Turn(data, 8 * k, 16, 0, k), k + 1)
    BY ONLY <1>1, 16 \in Nat, ReadTwoBytes
  <2>4. ReadBits(data, 8 * k, 16) = (0 * 2^8 + ((x \div 2^0) % 2^8)) * 2^8 + ((y \div 2^0) % 2^8)
    BY ONLY <1>1, <1>5, <2>3 DEF x, y
  <2> QED BY ONLY <1>6, <1>7, <2>1, <2>2, <2>4, Powers, SMT
<1> QED BY ONLY <1>9, <1>10 DEF x, y

\* The fields of a packet's primary header that Decode and pollLoop look at.
LEMMA PrimaryFields ==
  ASSUME NEW data, \A i \in 1..6 : data[i] \in Byte
  PROVE  /\ ReadBits(data, 0, 3) = data[1] \div 32
         /\ ReadBits(data, 3, 1) = (data[1] \div 16) % 2
         /\ ReadBits(data, 4, 1) = (data[1] \div 8) % 2
         /\ ReadBits(data, 18, 14) = 256 * (data[3] % 64) + data[4]
         /\ ReadBits(data, 32, 16) = 256 * data[5] + data[6]
<1> DEFINE x == data[1]   y == data[3]   z == data[4]
<1>1. x \in 0..255 /\ y \in 0..255 /\ z \in 0..255 /\ data[5] \in Byte /\ data[6] \in Byte
  BY DEF Byte
<1>2. /\ ReadBits(data, 0, 3) = Turn(data, 0, 3, 0, 0)
      /\ ReadBits(data, 3, 1) = Turn(data, 3, 1, 0, 0)
      /\ ReadBits(data, 4, 1) = Turn(data, 4, 1, 0, 0)
      /\ ReadBits(data, 18, 14) = Turn(data, 18, 14, Turn(data, 18, 14, 0, 2), 3)
  <2>1. ReadBits(data, 0, 3) = Turn(data, 0, 3, 0, 0)
    BY ReadOneByte
  <2>2. ReadBits(data, 3, 1) = Turn(data, 3, 1, 0, 0)
    BY ReadOneByte
  <2>3. ReadBits(data, 4, 1) = Turn(data, 4, 1, 0, 0)
    BY ReadOneByte
  <2>4. ReadBits(data, 18, 14) = Turn(data, 18, 14, Turn(data, 18, 14, 0, 2), 3)
    BY ReadTwoBytes
  <2> QED BY ONLY <2>1, <2>2, <2>3, <2>4
<1>3. /\ FirstBit(0, 0) = 0 /\ FirstBit(3, 0) = 3 /\ FirstBit(4, 0) = 4
      /\ FirstBit(18, 2) = 2 /\ FirstBit(18, 3) = 0
  BY DEF FirstBit
<1>4. /\ BitsOf(0, 3, 0) = 3 /\ BitsOf(3, 1, 0) = 1 /\ BitsOf(4, 1, 0) = 1
      /\ BitsOf(18, 14, 2) = 6 /\ BitsOf(18, 14, 3) = 8
  BY ONLY <1>3, LargestOfTwo, SMT DEF BitsOf
<1>5. 8 - 0 - 3 = 5 /\ 8 - 3 - 1 = 4 /\ 8 - 4 - 1 = 3 /\ 8 - 2 - 6 = 0 /\ 8 - 0 - 8 = 0
      /\ 0 + 1 = 1 /\ 2 + 1 = 3 /\ 3 + 1 = 4
  BY SMT
<1>6. /\ Turn(data, 0, 3, 0, 0) = 0 * 2^3 + ((data[0 + 1] \div 2^(8 - 0 - 3)) % 2^3)
      /\ Turn(data, 3, 1, 0, 0) = 0 * 2^1 + ((data[0 + 1] \div 2^(8 - 3 - 1)) % 2^1)
      /\ Turn(data, 4, 1, 0, 0) = 0 * 2^1 + ((data[0 + 1] \div 2^(8 - 4 - 1)) % 2^1)
      /\ \A r : Turn(data, 18, 14, r, 2) = r * 2^6 + ((data[2 + 1] \div 2^(8 - 2 - 6)) % 2^6)
      /\ \A r : Turn(data, 18, 14, r, 3) = r * 2^8 + ((data[3 + 1] \div 2^(8 - 0 - 8)) % 2^8)
  BY ONLY <1>3, <1>4, Zenon DEF Turn
<1>7. /\ ReadBits(data, 0, 3) = 0 * 8 + ((x \div 32) % 8)
      /\ ReadBits(data, 3, 1) = 0 * 2 + ((x \div 16) % 2)
      /\ ReadBits(data, 4, 1) = 0 * 2 + ((x \div 8) % 2)
      /\ ReadBits(data, 18, 14) = (0 * 64 + ((y \div 1) % 64)) * 256 + ((z \div 1) % 256)
  BY ONLY <1>2, <1>5, <1>6, Powers, SMT
<1> HIDE DEF x, y, z
<1>8. (x \div 32) % 8 = x \div 32 /\ x \div 32 \in Int /\ (x \div 16) % 2 \in Int /\ (x \div 8) % 2 \in Int
  BY ONLY <1>1, SMT
<1>9. (y \div 1) % 64 = y % 64 /\ y % 64 \in Int /\ (z \div 1) % 256 = z
  BY ONLY <1>1, SMT
<1>10. ReadBits(data, 32, 16) = 256 * data[5] + data[6]
  <2>1. 4 + 1 = 5 /\ 4 + 2 = 6 /\ 8 * 4 = 32 /\ 4 \in Nat
    OBVIOUS
  <2>2. ReadBits(data, 8 * 4, 16) = 256 * data[4 + 1] + data[4 + 2]
    BY ONLY <1>1, <2>1, WholeBytes
  <2> QED BY ONLY <2>1, <2>2
<1>11. ReadBits(data, 0, 3) = x \div 32
  BY ONLY <1>7, <1>8, SMT
<1>12. ReadBits(data, 3, 1) = (x \div 16) % 2 /\ ReadBits(data, 4, 1) = (x \div 8) % 2
  BY ONLY <1>7, <1>8, SMT
<1>13. ReadBits(data, 18, 14) = 256 * (y % 64) + z
  BY ONLY <1>1, <1>7, <1>9, SMT
<1> QED BY ONLY <1>10, <1>11, <1>12, <1>13 DEF x, y, z

\* The fields of the secondary header that they look at.
LEMMA SecondaryFields ==
  ASSUME NEW data, data[9] \in Byte, data[13] \in Byte, data[14] \in Byte
  PROVE  ReadBits(data, 64, 8) = data[9] /\ ReadBits(data, 96, 16) = 256 * data[13] + data[14]
<1>1. 8 + 1 = 9 /\ 12 + 1 = 13 /\ 12 + 2 = 14 /\ 8 * 8 = 64 /\ 8 * 12 = 96 /\ 8 \in Nat /\ 12 \in Nat
  OBVIOUS
<1>2. ReadBits(data, 8 * 8, 8) = data[8 + 1]
  BY ONLY <1>1, data[9] \in Byte, WholeBytes
<1>3. ReadBits(data, 8 * 12, 16) = 256 * data[12 + 1] + data[12 + 2]
  BY ONLY <1>1, data[13] \in Byte, data[14] \in Byte, WholeBytes
<1> QED BY ONLY <1>1, <1>2, <1>3

\* The sequence count and the length of a packet are numbers of their width.
LEMMA FieldsFit ==
  ASSUME NEW data, \A i \in 1..6 : data[i] \in Byte
  PROVE  ReadBits(data, 18, 14) \in 0..(2^14 - 1) /\ ReadBits(data, 32, 16) \in Nat
<1> DEFINE x == data[3] % 64   y == data[4]   p == data[5]   q == data[6]   n == 256 * x + y
<1>1. y \in 0..255 /\ p \in 0..255 /\ q \in 0..255 /\ data[3] \in 0..255
  BY DEF Byte
<1>2. x \in 0..63
  <2> DEFINE d == data[3]
  <2> HIDE DEF d
  <2>1. d % 64 \in 0..63
    BY ONLY <1>1, SMT DEF d
  <2> QED BY ONLY <2>1 DEF d
<1>3. ReadBits(data, 18, 14) = n /\ ReadBits(data, 32, 16) = 256 * p + q
  <2>1. ReadBits(data, 18, 14) = 256 * (data[3] % 64) + data[4] /\ ReadBits(data, 32, 16) = 256 * data[5] + data[6]
    BY ONLY \A i \in 1..6 : data[i] \in Byte, PrimaryFields
  <2> QED BY ONLY <2>1
<1> HIDE DEF x, y, p, q
<1>4. n \in Int /\ 0 <= n /\ n <= 16383 /\ 256 * p + q \in Nat
  BY ONLY <1>1, <1>2, SMT
<1> HIDE DEF n
<1>5. n \in 0..(2^14 - 1)
  BY ONLY <1>4, Powers, SMT
<1> QED BY ONLY <1>3, <1>4, <1>5

-------------------------------------------------------------------------------
\* A slice inside its sequence.
LEMMA SliceIs ==
  ASSUME NEW data \in Seq(Byte), NEW from \in Nat, NEW to \in Nat, from <= to, to <= Len(data)
  PROVE  /\ Slice(data, from, to) \in Seq(Byte) /\ Len(Slice(data, from, to)) = to - from
         /\ \A i \in 1..(to - from) : Slice(data, from, to)[i] = data[from + i]
<1>1. \A i \in (from + 1)..to : data[i] \in Byte
  <2> SUFFICES ASSUME NEW i \in (from + 1)..to PROVE data[i] \in Byte
    OBVIOUS
  <2>1. i \in 1..Len(data)
    OBVIOUS
  <2> QED BY <2>1, ElementOfSeq
<1> DEFINE m == from + 1   s == SubSeq(data, m, to)
<1>2. m \in Int /\ to \in Int /\ \A i \in m..to : data[i] \in Byte
  BY <1>1
<1>3. /\ s \in Seq(Byte) /\ Len(s) = (IF m <= to THEN (to - m) + 1 ELSE 0)
      /\ \A i \in 1..((to - m) + 1) : s[i] = data[(m + i) - 1]
  <2> HIDE DEF m
  <2> QED BY ONLY <1>2, SubSeqProperties
<1> HIDE DEF s
<1>4. Len(s) = to - from
  <2>1. from \in Nat /\ to \in Nat /\ from <= to
    OBVIOUS
  <2>2. CASE from = to
    <3>1. ~(m <= to) /\ to - from = 0
      BY ONLY <2>1, <2>2
    <3> QED BY ONLY <1>3, <3>1, Zenon
  <2>3. CASE from # to
    <3>1. m <= to /\ (to - m) + 1 = to - from
      BY ONLY <2>1, <2>3
    <3> QED BY ONLY <1>3, <3>1, Zenon
  <2> QED BY ONLY <2>2, <2>3
<1>5. \A i \in 1..(to - from) : s[i] = data[from + i]
  <2> SUFFICES ASSUME NEW i \in 1..(to - from) PROVE s[i] = data[from + i]
    OBVIOUS
  <2>1. i \in 1..((to - m) + 1) /\ (m + i) - 1 = from + i
    OBVIOUS
  <2> QED BY ONLY <1>3, <2>1
<1> QED BY ONLY <1>3, <1>4, <1>5 DEF s, Slice, m

\* Two sequences one behind the other.
LEMMA JoinedIs ==
  ASSUME NEW a \in Seq(Byte), NEW b \in Seq(Byte)
  PROVE  /\ a \o b \in Seq(Byte) /\ Len(a \o b) = Len(a) + Len(b)
         /\ \A i \in 1..Len(a) : (a \o b)[i] = a[i]
         /\ \A i \in 1..Len(b) : (a \o b)[Len(a) + i] = b[i]
<1> DEFINE c == a \o b   m == Len(a)   n == Len(b)
<1>1. m \in Nat /\ n \in Nat
  OBVIOUS
<1>2. c \in Seq(Byte) /\ Len(c) = m + n /\ \A i \in 1..(m + n) : c[i] = IF i <= m THEN a[i] ELSE b[i - m]
  BY ConcatProperties
<1> HIDE DEF c, m, n
<1>3. \A i \in 1..m : c[i] = a[i]
  BY ONLY <1>1, <1>2
<1>4. \A i \in 1..n : c[m + i] = b[i]
  <2> SUFFICES ASSUME NEW i \in 1..n PROVE c[m + i] = b[i]
    OBVIOUS
  <2>1. m + i \in 1..(m + n) /\ ~(m + i <= m) /\ (m + i) - m = i
    BY ONLY <1>1, i \in 1..n
  <2> QED BY ONLY <1>2, <2>1
<1> QED BY ONLY <1>2, <1>3, <1>4 DEF c, m, n

\* What FlattenSeq makes of sequences of one length.
LEMMA FlattenedLength ==
  ASSUME NEW n \in Nat, n > 0, NEW k \in Nat, NEW seqs \in [1..n -> Seq(Byte)],
         \A i \in 1..n : Len(seqs[i]) = k
  PROVE  Ext!FlattenSeq(seqs) \in Seq(Byte) /\ Len(Ext!FlattenSeq(seqs)) = k * n
<1> DEFINE step(f, m) == [i \in 1..m |-> IF i = 1 THEN seqs[i] ELSE f[i - 1] \o seqs[i]]
           Good(f, m) == f = step(f, m) /\ \A i \in 1..m : f[i] \in Seq(Byte) /\ Len(f[i]) = k * i
           T == {m \in Nat : m < n => \E f : Good(f, m + 1)}
<1>0. \A i \in 1..n : seqs[i] \in Seq(Byte)
  OBVIOUS
<1>1. 0 \in T
  <2> DEFINE f == [i \in 1..1 |-> seqs[1]]
  <2>1. f[1] = seqs[1] /\ 1 \in 1..n
    OBVIOUS
  <2>2. step(f, 1) = [i \in 1..1 |-> seqs[1]]
    OBVIOUS
  <2>3. \A i \in 1..1 : f[i] \in Seq(Byte) /\ Len(f[i]) = k * i
    <3>1. k * 1 = k /\ \A i \in 1..1 : i = 1
      OBVIOUS
    <3> QED BY ONLY <1>0, <2>1, <3>1, \A i \in 1..n : Len(seqs[i]) = k
  <2>4. Good(f, 1)
    BY ONLY <2>2, <2>3
  <2>5. 0 + 1 = 1 /\ 0 \in Nat
    OBVIOUS
  <2> QED BY ONLY <2>4, <2>5
<1>2. ASSUME NEW m \in Nat, m \in T PROVE m + 1 \in T
  <2> SUFFICES ASSUME m + 1 < n PROVE \E f : Good(f, (m + 1) + 1)
    <3> HIDE DEF Good
    <3> QED OBVIOUS
  <2>0. m < n
    OBVIOUS
  <2> DEFINE l == m + 1   p == l + 1
  <2>1. PICK f : Good(f, l)
    BY ONLY <1>2, <2>0 DEF T
  <2>2. l \in Nat /\ l > 0 /\ p \in 1..n /\ p # 1 /\ p - 1 = l /\ l \in 1..l /\ l \in 1..p
    OBVIOUS
  <2> HIDE DEF l
  <2> DEFINE g == [i \in 1..p |-> IF i = p THEN f[l] \o seqs[p] ELSE f[i]]
  <2>3. g[p] = f[l] \o seqs[p] /\ \A i \in 1..l : g[i] = f[i]
    <3>1. p \in 1..p /\ \A i \in 1..l : i \in 1..p /\ i # p
      BY ONLY <2>2
    <3> HIDE DEF p
    <3> QED BY ONLY <3>1
  <2>4. f[l] \in Seq(Byte) /\ Len(f[l]) = k * l /\ seqs[p] \in Seq(Byte) /\ Len(seqs[p]) = k
    BY ONLY <1>0, <2>1, <2>2, \A i \in 1..n : Len(seqs[i]) = k
  <2>5. g[p] \in Seq(Byte) /\ Len(g[p]) = k * p
    <3>1. g[p] \in Seq(Byte) /\ Len(g[p]) = k * l + k
      <4>1. f[l] \o seqs[p] \in Seq(Byte) /\ Len(f[l] \o seqs[p]) = Len(f[l]) + Len(seqs[p])
        BY ONLY <2>4, JoinedIs
      <4> HIDE DEF p, g
      <4> QED BY ONLY <2>3, <2>4, <4>1
    <3>2. k * l + k = k * p
      BY ONLY <2>2, k \in Nat, l \in Nat
    <3> QED BY ONLY <3>1, <3>2
  <2>6. \A i \in 1..p : i = p \/ i \in 1..l
    BY ONLY <2>2
  <2>7. \A i \in 1..p : g[i] \in Seq(Byte) /\ Len(g[i]) = k * i
    <3> HIDE DEF g, p
    <3> QED BY ONLY <2>1, <2>3, <2>5, <2>6
  <2>8. \A i \in 1..p : g[i] = IF i = 1 THEN seqs[i] ELSE g[i - 1] \o seqs[i]
    <3> SUFFICES ASSUME NEW i \in 1..p PROVE g[i] = IF i = 1 THEN seqs[i] ELSE g[i - 1] \o seqs[i]
      OBVIOUS
    <3>1. CASE i = p
      <4>1. g[l] = f[l]
        BY ONLY <2>2, <2>3
      <4> QED BY ONLY <2>2, <2>3, <3>1, <4>1
    <3>2. CASE i \in 1..l
      <4>1. f[i] = IF i = 1 THEN seqs[i] ELSE f[i - 1] \o seqs[i]
        <5>1. f = step(f, l)
          BY ONLY <2>1
        <5> QED BY ONLY <5>1, <3>2
      <4>2. g[i] = f[i] /\ (i # 1 => g[i - 1] = f[i - 1])
        <5>1. i # 1 => i - 1 \in 1..l
          BY ONLY <2>2, <3>2
        <5> QED BY ONLY <2>3, <3>2, <5>1
      <4> QED BY ONLY <4>1, <4>2
    <3> QED BY ONLY <2>6, <3>1, <3>2, i \in 1..p
  <2>9. g = step(g, p)
    <3>1. g = [i \in 1..p |-> g[i]]
      OBVIOUS
    <3> HIDE DEF g
    <3> QED BY ONLY <2>8, <3>1
  <2>10. Good(g, p)
    BY ONLY <2>7, <2>9
  <2> QED BY ONLY <2>10 DEF l
<1>3. PICK f : Good(f, n)
  <2> DEFINE m == n - 1
  <2>1. m \in Nat /\ m < n /\ m + 1 = n
    OBVIOUS
  <2> HIDE DEF m
  <2>2. m \in T
    <3> HIDE DEF T
    <3> QED BY ONLY <1>1, <1>2, <2>1, SetInduction
  <2>3. \E f : Good(f, m + 1)
    BY ONLY <2>1, <2>2 DEF T
  <2> QED BY ONLY <2>1, <2>3
<1> DEFINE flatten == CHOOSE g : g = step(g, n)
<1>4. Len(seqs) = n /\ n # 0
  OBVIOUS
<1>5. Ext!FlattenSeq(seqs) = flatten[n]
  BY ONLY <1>4, Zenon DEF Ext!FlattenSeq
<1>6. flatten = step(flatten, n)
  <2> HIDE DEF step
  <2> QED BY ONLY <1>3
<1> HIDE DEF flatten
<1> DEFINE D == {m \in Nat : m < n => flatten[m + 1] = f[m + 1]}
<1>7. \A i \in 1..n : /\ flatten[i] = IF i = 1 THEN seqs[i] ELSE flatten[i - 1] \o seqs[i]
                      /\ f[i] = IF i = 1 THEN seqs[i] ELSE f[i - 1] \o seqs[i]
  <2>1. f = step(f, n)
    BY ONLY <1>3
  <2>2. \A i \in 1..n : flatten[i] = IF i = 1 THEN seqs[i] ELSE flatten[i - 1] \o seqs[i]
    BY ONLY <1>6
  <2>3. \A i \in 1..n : f[i] = IF i = 1 THEN seqs[i] ELSE f[i - 1] \o seqs[i]
    BY ONLY <2>1
  <2> QED BY ONLY <2>2, <2>3
<1>8. 0 \in D
  <2>1. 1 \in 1..n /\ 0 + 1 = 1 /\ 0 \in Nat
    OBVIOUS
  <2> QED BY ONLY <1>7, <2>1
<1>9. ASSUME NEW m \in Nat, m \in D PROVE m + 1 \in D
  <2> SUFFICES ASSUME m + 1 < n PROVE flatten[(m + 1) + 1] = f[(m + 1) + 1]
    OBVIOUS
  <2>1. (m + 1) + 1 \in 1..n /\ (m + 1) + 1 # 1 /\ ((m + 1) + 1) - 1 = m + 1 /\ m < n
    OBVIOUS
  <2>2. flatten[m + 1] = f[m + 1]
    BY ONLY <1>9, <2>1
  <2> QED BY ONLY <1>7, <2>1, <2>2
<1>10. flatten[n] = f[n]
  <2> DEFINE m == n - 1
  <2>1. m \in Nat /\ m < n /\ m + 1 = n
    OBVIOUS
  <2> HIDE DEF m
  <2>2. m \in D
    <3> HIDE DEF D
    <3> QED BY ONLY <1>8, <1>9, <2>1, SetInduction
  <2> QED BY ONLY <2>1, <2>2
<1>11. f[n] \in Seq(Byte) /\ Len(f[n]) = k * n
  <2>1. n \in 1..n
    OBVIOUS
  <2> QED BY ONLY <1>3, <2>1
<1> QED BY ONLY <1>5, <1>10, <1>11

-------------------------------------------------------------------------------
(* The first len bytes without the checksum field, as they are summed.        *)
Summed(data, len) == [i \in 1..(len - 2) |-> IF i <= 18 THEN data[i] ELSE data[i + 2]]

(* The headers the source packs n samples behind, their checksum apart.       *)
HeaderBytes(data, seqCount, timestamp, n) ==
  /\ data[1] = 8 /\ data[2] = 66
  /\ 256 * (data[3] % 64) + data[4] = seqCount % 2^14
  /\ data[5] = 0 /\ data[6] = 13 + 13 * n
  /\ \A i \in 1..8 : data[6 + i] = timestamp[i]
  /\ data[15] = 1

(* A packet as the source packs it.                                           *)
Packed(data, seqCount, timestamp, n) ==
  /\ data \in Seq(Byte) /\ n \in 1..18 /\ Len(data) = 20 + 13 * n
  /\ HeaderBytes(data, seqCount, timestamp, n)
  /\ CalculateChecksum(Summed(data, Len(data))) = 256 * data[19] + data[20]

\* A tuple of n bytes.
LEMMA TupleOfBytes ==
  ASSUME NEW n \in Nat, NEW s \in [1..n -> Byte]
  PROVE  s \in Seq(Byte) /\ Len(s) = n
<1>1. s \in Seq(Byte)
  BY SeqDef
<1>2. DOMAIN s = 1..n /\ DOMAIN s = 1..Len(s) /\ Len(s) \in Nat
  BY <1>1, LenProperties
<1> QED BY ONLY <1>1, <1>2, n \in Nat

\* The lengths of the parts of a packet.
LEMMA Lengths == PrimaryHeaderLen = 6 /\ SecondaryHeaderLen = 14 /\ SampleSize = 13 /\ Headers = 20
BY DEF PrimaryHeaderLen, SecondaryHeaderLen, SampleSize, Headers

\* What the decoder sums are the bytes before and behind the checksum field.
LEMMA SummedIs ==
  ASSUME NEW data \in Seq(Byte), NEW len \in 20..Len(data)
  PROVE  /\ ChecksumData(data, Slice(data, Headers, len)) = Summed(data, len)
         /\ Summed(data, len) \in Seq(Byte) /\ Len(Summed(data, len)) = len - 2
<1> DEFINE p == Slice(data, 0, 18)   q == Slice(data, 20, len)   s == Summed(data, len)   l == len - 2
<1>1. Len(data) \in Nat /\ len \in Nat /\ 20 <= len /\ len <= Len(data) /\ 0 \in Nat /\ 18 \in Nat /\ 20 \in Nat
      /\ 0 <= 18 /\ 18 <= Len(data) /\ 18 - 0 = 18
  OBVIOUS
<1>2. p \in Seq(Byte) /\ Len(p) = 18 /\ \A i \in 1..18 : p[i] = data[0 + i]
  <2>1. p \in Seq(Byte) /\ Len(p) = 18 - 0 /\ \A i \in 1..(18 - 0) : p[i] = data[0 + i]
    BY ONLY <1>1, data \in Seq(Byte), SliceIs
  <2> QED BY ONLY <1>1, <2>1
<1>3. q \in Seq(Byte) /\ Len(q) = len - 20 /\ \A i \in 1..(len - 20) : q[i] = data[20 + i]
  BY ONLY <1>1, data \in Seq(Byte), SliceIs
<1>4. ChecksumData(data, Slice(data, Headers, len)) = p \o q
  BY Lengths DEF ChecksumData, ChecksumPrefix
<1> HIDE DEF p, q
<1>5. /\ p \o q \in Seq(Byte) /\ Len(p \o q) = Len(p) + Len(q)
      /\ \A i \in 1..Len(p) : (p \o q)[i] = p[i]
      /\ \A i \in 1..Len(q) : (p \o q)[Len(p) + i] = q[i]
  BY ONLY <1>2, <1>3, JoinedIs
<1>6. l \in Nat /\ l + 2 = len
  BY ONLY <1>1
<1>7. \A i \in 1..l : s[i] = IF i <= 18 THEN data[i] ELSE data[i + 2]
  BY DEF Summed
<1>8. s \in Seq(Byte) /\ Len(s) = l
  <2>1. \A i \in 1..l : (IF i <= 18 THEN data[i] ELSE data[i + 2]) \in Byte
    <3> SUFFICES ASSUME NEW i \in 1..l PROVE data[i] \in Byte /\ data[i + 2] \in Byte
      OBVIOUS
    <3>1. i \in 1..Len(data) /\ i + 2 \in 1..Len(data)
      BY ONLY <1>1, <1>6, i \in 1..l
    <3> QED BY ONLY <3>1, data \in Seq(Byte), ElementOfSeq
  <2> HIDE DEF l
  <2>2. s = [i \in 1..l |-> IF i <= 18 THEN data[i] ELSE data[i + 2]]
    BY DEF Summed, l
  <2>3. s \in [1..l -> Byte]
    BY ONLY <2>1, <2>2
  <2> QED BY ONLY <1>6, <2>3
<1>9. \A i \in 1..l : s[i] = (p \o q)[i]
  <2> SUFFICES ASSUME NEW i \in 1..l PROVE s[i] = (p \o q)[i]
    OBVIOUS
  <2> HIDE DEF s
  <2>1. CASE i <= 18
    <3>1. i \in 1..18 /\ 0 + i = i
      BY ONLY <2>1, <1>6, i \in 1..l
    <3>2. s[i] = data[i]
      BY ONLY <1>7, <2>1, i \in 1..l
    <3>3. (p \o q)[i] = p[i] /\ p[i] = data[0 + i]
      BY ONLY <1>2, <1>5, <3>1
    <3> QED BY ONLY <3>1, <3>2, <3>3
  <2>2. CASE ~(i <= 18)
    <3> DEFINE j == i - 18
    <3>1. j \in 1..(len - 20) /\ 18 + j = i /\ 20 + j = i + 2
      BY ONLY <2>2, <1>1, <1>6, i \in 1..l
    <3> HIDE DEF j
    <3>2. (p \o q)[18 + j] = q[j] /\ q[j] = data[20 + j]
      BY ONLY <1>2, <1>3, <1>5, <3>1
    <3> QED BY ONLY <1>7, <2>2, <3>1, <3>2, i \in 1..l
  <2> QED BY ONLY <2>1, <2>2
<1>10. Len(p \o q) = l
  BY ONLY <1>1, <1>2, <1>3, <1>5
<1> HIDE DEF s, l
<1>11. s = p \o q
  BY ONLY <1>5, <1>8, <1>9, <1>10, SeqEqual
<1> QED BY ONLY <1>4, <1>8, <1>11 DEF s, l

\* The two words of the header that the source computes.
LEMMA HeaderWords ==
  ASSUME NEW seqCount \in Nat, NEW n \in 1..18
  PROVE  LET first == Uint16(3 * 2^14 + (seqCount % 2^14))   second == Uint16(14 + 13 * n - 1)
         IN  /\ first \in Seq(Byte) /\ Len(first) = 2 /\ 256 * (first[1] % 64) + first[2] = seqCount % 2^14
             /\ second \in Seq(Byte) /\ Len(second) = 2 /\ second[1] = 0 /\ second[2] = 13 + 13 * n
<1> DEFINE m == seqCount % 2^14   x == 3 * 2^14 + m   y == 14 + 13 * n - 1
           first == Uint16(x)   second == Uint16(y)
<1>1. m \in Nat /\ m < 16384
  BY Powers, SMT
<1> HIDE DEF m
<1>2. x \in Nat /\ x <= 65535 /\ (x \div 256) % 64 = m \div 256 /\ x % 256 = m % 256
  BY ONLY <1>1, Powers, SMT
<1>3. y \in Nat /\ y \div 256 = 0 /\ y % 256 = y /\ y = 13 + 13 * n /\ y <= 65535
  BY SMT
<1> HIDE DEF x, y
<1>4. x \in 0..Ones /\ y \in 0..Ones
  <2>1. x <= Ones /\ y <= Ones /\ Ones \in Nat
    BY ONLY <1>2, <1>3, SMT DEF Ones
  <2> QED BY ONLY <1>2, <1>3, <2>1
<1>5. first \in Seq(Byte) /\ Len(first) = 2 /\ second \in Seq(Byte) /\ Len(second) = 2
  BY ONLY <1>4, TwoBytes
<1>6. first[1] = x \div 256 /\ first[2] = x % 256 /\ second[1] = y \div 256 /\ second[2] = y % 256
  BY DEF Uint16
<1> HIDE DEF first, second
<1>7. 256 * (first[1] % 64) + first[2] = m
  BY ONLY <1>1, <1>2, <1>6, SMT
<1>8. second[1] = 0 /\ second[2] = 13 + 13 * n
  BY ONLY <1>3, <1>6
<1> QED BY ONLY <1>5, <1>7, <1>8 DEF first, second, x, y, m

\* The headers of the source, up to the checksum.
LEMMA HeadersAre ==
  ASSUME NEW seqCount \in Nat, NEW timestamp \in [1..8 -> Byte], NEW n \in 1..18,
         NEW header, header = GeneratedHeaders(seqCount, timestamp, 13 * n)
  PROVE  header \in Seq(Byte) /\ Len(header) = 18 /\ HeaderBytes(header, seqCount, timestamp, n)
<1> DEFINE a == <<8, 66>>   b == Uint16(3 * 2^14 + (seqCount % 2^14))   c == Uint16(14 + 13 * n - 1)
           e == <<1, 2, 1, 0>>   m == seqCount % 2^14   y == 13 + 13 * n
           ab == a \o b   abc == ab \o c   abct == abc \o timestamp   h == abct \o e
<1>1. header = h
  BY DEF GeneratedHeaders, SecondaryHeaderLen
<1>2. a \in Seq(Byte) /\ Len(a) = 2 /\ a[1] = 8 /\ a[2] = 66
  BY DEF Byte
<1>3. e \in Seq(Byte) /\ Len(e) = 4 /\ e[1] = 1
  BY DEF Byte
<1>4. timestamp \in Seq(Byte) /\ Len(timestamp) = 8
  BY ONLY timestamp \in [1..8 -> Byte], 8 \in Nat, TupleOfBytes
<1>5. /\ b \in Seq(Byte) /\ Len(b) = 2 /\ 256 * (b[1] % 64) + b[2] = m
      /\ c \in Seq(Byte) /\ Len(c) = 2 /\ c[1] = 0 /\ c[2] = y
  BY HeaderWords
<1> HIDE DEF a, b, c, e, m, y
<1>6. /\ ab \in Seq(Byte) /\ Len(ab) = 4
      /\ ab[1] = 8 /\ ab[2] = 66 /\ 256 * (ab[3] % 64) + ab[4] = m
  <2>1. /\ ab \in Seq(Byte) /\ Len(ab) = Len(a) + Len(b)
        /\ \A i \in 1..Len(a) : ab[i] = a[i]
        /\ \A i \in 1..Len(b) : ab[Len(a) + i] = b[i]
    BY ONLY <1>2, <1>5, JoinedIs
  <2> HIDE DEF ab
  <2>2. 2 + 2 = 4 /\ 1 \in 1..2 /\ 2 \in 1..2 /\ 2 + 1 = 3
    OBVIOUS
  <2>3. ab[1] = 8 /\ ab[2] = 66 /\ ab[3] = b[1] /\ ab[4] = b[2]
    BY ONLY <1>2, <1>5, <2>1, <2>2
  <2> QED BY ONLY <1>2, <1>5, <2>1, <2>2, <2>3
<1> HIDE DEF ab
<1>7. /\ abc \in Seq(Byte) /\ Len(abc) = 6
      /\ \A i \in 1..4 : abc[i] = ab[i]
      /\ abc[5] = 0 /\ abc[6] = y
  <2>1. /\ abc \in Seq(Byte) /\ Len(abc) = Len(ab) + Len(c)
        /\ \A i \in 1..Len(ab) : abc[i] = ab[i]
        /\ \A i \in 1..Len(c) : abc[Len(ab) + i] = c[i]
    BY ONLY <1>5, <1>6, JoinedIs
  <2> HIDE DEF abc
  <2>2. 4 + 2 = 6 /\ 1 \in 1..2 /\ 2 \in 1..2 /\ 4 + 1 = 5
    OBVIOUS
  <2> QED BY ONLY <1>5, <1>6, <2>1, <2>2
<1> HIDE DEF abc
<1>8. /\ abct \in Seq(Byte) /\ Len(abct) = 14
      /\ \A i \in 1..6 : abct[i] = abc[i]
      /\ \A i \in 1..8 : abct[6 + i] = timestamp[i]
  <2>1. /\ abct \in Seq(Byte) /\ Len(abct) = Len(abc) + Len(timestamp)
        /\ \A i \in 1..Len(abc) : abct[i] = abc[i]
        /\ \A i \in 1..Len(timestamp) : abct[Len(abc) + i] = timestamp[i]
    BY ONLY <1>4, <1>7, JoinedIs
  <2> HIDE DEF abct
  <2>2. 6 + 8 = 14
    OBVIOUS
  <2> QED BY ONLY <1>4, <1>7, <2>1, <2>2
<1> HIDE DEF abct
<1>9. /\ h \in Seq(Byte) /\ Len(h) = 18
      /\ \A i \in 1..14 : h[i] = abct[i]
      /\ h[15] = 1
  <2>1. /\ h \in Seq(Byte) /\ Len(h) = Len(abct) + Len(e)
        /\ \A i \in 1..Len(abct) : h[i] = abct[i]
        /\ \A i \in 1..Len(e) : h[Len(abct) + i] = e[i]
    BY ONLY <1>3, <1>8, JoinedIs
  <2> HIDE DEF h
  <2>2. 14 + 4 = 18 /\ 14 + 1 = 15 /\ 1 \in 1..4
    OBVIOUS
  <2> QED BY ONLY <1>3, <1>8, <2>1, <2>2
<1> HIDE DEF h
<1>10. \A i \in 1..6 : i \in 1..14 /\ h[i] = abc[i]
  <2>1. \A i \in 1..6 : i \in 1..14
    OBVIOUS
  <2> QED BY ONLY <1>8, <1>9, <2>1
<1>11. \A i \in 1..8 : h[6 + i] = timestamp[i]
  <2>1. \A i \in 1..8 : 6 + i \in 1..14
    OBVIOUS
  <2> QED BY ONLY <1>8, <1>9, <2>1
<1>12. h[1] = 8 /\ h[2] = 66 /\ 256 * (h[3] % 64) + h[4] = m /\ h[5] = 0 /\ h[6] = y
  <2>1. \A i \in 1..4 : i \in 1..6 /\ abc[i] = ab[i]
    BY ONLY <1>7, \A i \in 1..4 : i \in 1..6
  <2>2. \A i \in 1..4 : h[i] = ab[i]
    BY ONLY <1>10, <2>1
  <2>3. h[1] = ab[1] /\ h[2] = ab[2] /\ h[3] = ab[3] /\ h[4] = ab[4] /\ h[5] = abc[5] /\ h[6] = abc[6]
    BY ONLY <1>10, <2>2
  <2> QED BY ONLY <1>6, <1>7, <2>3
<1> QED BY ONLY <1>1, <1>9, <1>11, <1>12, Zenon DEF m, y, HeaderBytes

\* They are the first eighteen bytes.
LEMMA SameHeaders ==
  ASSUME NEW a, NEW b, NEW seqCount, NEW timestamp, NEW n,
         HeaderBytes(a, seqCount, timestamp, n), \A i \in 1..18 : b[i] = a[i]
  PROVE  HeaderBytes(b, seqCount, timestamp, n)
<1>1. 1 \in 1..18 /\ 2 \in 1..18 /\ 3 \in 1..18 /\ 4 \in 1..18 /\ 5 \in 1..18 /\ 6 \in 1..18 /\ 15 \in 1..18
      /\ \A i \in 1..8 : 6 + i \in 1..18
  OBVIOUS
<1>2. b[1] = a[1] /\ b[2] = a[2] /\ b[3] = a[3] /\ b[4] = a[4] /\ b[5] = a[5] /\ b[6] = a[6] /\ b[15] = a[15]
      /\ \A i \in 1..8 : b[6 + i] = a[6 + i]
  BY ONLY <1>1, \A i \in 1..18 : b[i] = a[i], Zenon
<1> QED BY ONLY <1>2, HeaderBytes(a, seqCount, timestamp, n), Zenon DEF HeaderBytes

-------------------------------------------------------------------------------
(* The readings of a sample: four bytes each.                                 *)
Reading == [anode : [1..4 -> Byte], grid : [1..4 -> Byte], flow : [1..4 -> Byte]]

\* A sample takes thirteen bytes.
LEMMA SampleBytesType ==
  ASSUME NEW sample \in Reading
  PROVE  SampleBytes(sample) \in Seq(Byte) /\ Len(SampleBytes(sample)) = 13
<1> DEFINE a == sample.anode   b == sample.grid   c == sample.flow   d == <<128>>
           ab == a \o b   abc == ab \o c   abcd == abc \o d
<1>1. a \in [1..4 -> Byte] /\ b \in [1..4 -> Byte] /\ c \in [1..4 -> Byte] /\ 4 \in Nat
  BY DEF Reading
<1>2. d \in Seq(Byte) /\ Len(d) = 1
  BY DEF Byte
<1>3. SampleBytes(sample) = abcd
  BY DEF SampleBytes
<1> HIDE DEF a, b, c, d
<1>4. /\ a \in Seq(Byte) /\ Len(a) = 4 /\ b \in Seq(Byte) /\ Len(b) = 4 /\ c \in Seq(Byte) /\ Len(c) = 4
  BY ONLY <1>1, TupleOfBytes
<1>5. ab \in Seq(Byte) /\ Len(ab) = Len(a) + Len(b)
  BY ONLY <1>4, JoinedIs
<1> HIDE DEF ab
<1>6. abc \in Seq(Byte) /\ Len(abc) = Len(ab) + Len(c)
  BY ONLY <1>4, <1>5, JoinedIs
<1> HIDE DEF abc
<1>7. abcd \in Seq(Byte) /\ Len(abcd) = Len(abc) + Len(d)
  BY ONLY <1>2, <1>6, JoinedIs
<1> HIDE DEF abcd
<1>8. Len(abcd) = 13
  BY ONLY <1>2, <1>4, <1>5, <1>6, <1>7
<1> QED BY ONLY <1>3, <1>7, <1>8

\* The checksum of both sides, without the numeral.
LEMMA ChecksumIs ==
  ASSUME NEW data
  PROVE  CalculateChecksum(data) = Ones - FoldCarries[WordSum(data)]
BY SMT DEF CalculateChecksum, Ones

\* What the source sends is a packet as the decoder expects it.
LEMMA GeneratedIsPacked ==
  ASSUME NEW seqCount \in Nat, NEW timestamp \in [1..8 -> Byte], NEW n \in 1..18,
         NEW samples \in [1..n -> Reading]
  PROVE  Packed(GenerateCCSDSPacket(seqCount, timestamp, samples), seqCount, timestamp, n)
<1> DEFINE seqs == [i \in DOMAIN samples |-> SampleBytes(samples[i])]
           payload == Ext!FlattenSeq(seqs)
           h == GeneratedHeaders(seqCount, timestamp, Len(payload))
           sum == WordSum(h) + WordSum(payload)
           c == Ones - FoldCarries[sum]
           u == Uint16(c)
           hu == h \o u
           P == hu \o payload
<1>1. GenerateCCSDSPacket(seqCount, timestamp, samples) = P
  BY SMT DEF GenerateCCSDSPacket, Ones
<1>2. n \in Nat /\ n > 0 /\ 13 \in Nat
  OBVIOUS
<1>3. seqs \in [1..n -> Seq(Byte)] /\ \A i \in 1..n : Len(seqs[i]) = 13
  <2>1. \A i \in 1..n : samples[i] \in Reading
    OBVIOUS
  <2>2. \A i \in 1..n : SampleBytes(samples[i]) \in Seq(Byte) /\ Len(SampleBytes(samples[i])) = 13
    BY ONLY <2>1, SampleBytesType
  <2>3. DOMAIN samples = 1..n
    OBVIOUS
  <2> QED BY ONLY <2>2, <2>3
<1> HIDE DEF seqs
<1>4. payload \in Seq(Byte) /\ Len(payload) = 13 * n
  BY ONLY <1>2, <1>3, FlattenedLength
<1> HIDE DEF payload
<1>5a. h \in Seq(Byte) /\ Len(h) = 18 /\ payload \in Seq(Byte) /\ HeaderBytes(h, seqCount, timestamp, n)
  <2>1. h = GeneratedHeaders(seqCount, timestamp, 13 * n)
    BY ONLY <1>4
  <2> HIDE DEF h
  <2> QED BY ONLY <1>4, <2>1, HeadersAre, seqCount \in Nat, timestamp \in [1..8 -> Byte], n \in 1..18
<1>5. Len(h) = 18 /\ h \in Seq(Byte)
  BY ONLY <1>5a
<1> HIDE DEF h
<1>6. h \in Seq(Nat) /\ payload \in Seq(Nat) /\ Len(h) % 2 = 0
  <2>1. Byte \subseteq Nat
    BY DEF Byte
  <2>2. h \in Seq(Nat) /\ payload \in Seq(Nat)
    BY ONLY <2>1, <1>4, <1>5, SeqMonotonic
  <2>3. 18 % 2 = 0
    BY SMT
  <2> QED BY ONLY <1>5, <2>2, <2>3
<1>7. sum \in Nat /\ sum = WordSum(h \o payload)
  <2>1. WordSum(h) \in Nat /\ WordSum(payload) \in Nat
    BY ONLY <1>6, WordSumType
  <2>2. WordSum(h \o payload) = WordSum(h) + WordSum(payload)
    BY ONLY <1>6, WordSumJoined
  <2> QED BY ONLY <2>1, <2>2
<1> HIDE DEF sum
<1>8. c \in 0..Ones
  <2>1. FoldCarries[sum] \in 0..Ones
    BY ONLY <1>7, FoldedType
  <2>2. Ones \in Nat
    BY ONLY SMT DEF Ones
  <2> QED BY ONLY <2>1, <2>2
<1>9. CalculateChecksum(h \o payload) = c
  BY ONLY <1>7, ChecksumIs
<1> HIDE DEF c
<1>10. u \in Seq(Byte) /\ Len(u) = 2 /\ 256 * u[1] + u[2] = c
  BY ONLY <1>8, TwoBytes
<1>10a. u \in Seq(Byte) /\ Len(u) = 2
  BY ONLY <1>10
<1> HIDE DEF u
<1>11. /\ hu \in Seq(Byte) /\ Len(hu) = 20 /\ \A i \in 1..18 : hu[i] = h[i]
       /\ hu[19] = u[1] /\ hu[20] = u[2]
  <2>1. /\ hu \in Seq(Byte) /\ Len(hu) = Len(h) + Len(u)
        /\ \A i \in 1..Len(h) : hu[i] = h[i]
        /\ \A i \in 1..Len(u) : hu[Len(h) + i] = u[i]
    BY ONLY <1>5a, <1>10a, JoinedIs
  <2> HIDE DEF hu
  <2>2. 18 + 2 = 20 /\ 18 + 1 = 19 /\ 1 \in 1..2 /\ 2 \in 1..2
    OBVIOUS
  <2>3. hu[18 + 1] = u[1] /\ hu[18 + 2] = u[2]
    BY ONLY <1>5a, <1>10a, <2>1, <2>2
  <2> QED BY ONLY <1>5a, <1>10a, <2>1, <2>2, <2>3
<1> HIDE DEF hu
<1>12. /\ P \in Seq(Byte) /\ Len(P) = 20 + 13 * n /\ \A i \in 1..20 : P[i] = hu[i]
       /\ \A i \in 1..(13 * n) : P[20 + i] = payload[i]
  <2>1. hu \in Seq(Byte) /\ Len(hu) = 20
    BY ONLY <1>11
  <2>2. /\ P \in Seq(Byte) /\ Len(P) = Len(hu) + Len(payload)
        /\ \A i \in 1..Len(hu) : P[i] = hu[i]
        /\ \A i \in 1..Len(payload) : P[Len(hu) + i] = payload[i]
    BY ONLY <1>4, <2>1, JoinedIs
  <2> HIDE DEF P
  <2> QED BY ONLY <1>4, <2>1, <2>2
<1> HIDE DEF P
<1>13. \A i \in 1..18 : P[i] = h[i]
  <2>1. \A i \in 1..18 : i \in 1..20
    OBVIOUS
  <2> QED BY ONLY <1>11, <1>12, <2>1
<1>14. Summed(P, Len(P)) = h \o payload
  <2> DEFINE s == Summed(P, Len(P))   t == h \o payload
  <2>1. Len(P) \in 20..Len(P) /\ Len(P) - 2 = 18 + 13 * n
    <3>1. Len(P) = 20 + 13 * n /\ n \in 1..18
      BY ONLY <1>12, <1>2, Zenon
    <3> QED BY ONLY <3>1, SMT
  <2>2. s \in Seq(Byte) /\ Len(s) = Len(P) - 2
    BY ONLY <1>12, <2>1, SummedIs
  <2>3. /\ t \in Seq(Byte) /\ Len(t) = 18 + 13 * n /\ \A i \in 1..18 : t[i] = h[i]
        /\ \A i \in 1..(13 * n) : t[18 + i] = payload[i]
    <3>1. /\ t \in Seq(Byte) /\ Len(t) = Len(h) + Len(payload)
          /\ \A i \in 1..Len(h) : t[i] = h[i]
          /\ \A i \in 1..Len(payload) : t[Len(h) + i] = payload[i]
      BY ONLY <1>5a, JoinedIs
    <3> HIDE DEF t
    <3> QED BY ONLY <1>4, <1>5a, <3>1
  <2>4. \A i \in 1..(Len(P) - 2) : s[i] = IF i <= 18 THEN P[i] ELSE P[i + 2]
    BY ONLY DEF Summed, s
  <2> HIDE DEF s, t
  <2>5. \A i \in 1..Len(s) : s[i] = t[i]
    <3> SUFFICES ASSUME NEW i \in 1..Len(s) PROVE s[i] = t[i]
      OBVIOUS
    <3>0. i \in 1..(Len(P) - 2)
      BY ONLY <2>2, i \in 1..Len(s)
    <3>1. CASE i <= 18
      <4>1. i \in 1..18
        BY ONLY <3>0, <3>1, <2>1, n \in 1..18
      <4>2. s[i] = P[i]
        BY ONLY <2>4, <3>0, <3>1
      <4>3. P[i] = h[i] /\ t[i] = h[i]
        BY ONLY <1>13, <2>3, <4>1
      <4> QED BY ONLY <4>2, <4>3
    <3>2. CASE ~(i <= 18)
      <4> DEFINE j == i - 18
      <4>1. j \in 1..(13 * n) /\ 18 + j = i /\ 20 + j = i + 2
        BY ONLY <3>0, <3>2, <2>1, n \in 1..18
      <4> HIDE DEF j
      <4>2. t[18 + j] = payload[j] /\ P[20 + j] = payload[j]
        BY ONLY <1>12, <2>3, <4>1
      <4> QED BY ONLY <2>4, <3>0, <3>2, <4>1, <4>2
    <3> QED BY ONLY <3>1, <3>2
  <2>6. s = t
    BY ONLY <2>1, <2>2, <2>3, <2>5, SeqEqual
  <2> QED BY ONLY <2>6 DEF s, t
<1>15. 256 * P[19] + P[20] = c
  <2>1. 19 \in 1..20 /\ 20 \in 1..20
    OBVIOUS
  <2>2. P[19] = u[1] /\ P[20] = u[2]
    BY ONLY <1>11, <1>12, <2>1
  <2> QED BY ONLY <1>10, <2>2
<1>16. CalculateChecksum(Summed(P, Len(P))) = 256 * P[19] + P[20]
  BY ONLY <1>9, <1>14, <1>15
<1>17. HeaderBytes(P, seqCount, timestamp, n)
  BY ONLY <1>5a, <1>13, SameHeaders
<1> QED BY ONLY <1>1, <1>12, <1>16, <1>17, n \in 1..18, Zenon DEF Packed

-------------------------------------------------------------------------------
(* The length of the packet that a buffer's length field announces.           *)
TotalLen(data) == 7 + 256 * data[5] + data[6]

\* Bytes are small numbers.
LEMMA ByteIsNat == \A x \in Byte : x \in Nat /\ x <= 255
BY DEF Byte

\* The primary header of a buffer, and what Decode is after it has read it.
LEMMA PrimaryIs ==
  ASSUME NEW data \in Seq(Byte), Len(data) >= 6, NEW primary, primary = DecodePrimaryHeader(data)
  PROVE  /\ \A i \in 1..6 : data[i] \in Byte
         /\ primary.version = data[1] \div 32 /\ primary.type = (data[1] \div 16) % 2
         /\ primary.secondaryHeader = ((data[1] \div 8) % 2 = 1)
         /\ primary.sequenceCount = 256 * (data[3] % 64) + data[4]
         /\ TotalLen(data) \in Nat
         /\ Decode(data) = DecodeRest(data, primary, TotalLen(data))
<1>1. \A i \in 1..6 : data[i] \in Byte
  <2>1. \A i \in 1..6 : i \in 1..Len(data)
    OBVIOUS
  <2> QED BY ONLY <2>1, data \in Seq(Byte), ElementOfSeq
<1>2. /\ ReadBits(data, 0, 3) = data[1] \div 32
      /\ ReadBits(data, 3, 1) = (data[1] \div 16) % 2
      /\ ReadBits(data, 4, 1) = (data[1] \div 8) % 2
      /\ ReadBits(data, 18, 14) = 256 * (data[3] % 64) + data[4]
      /\ ReadBits(data, 32, 16) = 256 * data[5] + data[6]
  BY ONLY <1>1, PrimaryFields, Zenon
<1>3. /\ primary.version = ReadBits(data, 0, 3) /\ primary.type = ReadBits(data, 3, 1)
      /\ primary.secondaryHeader = (ReadBits(data, 4, 1) = 1)
      /\ primary.sequenceCount = ReadBits(data, 18, 14) /\ primary.packetLength = ReadBits(data, 32, 16)
  BY ONLY primary = DecodePrimaryHeader(data), Zenon DEF DecodePrimaryHeader
<1>4. data[5] \in Nat /\ data[6] \in Nat
  <2>1. 5 \in 1..6 /\ 6 \in 1..6
    OBVIOUS
  <2>2. data[5] \in Byte /\ data[6] \in Byte
    BY ONLY <1>1, <2>1
  <2> QED BY ONLY <2>2, ByteIsNat
<1>5. TotalLen(data) \in Nat /\ TotalLen(data) = PrimaryHeaderLen + primary.packetLength + 1
  <2> DEFINE l == 256 * data[5] + data[6]
  <2>1. l \in Nat /\ TotalLen(data) = 7 + l
    <3> DEFINE x == data[5]   y == data[6]
    <3> HIDE DEF x, y
    <3>1. x \in Nat /\ y \in Nat
      BY ONLY <1>4 DEF x, y
    <3>2. 256 * x + y \in Nat /\ 7 + 256 * x + y = 7 + (256 * x + y)
      BY ONLY <3>1, SMT
    <3> QED BY ONLY <3>2, Zenon DEF TotalLen, x, y
  <2>2. primary.packetLength = l
    BY ONLY <1>2, <1>3, Zenon
  <2> HIDE DEF l
  <2>3. 6 + l + 1 = 7 + l /\ 7 + l \in Nat
    BY ONLY <2>1
  <2> QED BY ONLY <2>1, <2>2, <2>3, Lengths
<1>6. Decode(data) = DecodeFrom(data, DecodePrimaryHeader(data))
  <2>1. ~(Len(data) < PrimaryHeaderLen)
    BY Lengths
  <2> QED BY ONLY <2>1, Zenon DEF Decode
<1>7. Decode(data) = DecodeRest(data, primary, TotalLen(data))
  BY ONLY <1>5, <1>6, primary = DecodePrimaryHeader(data), Zenon DEF DecodeFrom
<1> QED BY ONLY <1>1, <1>2, <1>3, <1>5, <1>7, Zenon

\* The secondary header of a buffer that has one.
LEMMA SecondaryIs ==
  ASSUME NEW data \in Seq(Byte), Len(data) >= 20,
         NEW secondary, secondary = DecodeSecondaryHeader(Slice(data, PrimaryHeaderLen, Len(data)))
  PROVE  /\ secondary.packetType = data[15] /\ secondary.checksum = 256 * data[19] + data[20]
         /\ secondary.timestamp \in Seq(Byte) /\ Len(secondary.timestamp) = 8
         /\ \A i \in 1..8 : secondary.timestamp[i] = data[6 + i]
<1> DEFINE s == Slice(data, PrimaryHeaderLen, Len(data))   l == Len(data) - 6
<1>1. l \in Nat /\ l >= 14 /\ 6 \in Nat /\ Len(data) \in Nat /\ 6 <= Len(data) /\ Len(data) <= Len(data)
  OBVIOUS
<1>2. s \in Seq(Byte) /\ Len(s) = l /\ \A i \in 1..l : s[i] = data[6 + i]
  <2> DEFINE c == Slice(data, 6, Len(data))
  <2>1. c \in Seq(Byte) /\ Len(c) = l /\ \A i \in 1..l : c[i] = data[6 + i]
    BY ONLY <1>1, data \in Seq(Byte), SliceIs
  <2>2. s = c
    BY ONLY Lengths
  <2> HIDE DEF s, c
  <2> QED BY ONLY <2>1, <2>2
<1>3. secondary = DecodeSecondaryHeader(s)
  OBVIOUS
<1> HIDE DEF s, l
<1>4. \A i \in 1..14 : i \in 1..l
  BY ONLY <1>1
<1>5. \A i \in 1..14 : s[i] \in Byte /\ s[i] = data[6 + i]
  BY ONLY <1>2, <1>4, ElementOfSeq
<1>6. 9 \in 1..14 /\ 13 \in 1..14 /\ 14 \in 1..14 /\ 6 + 9 = 15 /\ 6 + 13 = 19 /\ 6 + 14 = 20
  OBVIOUS
<1>7. s[9] \in Byte /\ s[13] \in Byte /\ s[14] \in Byte /\ s[9] = data[15] /\ s[13] = data[19] /\ s[14] = data[20]
  BY ONLY <1>5, <1>6
<1>8. ReadBits(s, 64, 8) = s[9] /\ ReadBits(s, 96, 16) = 256 * s[13] + s[14]
  BY ONLY <1>7, SecondaryFields
<1>9. /\ secondary.timestamp = SubSeq(s, 1, 8) /\ secondary.packetType = ReadBits(s, 64, 8)
      /\ secondary.checksum = ReadBits(s, 96, 16)
  BY ONLY <1>3, Zenon DEF DecodeSecondaryHeader
<1>10. SubSeq(s, 1, 8) \in Seq(Byte) /\ Len(SubSeq(s, 1, 8)) = 8 /\ \A i \in 1..8 : SubSeq(s, 1, 8)[i] = s[i]
  <2>1. 0 \in Nat /\ 8 \in Nat /\ 0 <= 8 /\ 8 <= Len(s) /\ 0 + 1 = 1 /\ 8 - 0 = 8 /\ \A i \in 1..8 : 0 + i = i
    BY ONLY <1>1, <1>2
  <2>2. Slice(s, 0, 8) = SubSeq(s, 1, 8)
    BY ONLY <2>1 DEF Slice
  <2>3. /\ Slice(s, 0, 8) \in Seq(Byte) /\ Len(Slice(s, 0, 8)) = 8 - 0
        /\ \A i \in 1..(8 - 0) : Slice(s, 0, 8)[i] = s[0 + i]
    BY ONLY <1>2, <2>1, SliceIs
  <2> QED BY ONLY <2>1, <2>2, <2>3
<1>11. \A i \in 1..8 : SubSeq(s, 1, 8)[i] = data[6 + i]
  <2>1. \A i \in 1..8 : i \in 1..14
    OBVIOUS
  <2> QED BY ONLY <1>5, <1>10, <2>1
<1>12. secondary.packetType = data[15] /\ secondary.checksum = 256 * data[19] + data[20]
  BY ONLY <1>7, <1>8, <1>9, Zenon
<1> QED BY ONLY <1>9, <1>10, <1>11, <1>12, Zenon

\* Decode panics only on a length field that ends inside the headers, and
\* returns samples only of a packet with both headers, its whole length there.
LEMMA Outcomes ==
  ASSUME NEW data \in Seq(Byte), Len(data) >= 6, NEW primary, primary = DecodePrimaryHeader(data)
  PROVE  LET r == Decode(data)
             body == DecodeBody(data, primary, TotalLen(data))
         IN  /\ r.err = "panic" => TotalLen(data) < 20 /\ r.buffer = data
             /\ SamplesOf(r) # <<>> =>
                  /\ r = body /\ r.err = "none" /\ primary.secondaryHeader
                  /\ 20 <= TotalLen(data) /\ TotalLen(data) <= Len(data)
             /\ (/\ primary.version = 0 /\ primary.secondaryHeader
                 /\ 20 <= TotalLen(data) /\ TotalLen(data) <= Len(data)) => r = body
<1> DEFINE r == Decode(data)   total == TotalLen(data)   body == DecodeBody(data, primary, total)
<1>1. r = DecodeRest(data, primary, total) /\ total \in Nat /\ Len(data) \in Nat
  BY PrimaryIs
<1> HIDE DEF r, total
<1>2. CASE primary.version # 0 \/ Len(data) < total
  <2>1. r.err \notin {"none", "panic"}
    BY ONLY <1>1, <1>2 DEF DecodeRest, Failed
  <2>2. SamplesOf(r) = <<>> /\ r.err # "panic"
    BY ONLY <2>1 DEF SamplesOf
  <2>3. ~(primary.version = 0 /\ total <= Len(data))
    BY ONLY <1>1, <1>2
  <2> QED BY ONLY <2>2, <2>3, Zenon DEF r, total
<1>3. CASE ~(primary.version # 0 \/ Len(data) < total) /\ ~primary.secondaryHeader
  <2>1. r.err = "none" /\ r.primary = primary
    BY ONLY <1>1, <1>3 DEF DecodeRest
  <2>2. SamplesOf(r) = <<>>
    BY ONLY <1>3, <2>1 DEF SamplesOf, IsThrusterPacket
  <2>3. r.err # "panic"
    BY ONLY <2>1
  <2> QED BY ONLY <1>3, <2>2, <2>3, Zenon DEF r, total
<1>4. CASE ~(primary.version # 0 \/ Len(data) < total) /\ primary.secondaryHeader /\ Len(data) < Headers
  <2>1. r.err = "short"
    BY ONLY <1>1, <1>4 DEF DecodeRest, Failed
  <2>2. SamplesOf(r) = <<>> /\ r.err # "panic"
    BY ONLY <2>1 DEF SamplesOf
  <2>3. ~(20 <= total /\ total <= Len(data))
    BY ONLY <1>1, <1>4, Lengths
  <2> QED BY ONLY <2>2, <2>3, Zenon DEF r, total
<1>5. CASE /\ ~(primary.version # 0 \/ Len(data) < total) /\ primary.secondaryHeader
           /\ ~(Len(data) < Headers) /\ total < Headers
  <2>1. r.err = "panic" /\ r.buffer = data
    BY ONLY <1>1, <1>5 DEF DecodeRest, Failed
  <2>2. SamplesOf(r) = <<>>
    BY ONLY <2>1 DEF SamplesOf
  <2>3. total < 20 /\ ~(20 <= total)
    BY ONLY <1>1, <1>5, Lengths
  <2> QED BY ONLY <2>1, <2>2, <2>3, Zenon DEF r, total
<1>6. CASE /\ ~(primary.version # 0 \/ Len(data) < total) /\ primary.secondaryHeader
           /\ ~(Len(data) < Headers) /\ ~(total < Headers)
  <2>1. r = body
    BY ONLY <1>1, <1>6 DEF DecodeRest
  <2>2. r.err # "panic"
    BY ONLY <2>1 DEF DecodeBody
  <2>3. 20 <= total /\ total <= Len(data)
    BY ONLY <1>1, <1>6, Lengths
  <2>4. SamplesOf(r) # <<>> => r.err = "none"
    BY DEF SamplesOf
  <2> HIDE DEF body
  <2> QED BY ONLY <1>6, <2>1, <2>2, <2>3, <2>4, Zenon DEF r, total, body
<1> QED BY ONLY <1>2, <1>3, <1>4, <1>5, <1>6, Zenon

\* The body of a packet of type 0 gives samples only if its sum is right.
LEMMA BodyChecked ==
  ASSUME NEW data \in Seq(Byte), NEW total \in 20..Len(data), NEW primary, primary.type = 0,
         NEW body, body = DecodeBody(data, primary, total)
  PROVE  /\ body.err = "none" \/ body.err = "checksum"
         /\ body.primary = primary
         /\ body.secondary = DecodeSecondaryHeader(Slice(data, PrimaryHeaderLen, Len(data)))
         /\ body.secondary.packetType = data[15]
         /\ Len(body.payload) = total - 20
         /\ data[15] # 0 /\ body.err = "none"
              => CalculateChecksum(Summed(data, total)) = 256 * data[19] + data[20]
         /\ CalculateChecksum(Summed(data, total)) = 256 * data[19] + data[20] => body.err = "none"
<1> DEFINE secondary == DecodeSecondaryHeader(Slice(data, PrimaryHeaderLen, Len(data)))
           payload == Slice(data, Headers, total)
           checked == primary.type = 0 /\ secondary.packetType # 0
           buffer == IF checked THEN AppendInPlace(data, payload) ELSE data
           verified == CalculateChecksum(ChecksumData(data, payload)) = secondary.checksum
<1>1. body = [err |-> IF checked /\ ~verified THEN "checksum" ELSE "none",
              primary |-> primary, secondary |-> secondary,
              buffer |-> buffer, payload |-> Slice(buffer, Headers, total)]
  BY ONLY body = DecodeBody(data, primary, total), Zenon DEF DecodeBody
<1>2. ChecksumData(data, payload) = Summed(data, total)
  BY SummedIs
<1>3. Len(data) >= 20 /\ total \in Nat /\ total >= 20
  OBVIOUS
<1>4. secondary.packetType = data[15] /\ secondary.checksum = 256 * data[19] + data[20]
  <2>1. secondary = DecodeSecondaryHeader(Slice(data, PrimaryHeaderLen, Len(data)))
    OBVIOUS
  <2> HIDE DEF secondary
  <2> QED BY ONLY <1>3, <2>1, data \in Seq(Byte), SecondaryIs
<1> HIDE DEF secondary, payload
<1>5. verified <=> CalculateChecksum(Summed(data, total)) = 256 * data[19] + data[20]
  BY ONLY <1>2, <1>4, Zenon
<1>6. checked <=> data[15] # 0
  BY ONLY <1>4, primary.type = 0, Zenon
<1> HIDE DEF verified, checked, buffer
<1>7. /\ body.err = (IF checked /\ ~verified THEN "checksum" ELSE "none")
      /\ body.primary = primary /\ body.secondary = secondary
      /\ body.payload = Slice(buffer, Headers, total)
  BY ONLY <1>1, Zenon
<1>8. Len(Slice(buffer, Headers, total)) = total - 20
  <2>1. Slice(buffer, Headers, total) = SubSeq(buffer, 21, total)
    BY ONLY Lengths, SMT DEF Slice
  <2>2. Len(SubSeq(buffer, 21, total)) = IF 21 <= total THEN total - 21 + 1 ELSE 0
    BY ONLY <1>3, SMT
  <2> QED BY ONLY <1>3, <2>1, <2>2, SMT
<1>9. body.err = "none" \/ body.err = "checksum"
  BY ONLY <1>7, Zenon
<1>10. data[15] # 0 /\ body.err = "none"
              => CalculateChecksum(Summed(data, total)) = 256 * data[19] + data[20]
  <2>1. "checksum" # "none"
    OBVIOUS
  <2> QED BY ONLY <1>5, <1>6, <1>7, <2>1, Zenon
<1>11. CalculateChecksum(Summed(data, total)) = 256 * data[19] + data[20] => body.err = "none"
  BY ONLY <1>5, <1>7, Zenon
<1> QED BY ONLY <1>4, <1>7, <1>8, <1>9, <1>10, <1>11, Zenon DEF secondary

-------------------------------------------------------------------------------
\* The headers of a packet with the first six bytes of one that was packed.
LEMMA PackedHeader ==
  ASSUME NEW packet, NEW seqCount, NEW timestamp, NEW n, Packed(packet, seqCount, timestamp, n),
         NEW data \in Seq(Byte), Len(data) >= 6, \A i \in 1..6 : data[i] = packet[i],
         NEW primary, primary = DecodePrimaryHeader(data)
  PROVE  /\ primary.version = 0 /\ primary.type = 0 /\ primary.secondaryHeader
         /\ primary.sequenceCount = seqCount % 2^14 /\ TotalLen(data) = 20 + 13 * n
<1>1. /\ packet[1] = 8 /\ 256 * (packet[3] % 64) + packet[4] = seqCount % 2^14
      /\ packet[5] = 0 /\ packet[6] = 13 + 13 * n /\ n \in 1..18
  BY ONLY Packed(packet, seqCount, timestamp, n), Zenon DEF Packed, HeaderBytes
<1>2. data[1] = packet[1] /\ data[3] = packet[3] /\ data[4] = packet[4] /\ data[5] = packet[5] /\ data[6] = packet[6]
  BY ONLY \A i \in 1..6 : data[i] = packet[i]
<1>3. /\ primary.version = data[1] \div 32 /\ primary.type = (data[1] \div 16) % 2
      /\ primary.secondaryHeader = ((data[1] \div 8) % 2 = 1)
      /\ primary.sequenceCount = 256 * (data[3] % 64) + data[4]
  BY PrimaryIs
<1>4. 8 \div 32 = 0 /\ (8 \div 16) % 2 = 0 /\ (8 \div 8) % 2 = 1
  BY SMT
<1>5. primary.version = 0 /\ primary.type = 0 /\ primary.secondaryHeader
  <2>1. data[1] = 8
    BY ONLY <1>1, <1>2
  <2>2. primary.version = 8 \div 32 /\ primary.type = (8 \div 16) % 2 /\ primary.secondaryHeader = ((8 \div 8) % 2 = 1)
    BY ONLY <1>3, <2>1, Zenon
  <2> QED BY ONLY <1>4, <2>2, Zenon
<1>6. TotalLen(data) = 7 + 256 * 0 + (13 + 13 * n)
  <2>1. data[5] = 0 /\ data[6] = 13 + 13 * n
    BY ONLY <1>1, <1>2
  <2> QED BY ONLY <2>1, Zenon DEF TotalLen
<1>7. 7 + 256 * 0 + (13 + 13 * n) = 20 + 13 * n
  BY ONLY <1>1, SMT
<1>8. primary.sequenceCount = seqCount % 2^14
  BY ONLY <1>1, <1>2, <1>3, Zenon
<1> QED BY ONLY <1>5, <1>6, <1>7, <1>8, Zenon

(* A buffer that begins with all of a packet.                                 *)
Begins(data, packet) ==
  data \in Seq(Byte) /\ Len(data) >= Len(packet) /\ \A i \in 1..Len(packet) : data[i] = packet[i]

(* What Decode makes of it: the source's count and time, and n samples        *)
(* numbered from there.                                                       *)
AsSent(r, seqCount, timestamp, n) ==
  /\ r.err = "none" /\ r.primary.sequenceCount = seqCount % 2^14
  /\ r.secondary.timestamp = timestamp /\ Len(SamplesOf(r)) = n
  /\ \A i \in 1..n : SamplesOf(r)[i].sequence = r.primary.sequenceCount * n + i - 1

\* A packet that arrives whole is accepted, whatever follows it, with the
\* source's count and time, and its samples numbered from there.
LEMMA WholeAccepted ==
  ASSUME NEW packet, NEW seqCount, NEW timestamp \in [1..8 -> Byte], NEW n,
         Packed(packet, seqCount, timestamp, n),
         NEW data, Begins(data, packet)
  PROVE  AsSent(Decode(data), seqCount, timestamp, n)
<1> DEFINE primary == DecodePrimaryHeader(data)   total == 20 + 13 * n   r == Decode(data)
<1>0. data \in Seq(Byte) /\ Len(data) >= Len(packet) /\ \A i \in 1..Len(packet) : data[i] = packet[i]
  BY DEF Begins
<1>1. /\ packet \in Seq(Byte) /\ n \in 1..18 /\ Len(packet) = total
      /\ CalculateChecksum(Summed(packet, total)) = 256 * packet[19] + packet[20]
      /\ \A i \in 1..8 : packet[6 + i] = timestamp[i]
      /\ packet[15] = 1
  BY ONLY Packed(packet, seqCount, timestamp, n), Zenon DEF Packed, HeaderBytes
<1>2. Len(data) \in Nat /\ total \in 20..Len(data) /\ total \in Nat /\ Len(data) >= 20 /\ Len(data) >= 6
      /\ total <= Len(data) /\ 20 <= total
  <2>1. Len(data) \in Nat /\ n \in 1..18 /\ Len(data) >= 20 + 13 * n
    BY ONLY <1>0, <1>1, LenProperties
  <2> QED BY ONLY <2>1, SMT
<1>3. \A i \in 1..20 : data[i] = packet[i]
  <2>1. \A i \in 1..20 : i \in 1..Len(packet)
    <3>1. Len(packet) = 20 + 13 * n /\ n \in 1..18
      BY ONLY <1>1
    <3> QED BY ONLY <3>1, SMT
  <2> QED BY ONLY <1>0, <2>1
<1>4. /\ primary.version = 0 /\ primary.type = 0 /\ primary.secondaryHeader
      /\ primary.sequenceCount = seqCount % 2^14 /\ TotalLen(data) = total
  <2>1. \A i \in 1..6 : data[i] = packet[i]
    <3>1. \A i \in 1..6 : i \in 1..20
      OBVIOUS
    <3> QED BY ONLY <1>3, <3>1
  <2> HIDE DEF primary
  <2> QED BY ONLY <1>2, <2>1, <1>0, Packed(packet, seqCount, timestamp, n), PackedHeader DEF primary
<1> DEFINE body == DecodeBody(data, primary, total)
<1> HIDE DEF total
<1>5. r = body
  <2>1. (/\ primary.version = 0 /\ primary.secondaryHeader
         /\ 20 <= TotalLen(data) /\ TotalLen(data) <= Len(data)) => r = DecodeBody(data, primary, TotalLen(data))
    BY ONLY <1>2, <1>0, Outcomes, Zenon
  <2> HIDE DEF primary, r
  <2> QED BY ONLY <1>2, <1>4, <2>1, Zenon
<1>6. Summed(data, total) = Summed(packet, total)
  <2>1. \A i \in 1..(total - 2) : (IF i <= 18 THEN data[i] ELSE data[i + 2])
                                   = (IF i <= 18 THEN packet[i] ELSE packet[i + 2])
    <3> SUFFICES ASSUME NEW i \in 1..(total - 2) PROVE data[i] = packet[i] /\ data[i + 2] = packet[i + 2]
      OBVIOUS
    <3>1. i \in 1..total /\ i + 2 \in 1..total
      BY ONLY <1>2, i \in 1..(total - 2)
    <3> QED BY ONLY <1>1, <3>1, <1>0
  <2> QED BY ONLY <2>1 DEF Summed
<1>7. data[15] = 1 /\ data[19] = packet[19] /\ data[20] = packet[20] /\ \A i \in 1..8 : data[6 + i] = timestamp[i]
  <2>1. 15 \in 1..20 /\ 19 \in 1..20 /\ 20 \in 1..20 /\ \A i \in 1..8 : 6 + i \in 1..20
    OBVIOUS
  <2> QED BY ONLY <1>1, <1>3, <2>1
<1>8. CalculateChecksum(Summed(data, total)) = 256 * data[19] + data[20]
  BY ONLY <1>1, <1>6, <1>7, Zenon
<1>9. /\ r.primary = primary
      /\ r.secondary = DecodeSecondaryHeader(Slice(data, PrimaryHeaderLen, Len(data)))
      /\ r.secondary.packetType = data[15]
      /\ Len(r.payload) = total - 20
      /\ r.err = "none"
  <2> HIDE DEF r, primary
  <2>0. data \in Seq(Byte) /\ total \in 20..Len(data)
    BY ONLY <1>0, <1>2
  <2>1. r = DecodeBody(data, primary, total) /\ primary.type = 0
    BY ONLY <1>4, <1>5
  <2>2. /\ r.primary = primary
        /\ r.secondary = DecodeSecondaryHeader(Slice(data, PrimaryHeaderLen, Len(data)))
        /\ r.secondary.packetType = data[15]
        /\ Len(r.payload) = total - 20
    BY ONLY <2>0, <2>1, BodyChecked
  <2>3. r.err = "none"
    BY ONLY <1>8, <2>0, <2>1, BodyChecked
  <2> QED BY ONLY <2>2, <2>3
<1>10. r.secondary.timestamp = timestamp
  <2> HIDE DEF r
  <2>1. /\ r.secondary.timestamp \in Seq(Byte) /\ Len(r.secondary.timestamp) = 8
        /\ \A i \in 1..8 : r.secondary.timestamp[i] = data[6 + i]
    BY ONLY <1>2, <1>9, <1>0, SecondaryIs
  <2>2. timestamp \in Seq(Byte) /\ Len(timestamp) = 8
    BY ONLY timestamp \in [1..8 -> Byte], 8 \in Nat, TupleOfBytes
  <2>3. \A i \in 1..8 : r.secondary.timestamp[i] = timestamp[i]
    BY ONLY <1>7, <2>1
  <2> QED BY ONLY <2>1, <2>2, <2>3, SeqEqual
<1>11. r.primary.sequenceCount = seqCount % 2^14 /\ r.primary.secondaryHeader /\ r.secondary.packetType = 1
  <2> HIDE DEF r, primary
  <2> QED BY ONLY <1>4, <1>7, <1>9, Zenon
<1> HIDE DEF r
<1>12. Len(SamplesOf(r)) = n /\ \A i \in 1..n : SamplesOf(r)[i].sequence = r.primary.sequenceCount * n + i - 1
  <2>1. Len(r.payload) \div SampleSize = n
    <3>1. total - 20 = 13 * n /\ (13 * n) \div 13 = n
      BY ONLY <1>1, SMT DEF total
    <3> QED BY ONLY <1>9, <3>1, Lengths, Zenon
  <2>2. SamplesOf(r) = DecodeThrusterSamplesFloat(r.payload, r.secondary.timestamp, r.primary.sequenceCount * n, n)
    BY ONLY <1>9, <1>11, <2>1, Zenon DEF SamplesOf, IsThrusterPacket, DecodeThrusterPayload
  <2> DEFINE start == r.primary.sequenceCount * n
             f == DecodeThrusterSamplesFloat(r.payload, r.secondary.timestamp, start, n)
  <2> HIDE DEF start
  <2>3. n \in Nat
    BY ONLY <1>1
  <2>4. ~(SampleSize * n > DecoderBuffer)
    BY ONLY <1>1, SMT DEF SampleSize, DecoderBuffer
  <2>5. Len(f) = n
    BY ONLY <2>3, <2>4 DEF DecodeThrusterSamplesFloat
  <2>6. \A i \in 1..n : f[i].sequence = start + i - 1
    BY ONLY <2>3, <2>4 DEF DecodeThrusterSamplesFloat
  <2> HIDE DEF f
  <2>7. SamplesOf(r) = f
    BY ONLY <2>2 DEF f, start
  <2> QED BY ONLY <2>5, <2>6, <2>7 DEF start
<1> QED BY ONLY <1>9, <1>10, <1>11, <1>12, Zenon DEF AsSent, r

(* A buffer with one byte changed on the way.                                 *)
Changed(data, packet, at, b) ==
  at \in 1..Len(packet) /\ b \in Byte /\ b # packet[at] /\ data = [packet EXCEPT ![at] = b]

\* A packed packet with one byte changed no longer says its own sum.
LEMMA ChecksumBreaks ==
  ASSUME NEW packet, NEW seqCount, NEW timestamp, NEW n, Packed(packet, seqCount, timestamp, n),
         NEW data, NEW at, NEW b, Changed(data, packet, at, b)
  PROVE  CalculateChecksum(Summed(data, Len(packet))) # 256 * data[19] + data[20]
<1>0. at \in 1..Len(packet) /\ b \in Byte /\ b # packet[at] /\ data = [packet EXCEPT ![at] = b]
  BY DEF Changed
<1> DEFINE total == Len(packet)   old == Summed(packet, total)   new == Summed(data, total)
<1>1. /\ packet \in Seq(Byte) /\ n \in 1..18 /\ total = 20 + 13 * n
      /\ CalculateChecksum(old) = 256 * packet[19] + packet[20]
      /\ packet[1] = 8 /\ packet[2] = 66
  BY ONLY Packed(packet, seqCount, timestamp, n), Zenon DEF Packed, HeaderBytes
<1>2. total \in 20..total /\ total \in Nat
  BY ONLY <1>1
<1>3. /\ data \in Seq(Byte) /\ Len(data) = total /\ data[at] = b
      /\ \A i \in 1..total : i # at => data[i] = packet[i]
  BY ONLY <1>1, <1>0, ExceptSeq
<1>4. packet[19] \in Byte /\ packet[20] \in Byte /\ packet[at] \in Byte /\ 19 \in 1..total /\ 20 \in 1..total
      /\ 1 \in 1..total /\ 2 \in 1..total
  <2>1. 19 \in 1..total /\ 20 \in 1..total /\ 1 \in 1..total /\ 2 \in 1..total
    BY ONLY <1>1
  <2> QED BY ONLY <1>1, <2>1, <1>0, ElementOfSeq
<1>5. /\ old \in Seq(Byte) /\ Len(old) = total - 2 /\ new \in Seq(Byte) /\ Len(new) = total - 2
      /\ \A i \in 1..(total - 2) : /\ old[i] = IF i <= 18 THEN packet[i] ELSE packet[i + 2]
                                   /\ new[i] = IF i <= 18 THEN data[i] ELSE data[i + 2]
  <2>1. old \in Seq(Byte) /\ Len(old) = total - 2
    BY ONLY <1>1, <1>2, SummedIs
  <2>2. new \in Seq(Byte) /\ Len(new) = total - 2
    <3>1. total \in 20..Len(data)
      BY ONLY <1>2, <1>3
    <3> QED BY ONLY <1>3, <3>1, SummedIs
  <2>3. \A i \in 1..(total - 2) : /\ old[i] = IF i <= 18 THEN packet[i] ELSE packet[i + 2]
                                  /\ new[i] = IF i <= 18 THEN data[i] ELSE data[i + 2]
    BY ONLY DEF Summed
  <2> QED BY ONLY <2>1, <2>2, <2>3
<1> HIDE DEF total, old, new
<1>6. CASE at \in {19, 20}
  <2>1. \A i \in 1..(total - 2) : new[i] = old[i]
    <3> SUFFICES ASSUME NEW i \in 1..(total - 2) PROVE new[i] = old[i]
      OBVIOUS
    <3>1. CASE i <= 18
      <4>1. i \in 1..total /\ i # at
        BY ONLY <1>2, <1>6, <3>1, i \in 1..(total - 2)
      <4> QED BY ONLY <1>3, <1>5, <3>1, <4>1, i \in 1..(total - 2)
    <3>2. CASE ~(i <= 18)
      <4>1. i + 2 \in 1..total /\ i + 2 # at
        BY ONLY <1>2, <1>6, <3>2, i \in 1..(total - 2)
      <4> QED BY ONLY <1>3, <1>5, <3>2, <4>1, i \in 1..(total - 2)
    <3> QED BY ONLY <3>1, <3>2
  <2>2. new = old
    BY ONLY <1>5, <2>1, SeqEqual
  <2>3. 256 * packet[19] + packet[20] # 256 * data[19] + data[20]
    <3> DEFINE x == packet[19]   y == packet[20]   v == data[19]   w == data[20]
    <3>1. x \in Nat /\ y \in Nat /\ x <= 255 /\ y <= 255 /\ b \in Nat /\ b <= 255
      BY ONLY <1>4, <1>0, ByteIsNat
    <3>2. (v = b /\ w = y /\ b # x) \/ (v = x /\ w = b /\ b # y)
      <4>1. CASE at = 19
        <5>1. 20 # at /\ 20 \in 1..total
          BY ONLY <1>4, <4>1
        <5> QED BY ONLY <1>3, <4>1, <5>1, <1>0
      <4>2. CASE at = 20
        <5>1. 19 # at /\ 19 \in 1..total
          BY ONLY <1>4, <4>2
        <5> QED BY ONLY <1>3, <4>2, <5>1, <1>0
      <4> QED BY ONLY <1>6, <4>1, <4>2
    <3> HIDE DEF x, y, v, w
    <3>3. 256 * x + y # 256 * v + w
      BY ONLY <3>1, <3>2, SMT
    <3> QED BY ONLY <3>3 DEF x, y, v, w
  <2> QED BY ONLY <1>1, <2>2, <2>3, Zenon DEF new, old, total
<1>7. CASE at \notin {19, 20}
  <2> DEFINE j == IF at <= 18 THEN at ELSE at - 2   changed == [old EXCEPT ![j] = b]
  <2>0. at \in 1..total
    BY <1>0 DEF total
  <2>1. j \in 1..(total - 2) /\ j \in 1..Len(old) /\ (at <= 18 => j = at) /\ (~(at <= 18) => j = at - 2)
    BY ONLY <1>1, <1>2, <1>5, <1>7, <2>0
  <2>2. old[j] = packet[at]
    <3>1. CASE at <= 18
      BY ONLY <1>5, <2>1, <3>1
    <3>2. CASE ~(at <= 18)
      <4>1. j = at - 2 /\ ~(j <= 18) /\ j + 2 = at
        BY ONLY <1>7, <2>0, <2>1, <3>2, <1>2
      <4> HIDE DEF j
      <4> QED BY ONLY <1>5, <2>1, <4>1
    <3> QED BY ONLY <3>1, <3>2
  <2> HIDE DEF j
  <2>3. changed \in Seq(Byte) /\ Len(changed) = total - 2
        /\ \A i \in 1..(total - 2) : changed[i] = IF i = j THEN b ELSE old[i]
    BY ONLY <1>5, <2>1, <1>0, ExceptSeq
  <2>4. \A i \in 1..(total - 2) : new[i] = changed[i]
    <3> HIDE DEF changed
    <3> SUFFICES ASSUME NEW i \in 1..(total - 2) PROVE new[i] = changed[i]
      OBVIOUS
    <3>1. CASE i <= 18
      <4>1. i \in 1..total /\ (i = j <=> i = at)
        BY ONLY <1>2, <1>7, <2>0, <2>1, <3>1, i \in 1..(total - 2)
      <4>2. new[i] = data[i] /\ old[i] = packet[i]
        BY ONLY <1>5, <3>1, i \in 1..(total - 2)
      <4> QED BY ONLY <1>3, <2>3, <4>1, <4>2, i \in 1..(total - 2)
    <3>2. CASE ~(i <= 18)
      <4>1. i + 2 \in 1..total /\ (i = j <=> i + 2 = at)
        BY ONLY <1>2, <1>7, <2>0, <2>1, <3>2, i \in 1..(total - 2)
      <4>2. new[i] = data[i + 2] /\ old[i] = packet[i + 2]
        BY ONLY <1>5, <3>2, i \in 1..(total - 2)
      <4> QED BY ONLY <1>3, <2>3, <4>1, <4>2, i \in 1..(total - 2)
    <3> QED BY ONLY <3>1, <3>2
  <2>5. new = changed
    <3> HIDE DEF changed
    <3> QED BY ONLY <1>5, <2>3, <2>4, SeqEqual
  <2> DEFINE s == WordSum(old)   t == WordSum(new)
  <2>6. s \in Nat /\ t \in Nat /\ s # t /\ Close(s, t)
    <3>1. LET u == WordSum(old)   v == WordSum([old EXCEPT ![j] = b])
          IN  u \in Nat /\ v \in Nat /\ u # v /\ Close(u, v)
      BY ONLY <1>5, <2>1, <2>2, <1>0, ChangedSum
    <3> QED BY ONLY <2>5, <3>1
  <2>7. s > 0 /\ t > 0
    <3>1. old \in Seq(Nat) /\ new \in Seq(Nat)
      <4>1. Byte \subseteq Nat
        BY DEF Byte
      <4> QED BY ONLY <1>5, <4>1, SeqMonotonic
    <3>2. /\ 1 \in 1..Len(old) /\ 1 \in 1..Len(new) /\ 2 \in 1..Len(new)
          /\ 1 \in 1..(total - 2) /\ 2 \in 1..(total - 2) /\ 1 <= 18 /\ 2 <= 18
      BY ONLY <1>1, <1>2, <1>5
    <3>3. old[1] = 8 /\ new[1] = data[1] /\ new[2] = data[2]
      BY ONLY <1>1, <1>5, <3>2
    <3>4. data[1] = 8 \/ data[2] = 66
      <4>1. 1 # at \/ 2 # at
        OBVIOUS
      <4> QED BY ONLY <1>1, <1>3, <1>4, <4>1
    <3>5. old[1] > 0 /\ (new[1] > 0 \/ new[2] > 0)
      BY ONLY <3>3, <3>4
    <3> QED BY ONLY <3>1, <3>2, <3>5, WordSumPositive
  <2> HIDE DEF s, t
  <2>8. FoldCarries[s] # FoldCarries[t]
    BY ONLY <2>6, <2>7, CloseSumsDiffer
  <2>9. FoldCarries[s] \in 0..Ones /\ FoldCarries[t] \in 0..Ones /\ Ones \in Nat
    <3>1. Ones \in Nat
      BY ONLY SMT DEF Ones
    <3> QED BY ONLY <2>6, <3>1, FoldedType
  <2>10. Ones - FoldCarries[s] # Ones - FoldCarries[t]
    BY ONLY <2>8, <2>9
  <2>11. CalculateChecksum(old) # CalculateChecksum(new)
    BY ONLY <2>10, ChecksumIs, Zenon DEF s, t
  <2>12. data[19] = packet[19] /\ data[20] = packet[20]
    BY ONLY <1>3, <1>4, <1>7
  <2> QED BY ONLY <1>1, <2>11, <2>12, Zenon DEF new, old, total
<1> QED BY ONLY <1>6, <1>7

-------------------------------------------------------------------------------
\* A packet with one byte changed: the length field tells how long it is only if
\* its own bytes are what they were.
LEMMA LengthKept ==
  ASSUME NEW packet, NEW seqCount, NEW timestamp, NEW n, Packed(packet, seqCount, timestamp, n),
         NEW data, NEW at, NEW b, Changed(data, packet, at, b)
  PROVE  /\ data \in Seq(Byte) /\ Len(data) = 20 + 13 * n /\ n \in 1..18 /\ data[at] = b
         /\ \A i \in 1..Len(packet) : i # at => data[i] = packet[i]
         /\ at \notin {5, 6} => TotalLen(data) = 20 + 13 * n
         /\ TotalLen(data) < 20 => at = 6 /\ data[6] < 13
<1>0. at \in 1..Len(packet) /\ b \in Byte /\ data = [packet EXCEPT ![at] = b]
  BY DEF Changed
<1>1. /\ packet \in Seq(Byte) /\ n \in 1..18 /\ Len(packet) = 20 + 13 * n
      /\ packet[5] = 0 /\ packet[6] = 13 + 13 * n
  BY ONLY Packed(packet, seqCount, timestamp, n), Zenon DEF Packed, HeaderBytes
<1>2. /\ data \in Seq(Byte) /\ Len(data) = Len(packet) /\ data[at] = b
      /\ \A i \in 1..Len(packet) : i # at => data[i] = packet[i]
  BY ONLY <1>1, <1>0, ExceptSeq
<1>3. 5 \in 1..Len(packet) /\ 6 \in 1..Len(packet)
  BY ONLY <1>1
<1>4. CASE at \notin {5, 6}
  <2>1. data[5] = 0 /\ data[6] = 13 + 13 * n
    BY ONLY <1>1, <1>2, <1>3, <1>4
  <2>2. TotalLen(data) = 7 + 256 * 0 + (13 + 13 * n)
    BY ONLY <2>1, Zenon DEF TotalLen
  <2>3. TotalLen(data) = 20 + 13 * n /\ ~(TotalLen(data) < 20)
    BY ONLY <1>1, <2>2, SMT
  <2> QED BY ONLY <1>1, <1>2, <2>3
<1>5. CASE at = 5
  <2>1. data[5] = b /\ data[6] = 13 + 13 * n /\ b \in Nat
    BY ONLY <1>1, <1>2, <1>3, <1>5, <1>0, ByteIsNat
  <2>2. ~(7 + 256 * b + (13 + 13 * n) < 20)
    BY ONLY <1>1, <2>1, SMT
  <2>3. ~(TotalLen(data) < 20)
    BY ONLY <2>1, <2>2, Zenon DEF TotalLen
  <2> QED BY ONLY <1>1, <1>2, <1>5, <2>3
<1>6. CASE at = 6
  <2>1. data[5] = 0 /\ data[6] = b /\ b \in Nat
    BY ONLY <1>1, <1>2, <1>3, <1>6, <1>0, ByteIsNat
  <2>2. TotalLen(data) = 7 + 256 * 0 + b
    BY ONLY <2>1, Zenon DEF TotalLen
  <2>3. TotalLen(data) < 20 => b < 13
    BY ONLY <2>1, <2>2, SMT
  <2> QED BY ONLY <1>1, <1>2, <1>6, <2>1, <2>3
<1> QED BY ONLY <1>4, <1>5, <1>6

\* Of a packet with one byte changed, outside the length field, no sample gets
\* through, unless it has become a telecommand.
THEOREM ByteCaught ==
  ASSUME NEW packet, NEW seqCount, NEW timestamp, NEW n, Packed(packet, seqCount, timestamp, n),
         NEW data, NEW at, NEW b, Changed(data, packet, at, b), NEW r, r = Decode(data)
  PROVE  SamplesOf(r) = <<>> \/ at \in {5, 6} \/ (at = 1 /\ r.primary.type = 1)
<1> SUFFICES ASSUME SamplesOf(r) # <<>>, at \notin {5, 6}, ~(at = 1 /\ r.primary.type = 1)
             PROVE  FALSE
  OBVIOUS
<1> DEFINE total == 20 + 13 * n   primary == DecodePrimaryHeader(data)
<1>1. /\ data \in Seq(Byte) /\ Len(data) = total /\ n \in 1..18 /\ TotalLen(data) = total
      /\ \A i \in 1..Len(packet) : i # at => data[i] = packet[i]
  BY ONLY LengthKept, Packed(packet, seqCount, timestamp, n), Changed(data, packet, at, b), at \notin {5, 6}
<1>2. packet[1] = 8 /\ Len(packet) = total
  BY ONLY Packed(packet, seqCount, timestamp, n), Zenon DEF Packed, HeaderBytes
<1>3. Len(data) >= 6 /\ total \in 20..Len(data) /\ 1 \in 1..Len(packet)
  BY ONLY <1>1, <1>2
<1> HIDE DEF total
<1>4. r = DecodeBody(data, primary, total) /\ r.err = "none"
  <2>1. SamplesOf(Decode(data)) # <<>> =>
          /\ Decode(data) = DecodeBody(data, primary, TotalLen(data)) /\ Decode(data).err = "none"
    BY ONLY <1>1, <1>3, Outcomes
  <2> QED BY ONLY <1>1, <2>1, r = Decode(data), SamplesOf(r) # <<>>, Zenon
<1>5. primary.type = (data[1] \div 16) % 2 /\ \A i \in 1..6 : data[i] \in Byte
  <2> HIDE DEF primary
  <2> QED BY ONLY <1>1, <1>3, PrimaryIs DEF primary
<1>6. r.primary = primary
  BY ONLY <1>4, Zenon DEF DecodeBody
<1> HIDE DEF primary
<1>7. primary.type = 0
  <2>1. CASE at = 1
    <3> DEFINE x == data[1]
    <3>1. x \in Nat
      <4>1. 1 \in 1..6
        OBVIOUS
      <4> QED BY ONLY <1>5, <4>1, ByteIsNat
    <3>2. primary.type = (x \div 16) % 2
      BY ONLY <1>5
    <3> HIDE DEF x
    <3>3. (x \div 16) % 2 \in {0, 1}
      BY ONLY <3>1, SMT
    <3> QED BY ONLY <1>6, <2>1, <3>2, <3>3, ~(at = 1 /\ r.primary.type = 1)
  <2>2. CASE at # 1
    <3>1. data[1] = 8
      BY ONLY <1>1, <1>2, <1>3, <2>2
    <3>2. primary.type = (8 \div 16) % 2
      BY ONLY <1>5, <3>1, Zenon
    <3> QED BY ONLY <3>2, SMT
  <2> QED BY ONLY <2>1, <2>2
<1>8. /\ r.secondary.packetType = data[15]
      /\ data[15] # 0 /\ r.err = "none"
              => CalculateChecksum(Summed(data, total)) = 256 * data[19] + data[20]
  BY ONLY <1>1, <1>3, <1>4, <1>7, BodyChecked
<1>9. r.secondary.packetType = 1
  BY ONLY SamplesOf(r) # <<>>, Zenon DEF SamplesOf, IsThrusterPacket
<1>10. CalculateChecksum(Summed(data, total)) = 256 * data[19] + data[20]
  <2>1. 1 # 0
    OBVIOUS
  <2> QED BY ONLY <1>4, <1>8, <1>9, <2>1, Zenon
<1>11. CalculateChecksum(Summed(data, total)) # 256 * data[19] + data[20]
  BY ONLY <1>2, ChecksumBreaks, Packed(packet, seqCount, timestamp, n), Changed(data, packet, at, b), Zenon
<1> QED BY ONLY <1>10, <1>11, Zenon

\* Such a packet takes Decode down only by a length that ends in its headers.
LEMMA ByteCrash ==
  ASSUME NEW packet, NEW seqCount, NEW timestamp, NEW n, Packed(packet, seqCount, timestamp, n),
         NEW data, NEW at, NEW b, Changed(data, packet, at, b), NEW r, r = Decode(data), r.err = "panic"
  PROVE  at = 6 /\ r.buffer[6] < 13
<1>1. data \in Seq(Byte) /\ Len(data) = 20 + 13 * n /\ n \in 1..18
      /\ (TotalLen(data) < 20 => at = 6 /\ data[6] < 13)
  BY ONLY LengthKept, Packed(packet, seqCount, timestamp, n), Changed(data, packet, at, b)
<1>2. Len(data) >= 6
  BY ONLY <1>1
<1>3. Decode(data).err = "panic" => TotalLen(data) < 20 /\ Decode(data).buffer = data
  BY ONLY <1>1, <1>2, Outcomes
<1>4. TotalLen(data) < 20 /\ r.buffer = data
  BY ONLY <1>3, r = Decode(data), r.err = "panic", Zenon
<1> QED BY ONLY <1>1, <1>4, Zenon

\* A packet cut off does not take Decode down.
LEMMA CutRejected ==
  ASSUME NEW packet, NEW seqCount, NEW timestamp, NEW n, Packed(packet, seqCount, timestamp, n),
         NEW k \in Nat, k < Len(packet)
  PROVE  Decode(Slice(packet, 0, k)).err # "panic"
<1> DEFINE data == Slice(packet, 0, k)
<1>1. packet \in Seq(Byte) /\ n \in 1..18 /\ Len(packet) = 20 + 13 * n
  BY ONLY Packed(packet, seqCount, timestamp, n), Zenon DEF Packed
<1>2. data \in Seq(Byte) /\ Len(data) = k /\ \A i \in 1..k : data[i] = packet[i]
  <2>1. 0 \in Nat /\ 0 <= k /\ k <= Len(packet) /\ k - 0 = k /\ \A i \in 1..k : 0 + i = i
    BY ONLY <1>1, k \in Nat, k < Len(packet)
  <2>2. data \in Seq(Byte) /\ Len(data) = k - 0 /\ \A i \in 1..(k - 0) : data[i] = packet[0 + i]
    BY ONLY <1>1, <2>1, k \in Nat, SliceIs
  <2> HIDE DEF data
  <2> QED BY ONLY <2>1, <2>2
<1> HIDE DEF data
<1>3. CASE k < 6
  <2>1. Decode(data).err = "short"
    BY ONLY <1>2, <1>3, Lengths DEF Decode, Failed
  <2> QED BY ONLY <2>1 DEF data
<1>4. CASE k >= 6
  <2> DEFINE primary == DecodePrimaryHeader(data)
  <2>1. TotalLen(data) = 20 + 13 * n
    <3>1. Len(data) >= 6
      BY ONLY <1>2, <1>4
    <3>2. \A i \in 1..6 : data[i] = packet[i]
      <4>1. \A i \in 1..6 : i \in 1..k
        BY ONLY <1>4, k \in Nat
      <4> QED BY ONLY <1>2, <4>1
    <3> QED BY ONLY <1>2, <3>1, <3>2, Packed(packet, seqCount, timestamp, n), PackedHeader
  <2>2. ~(TotalLen(data) < 20)
    BY ONLY <1>1, <2>1
  <2>3. Decode(data).err = "panic" => TotalLen(data) < 20
    <3>1. Len(data) >= 6
      BY ONLY <1>2, <1>4
    <3> QED BY ONLY <1>2, <3>1, Outcomes
  <2> QED BY ONLY <2>2, <2>3 DEF data
<1> QED BY ONLY <1>3, <1>4, k \in Nat
===============================================================================
