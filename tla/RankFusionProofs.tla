-------------------------- MODULE RankFusionProofs --------------------------
(***************************************************************************)
(* Proofs about RankFusion, for any chunks and rankings: what one ranker   *)
(* answers, and what rankings are fused to, is WellFused.                  *)
(***************************************************************************)
EXTENDS RankFusion, FiniteSetTheorems, SequenceTheorems, TLAPS
LOCAL Facts == INSTANCE SequenceFacts

(* Whatever holds of the empty set and of a finite set when it holds of    *)
(* the sets with one element less, holds of all finite sets: by the        *)
(* cardinalities of those of which it holds.                               *)
LEMMA ByCardinality ==
  ASSUME NEW N, N \subseteq Nat, 0 \in N, \A n \in N : n + 1 \in N
  PROVE  N = Nat
<1> DEFINE T == Nat \ N
<1> SUFFICES ASSUME T # {} PROVE FALSE
  OBVIOUS
<1>1. PICK n \in T : \A j \in T : n <= j
  BY Facts!Least
<1>2. n # 0 /\ n - 1 \in Nat /\ n - 1 \notin T
  BY <1>1
<1> QED
  BY <1>1, <1>2

LEMMA Removed ==
  ASSUME NEW S, IsFiniteSet(S), NEW x \in S
  PROVE  /\ IsFiniteSet(S \ {x}) /\ Cardinality(S) \in Nat \ {0}
         /\ Cardinality(S \ {x}) = Cardinality(S) - 1
<1>1. IsFiniteSet(S \ {x}) /\ Cardinality(S \ {x}) = Cardinality(S) - 1
  BY FS_RemoveElement
<1>2. Cardinality(S) \in Nat /\ Cardinality(S \ {x}) \in Nat
  BY <1>1, FS_CardinalityType
<1> QED
  BY <1>1, <1>2

-----------------------------------------------------------------------------
(* Sums and products over the subsets of a set.                            *)
Unit(op) == IF op = "sum" THEN 0 ELSE 1
Combine(op, a, b) == IF op = "sum" THEN a + b ELSE a * b

FoldStep(op, w, f, s) ==
  IF s = {} THEN Unit(op) ELSE LET x == CHOOSE x \in s : TRUE IN Combine(op, w[x], f[s \ {x}])

IsFold(op, f, w, S) == f = [s \in SUBSET S |-> FoldStep(op, w, f, s)]

LEMMA FoldExists ==
  ASSUME NEW S, IsFiniteSet(S), NEW op, NEW w
  PROVE  \E f : IsFold(op, f, w, S)
<1> DEFINE Step(f, s) == FoldStep(op, w, f, s)
           D(n) == {s \in SUBSET S : Cardinality(s) <= n}
           N == {n \in Nat : \E f : f = [s \in D(n) |-> Step(f, s)]}
<1>1. \A s \in SUBSET S : IsFiniteSet(s) /\ Cardinality(s) \in Nat /\ Cardinality(s) <= Cardinality(S)
  BY FS_Subset, FS_CardinalityType
<1>2. 0 \in N
  <2>1. \A s \in D(0) : s = {}
    BY <1>1, FS_EmptySet
  <2>2. \A f : \A s \in D(0) : Step(f, s) = Unit(op)
    BY <2>1 DEF FoldStep
  <2> HIDE DEF D, Step
  <2>3. [s \in D(0) |-> Unit(op)] = [s \in D(0) |-> Step([x \in D(0) |-> Unit(op)], s)]
    BY <2>2
  <2> QED
    BY <2>3
<1>3. ASSUME NEW n \in N PROVE n + 1 \in N
  <2>1. n \in Nat
    OBVIOUS
  <2>2. PICK f : f = [s \in D(n) |-> Step(f, s)]
    OBVIOUS
  <2> DEFINE g == [s \in D(n + 1) |-> Step(f, s)]
  <2>3. D(n) \subseteq D(n + 1)
    BY <1>1, <2>1
  <2>4. \A s \in D(n) : g[s] = f[s]
    <3> HIDE DEF Step, D
    <3> QED
      BY <2>2, <2>3
  <2>5. ASSUME NEW s \in D(n + 1) PROVE Step(g, s) = Step(f, s)
    <3>1. CASE s = {}
      BY <3>1 DEF FoldStep
    <3>2. CASE s # {}
      <4> DEFINE x == CHOOSE x \in s : TRUE
      <4>1. x \in s
        BY <3>2
      <4> HIDE DEF x
      <4>2. Cardinality(s \ {x}) = Cardinality(s) - 1 /\ s \ {x} \in SUBSET S
        BY <1>1, <4>1, Removed
      <4>3. s \ {x} \in D(n)
        BY <1>1, <2>1, <4>2
      <4>4. g[s \ {x}] = f[s \ {x}]
        BY <2>4, <4>3
      <4> HIDE DEF g
      <4> QED
        BY <3>2, <4>4 DEF FoldStep, x
    <3> QED
      BY <3>1, <3>2
  <2>6. g = [s \in D(n + 1) |-> Step(g, s)]
    <3> HIDE DEF Step, D
    <3>1. \A s \in D(n + 1) : Step(f, s) = Step(g, s)
      BY <2>5
    <3> QED
      BY <3>1
  <2> HIDE DEF Step, D, g
  <2> QED
    BY <2>1, <2>6
<1>4. Cardinality(S) \in N
  <2>1. N \subseteq Nat
    OBVIOUS
  <2> HIDE DEF N
  <2>2. N = Nat
    BY <1>2, <1>3, <2>1, ByCardinality
  <2> QED
    BY <2>2, FS_CardinalityType
<1>5. D(Cardinality(S)) = SUBSET S
  BY <1>1
<1> HIDE DEF D, Step
<1>6. \E f : f = [s \in SUBSET S |-> Step(f, s)]
  BY <1>4, <1>5
<1> QED
  BY <1>6 DEF IsFold, Step

-----------------------------------------------------------------------------
LEMMA FoldIs ==
  ASSUME NEW op, NEW S, NEW w, NEW f, IsFold(op, f, w, S)
  PROVE  /\ f[{}] = Unit(op)
         /\ \A s \in SUBSET S : s # {} => \E x \in s : f[s] = Combine(op, w[x], f[s \ {x}])
<1>1. \A s \in SUBSET S : f[s] = FoldStep(op, w, f, s)
  BY DEF IsFold
<1>2. ASSUME NEW s \in SUBSET S, s # {} PROVE \E x \in s : f[s] = Combine(op, w[x], f[s \ {x}])
  <2> DEFINE x == CHOOSE x \in s : TRUE
  <2>1. x \in s
    BY <1>2
  <2>2. f[s] = Combine(op, w[x], f[s \ {x}])
    BY <1>1, <1>2 DEF FoldStep
  <2> HIDE DEF x
  <2> QED
    BY <2>1, <2>2
<1> QED
  BY <1>1, <1>2 DEF FoldStep

(* A fold stays among numbers that are closed under it.                    *)
LEMMA FoldTyped ==
  ASSUME NEW op, NEW S, IsFiniteSet(S), NEW V, NEW w \in [S -> V], NEW f, IsFold(op, f, w, S),
         Unit(op) \in V, \A a, b \in V : Combine(op, a, b) \in V
  PROVE  \A s \in SUBSET S : f[s] \in V
<1> DEFINE N == {n \in Nat : \A s \in SUBSET S : Cardinality(s) = n => f[s] \in V}
<1>1. \A s \in SUBSET S : IsFiniteSet(s) /\ Cardinality(s) \in Nat /\ (Cardinality(s) = 0 => s = {})
  BY FS_Subset, FS_CardinalityType, FS_EmptySet
<1>2. 0 \in N
  BY <1>1, FoldIs
<1>3. ASSUME NEW n \in N PROVE n + 1 \in N
  <2>1. ASSUME NEW s \in SUBSET S, Cardinality(s) = n + 1 PROVE f[s] \in V
    <3>1. s # {}
      <4>1. n \in Nat /\ Cardinality({}) = 0
        BY FS_EmptySet
      <4> QED
        BY <2>1, <4>1
    <3>2. PICK x \in s : f[s] = Combine(op, w[x], f[s \ {x}])
      BY <3>1, FoldIs
    <3>3. Cardinality(s \ {x}) = n /\ s \ {x} \in SUBSET S
      BY <1>1, <2>1, Removed
    <3>4. f[s \ {x}] \in V /\ w[x] \in V
      BY <3>3
    <3> QED
      BY <3>2, <3>4
  <2> QED
    BY <2>1
<1>4. N = Nat
  <2>1. N \subseteq Nat
    OBVIOUS
  <2> HIDE DEF N
  <2> QED
    BY <1>2, <1>3, <2>1, ByCardinality
<1> QED
  BY <1>1, <1>4

LEMMA CombineSwaps ==
  ASSUME NEW op, NEW a \in Nat, NEW b \in Nat, NEW c \in Nat
  PROVE  /\ Combine(op, a, b) \in Nat
         /\ Combine(op, a, Combine(op, b, c)) = Combine(op, b, Combine(op, a, c))
<1>1. a + b \in Nat /\ a * b \in Nat
  OBVIOUS
<1>2. a + (b + c) = b + (a + c) /\ a * (b * c) = b * (a * c)
  OBVIOUS
<1> QED
  BY <1>1, <1>2 DEF Combine

(* Whichever element is taken out, what is left is folded on.              *)
NatFold(op, f, w, S) == IsFiniteSet(S) /\ w \in [S -> Nat] /\ IsFold(op, f, w, S)

LEMMA FoldOut ==
  ASSUME NEW op, NEW S, NEW w, NEW f, NatFold(op, f, w, S)
  PROVE  \A s \in SUBSET S : f[s] \in Nat /\ \A x \in s : f[s] = Combine(op, w[x], f[s \ {x}])
<1> USE DEF NatFold
<1> DEFINE Out(s) == \A x \in s : f[s] = Combine(op, w[x], f[s \ {x}])
           N == {n \in Nat : \A s \in SUBSET S : Cardinality(s) = n => Out(s)}
<1>0. \A s \in SUBSET S : f[s] \in Nat
  <2>1. Unit(op) \in Nat
    BY DEF Unit
  <2> QED
    BY <2>1, FoldTyped, CombineSwaps
<1>1. \A s \in SUBSET S : IsFiniteSet(s) /\ Cardinality(s) \in Nat /\ (Cardinality(s) = 0 => s = {})
  BY FS_Subset, FS_CardinalityType, FS_EmptySet
<1>2. 0 \in N
  BY <1>1
<1>3. ASSUME NEW n \in N PROVE n + 1 \in N
  <2>1. ASSUME NEW s \in SUBSET S, Cardinality(s) = n + 1, NEW x \in s
        PROVE  f[s] = Combine(op, w[x], f[s \ {x}])
    <3>1. \A z \in s : s \ {z} \in SUBSET S /\ Out(s \ {z})
      <4>1. \A z \in s : Cardinality(s \ {z}) = n
        BY <1>1, <2>1, Removed
      <4> QED
        BY <4>1
    <3>2. PICK y \in s : f[s] = Combine(op, w[y], f[s \ {y}])
      BY FoldIs
    <3>3. CASE x = y
      BY <3>2, <3>3
    <3>4. CASE x # y
      <4> DEFINE rest == (s \ {x}) \ {y}
      <4>1. x \in s \ {y} /\ y \in s \ {x} /\ (s \ {y}) \ {x} = rest /\ rest \in SUBSET S
        BY <3>4
      <4>2. f[s \ {y}] = Combine(op, w[x], f[(s \ {y}) \ {x}])
        BY <3>1, <4>1
      <4>3. f[s \ {x}] = Combine(op, w[y], f[rest])
        BY <3>1, <4>1
      <4>4. w[x] \in Nat /\ w[y] \in Nat /\ f[rest] \in Nat
        BY <1>0, <4>1
      <4> HIDE DEF rest
      <4>5. f[s] = Combine(op, w[y], Combine(op, w[x], f[rest]))
        BY <3>2, <4>1, <4>2
      <4> QED
        BY <4>3, <4>4, <4>5, CombineSwaps
    <3> QED
      BY <3>3, <3>4
  <2>2. \A s \in SUBSET S : Cardinality(s) = n + 1 => Out(s)
    BY <2>1
  <2> QED
    BY <2>2
<1>4. N = Nat
  <2>1. N \subseteq Nat
    OBVIOUS
  <2> HIDE DEF N
  <2> QED
    BY <1>2, <1>3, <2>1, ByCardinality
<1> QED
  BY <1>0, <1>1, <1>4

-----------------------------------------------------------------------------
(* Scale is a multiple of each denominator, and a better position          *)
(* contributes more.                                                       *)
Denominators == {60 + i : i \in 1 .. Cardinality(Chunks)}

LEMMA DenominatorsAre == IsFiniteSet(Denominators) /\ Denominators \subseteq Nat \ {0}
<1> DEFINE n == Cardinality(Chunks)
<1>1. n \in Nat
  BY FS_CardinalityType, ChunksConstant
<1>2. Denominators \in SUBSET Nat /\ \A x \in Denominators : x <= 60 + n /\ x # 0
  BY <1>1 DEF Denominators
<1>3. 60 + n \in Nat
  BY <1>1
<1> QED
  BY <1>2, <1>3, FS_BoundedSetOfNaturals

LEMMA ScaleFolds ==
  \E f : IsFold("product", f, [x \in Denominators |-> x], Denominators) /\ Scale = f[Denominators]
<1> DEFINE S == Denominators
           w == [x \in S |-> x]
           Iterates(f) == f = [s \in SUBSET S |-> IF s = {} THEN 1 ELSE LET x == CHOOSE x \in s : TRUE IN x * f[s \ {x}]]
<1>1. ASSUME NEW f PROVE Iterates(f) <=> IsFold("product", f, w, S)
  <2>1. \A s \in SUBSET S : FoldStep("product", w, f, s)
                            = IF s = {} THEN 1 ELSE LET x == CHOOSE x \in s : TRUE IN x * f[s \ {x}]
    <3>1. ASSUME NEW s \in SUBSET S, s # {}
          PROVE  FoldStep("product", w, f, s) = LET x == CHOOSE x \in s : TRUE IN x * f[s \ {x}]
      <4> DEFINE x == CHOOSE x \in s : TRUE
      <4>1. x \in s
        BY <3>1
      <4>2. w[x] = x
        BY <4>1
      <4> HIDE DEF w
      <4>3. FoldStep("product", w, f, s) = w[x] * f[s \ {x}]
        BY <3>1 DEF FoldStep, Combine
      <4> QED
        BY <4>2, <4>3
    <3>2. FoldStep("product", w, f, {}) = 1
      BY DEF FoldStep, Unit
    <3> QED
      BY <3>1, <3>2
  <2> HIDE DEF w, S
  <2> QED
    BY <2>1, Zenon DEF IsFold
<1>2. Scale = (CHOOSE f : Iterates(f))[S]
  BY DEF Scale, ProductSet, FoldSet, MapThenFoldSet, Denominators
<1>3. PICK g : IsFold("product", g, w, S)
  BY FoldExists, DenominatorsAre
<1> DEFINE f == CHOOSE f : Iterates(f)
<1> HIDE DEF Iterates
<1>4. Iterates(f)
  BY <1>1, <1>3
<1> HIDE DEF f
<1>5. IsFold("product", f, w, S)
  BY <1>1, <1>4
<1> QED
  BY <1>2, <1>5 DEF f

LEMMA ScaleDivides ==
  /\ Scale \in Nat \ {0}
  /\ \A x \in Denominators : \E q \in Nat \ {0} : Scale = x * q
<1> DEFINE S == Denominators
           w == [x \in S |-> x]
           Positive == Nat \ {0}
<1>1. PICK f : IsFold("product", f, w, S) /\ Scale = f[S]
  BY ScaleFolds
<1>2. w \in [S -> Positive] /\ w \in [S -> Nat] /\ IsFiniteSet(S)
  BY DenominatorsAre
<1>3. Unit("product") \in Positive /\ \A a, b \in Positive : Combine("product", a, b) \in Positive
  BY DEF Unit, Combine
<1>4. \A s \in SUBSET S : f[s] \in Positive
  <2> HIDE DEF w, S, Positive
  <2> QED
    BY <1>1, <1>2, <1>3, FoldTyped
<1>5. \A s \in SUBSET S : \A x \in s : f[s] = Combine("product", w[x], f[s \ {x}])
  <2> DEFINE op == "product"
  <2>1. NatFold(op, f, w, S)
    BY <1>1, <1>2 DEF NatFold
  <2> HIDE DEF w, S, Positive, op
  <2>2. \A s \in SUBSET S : f[s] \in Nat /\ \A x \in s : f[s] = Combine(op, w[x], f[s \ {x}])
    BY <2>1, FoldOut
  <2> QED
    BY <2>2 DEF op
<1>6. ASSUME NEW x \in S PROVE Scale = x * f[S \ {x}]
  <2>1. f[S] = Combine("product", w[x], f[S \ {x}])
    BY <1>5, <1>6
  <2> QED
    BY <1>1, <2>1 DEF Combine
<1> QED
  BY <1>1, <1>4, <1>6

LEMMA ContributionFalls ==
  ASSUME NEW i \in 1 .. Cardinality(Chunks), NEW j \in 1 .. Cardinality(Chunks)
  PROVE  /\ Contribution(i) \in Nat \ {0}
         /\ i < j => Contribution(i) > Contribution(j)
<1>0. Cardinality(Chunks) \in Nat
  BY FS_CardinalityType, ChunksConstant
<1>1. ASSUME NEW m \in 1 .. Cardinality(Chunks)
      PROVE  Contribution(m) \in Nat \ {0} /\ Scale = (60 + m) * Contribution(m)
  <2>1. PICK q \in Nat \ {0} : Scale = (60 + m) * q
    BY ScaleDivides DEF Denominators
  <2>2. 60 + m \in Nat \ {0}
    BY <1>0
  <2>3. ((60 + m) * q) \div (60 + m) = q
    BY <2>2
  <2> QED
    BY <2>1, <2>3 DEF Contribution
<1>2. ASSUME i < j PROVE Contribution(i) > Contribution(j)
  <2> DEFINE a == Contribution(i)
             b == Contribution(j)
  <2>1. a \in Nat \ {0} /\ b \in Nat \ {0} /\ (60 + i) * a = (60 + j) * b
    BY <1>1
  <2> HIDE DEF a, b
  <2>2. i \in Nat /\ j \in Nat
    BY <1>0
  <2>3. SUFFICES ASSUME a <= b PROVE FALSE
    BY <2>1 DEF a, b
  <2>4. (60 + i) * a <= (60 + i) * b
    BY <2>1, <2>2, <2>3
  <2>5. (60 + i) * b < (60 + j) * b
    BY <2>1, <2>2, <1>2
  <2>6. (60 + i) * a \in Nat /\ (60 + i) * b \in Nat /\ (60 + j) * b \in Nat
    BY <2>1, <2>2
  <2> QED
    BY <2>1, <2>4, <2>5, <2>6
<1> QED
  BY <1>1, <1>2

-----------------------------------------------------------------------------
(* Finitely many rankings, in each of which a chunk has one position.      *)
AreRankings(lists) ==
  /\ IsFiniteSet(DOMAIN lists)
  /\ \A r \in DOMAIN lists : \E n \in 0 .. Cardinality(Chunks) : lists[r] \in RankingsOf(n)

LEMMA PositionIs ==
  ASSUME NEW n, NEW l \in RankingsOf(n)
  PROVE  /\ DOMAIN l = 1 .. n /\ Range(l) \subseteq Chunks
         /\ \A i \in 1 .. n : l[i] \in Range(l) /\ Position(l, l[i]) = i
         /\ \A c \in Range(l) : Position(l, c) \in 1 .. n /\ l[Position(l, c)] = c
<1>1. l \in [1 .. n -> Chunks] /\ \A i, j \in 1 .. n : l[i] = l[j] => i = j
  BY DEF RankingsOf, IsInjective
<1>2. ASSUME NEW c \in Range(l) PROVE Position(l, c) \in 1 .. n /\ l[Position(l, c)] = c
  <2>1. \E i \in DOMAIN l : l[i] = c
    BY DEF Range
  <2> QED
    BY <1>1, <2>1 DEF Position
<1>3. \A i \in 1 .. n : l[i] \in Range(l)
  BY <1>1 DEF Range
<1>4. \A i \in 1 .. n : Position(l, l[i]) = i
  BY <1>1, <1>2, <1>3
<1> QED
  BY <1>1, <1>2, <1>3, <1>4 DEF Range

Ranked(lists, c) == {r \in DOMAIN lists : c \in Range(lists[r])}
Worth(lists, c) == [r \in Ranked(lists, c) |-> Contribution(Position(lists[r], c))]

LEMMA WorthTyped ==
  ASSUME NEW lists, AreRankings(lists), NEW c
  PROVE  IsFiniteSet(Ranked(lists, c)) /\ Worth(lists, c) \in [Ranked(lists, c) -> Nat]
<1>1. Ranked(lists, c) \in SUBSET DOMAIN lists
  BY DEF Ranked
<1>2. IsFiniteSet(Ranked(lists, c))
  BY <1>1, FS_Subset DEF AreRankings
<1>3. ASSUME NEW r \in Ranked(lists, c) PROVE Contribution(Position(lists[r], c)) \in Nat
  <2>1. PICK n \in 0 .. Cardinality(Chunks) : lists[r] \in RankingsOf(n)
    BY <1>1 DEF AreRankings
  <2>2. Position(lists[r], c) \in 1 .. n
    BY <2>1, PositionIs DEF Ranked
  <2>3. Cardinality(Chunks) \in Nat
    BY FS_CardinalityType, ChunksConstant
  <2>4. Position(lists[r], c) \in 1 .. Cardinality(Chunks)
    BY <2>2, <2>3
  <2> QED
    BY <2>4, ContributionFalls
<1> QED
  BY <1>2, <1>3 DEF Worth

LEMMA ScoreFolds ==
  ASSUME NEW lists, AreRankings(lists), NEW c
  PROVE  \E f : IsFold("sum", f, Worth(lists, c), Ranked(lists, c)) /\ Score(lists, c) = f[Ranked(lists, c)]
<1> DEFINE S == Ranked(lists, c)
           w == Worth(lists, c)
           op == "sum"
           Iterates(f) == f = [s \in SUBSET S |->
                                 IF s = {} THEN 0
                                 ELSE LET r == CHOOSE r \in s : TRUE
                                      IN Contribution(Position(lists[r], c)) + f[s \ {r}]]
<1>1. ASSUME NEW f PROVE Iterates(f) <=> IsFold(op, f, w, S)
  <2>1. \A s \in SUBSET S : FoldStep(op, w, f, s)
                            = IF s = {} THEN 0
                              ELSE LET r == CHOOSE r \in s : TRUE
                                   IN Contribution(Position(lists[r], c)) + f[s \ {r}]
    <3>1. ASSUME NEW s \in SUBSET S, s # {}
          PROVE  FoldStep(op, w, f, s) = LET r == CHOOSE r \in s : TRUE
                                            IN Contribution(Position(lists[r], c)) + f[s \ {r}]
      <4> DEFINE r == CHOOSE r \in s : TRUE
      <4>1. r \in s
        BY <3>1
      <4>2. w[r] = Contribution(Position(lists[r], c))
        <5> HIDE DEF r
        <5> QED
          BY <4>1 DEF Worth
      <4> HIDE DEF w
      <4>3. FoldStep(op, w, f, s) = w[r] + f[s \ {r}]
        BY <3>1 DEF FoldStep, Combine
      <4> QED
        BY <4>2, <4>3
    <3>2. FoldStep(op, w, f, {}) = 0
      BY DEF FoldStep, Unit
    <3> QED
      BY <3>1, <3>2
  <2> HIDE DEF w, S, op
  <2> QED
    BY <2>1, Zenon DEF IsFold
<1>2. Score(lists, c) = (CHOOSE f : Iterates(f))[S]
  BY DEF Score, MapThenSumSet, MapThenFoldSet, Ranked
<1> HIDE DEF op
<1>3. PICK g : IsFold(op, g, w, S)
  <2> HIDE DEF w, S
  <2> QED
    BY FoldExists, WorthTyped DEF S
<1> DEFINE f == CHOOSE f : Iterates(f)
<1> HIDE DEF Iterates
<1>4. Iterates(f)
  BY <1>1, <1>3
<1> HIDE DEF f
<1>5. IsFold(op, f, w, S)
  BY <1>1, <1>4
<1> QED
  BY <1>2, <1>5 DEF f, op

LEMMA ScoreTyped == ASSUME NEW lists, AreRankings(lists), NEW c PROVE Score(lists, c) \in Nat
<1> DEFINE S == Ranked(lists, c)
           w == Worth(lists, c)
           op == "sum"
<1>1. PICK f : IsFold(op, f, w, S) /\ Score(lists, c) = f[S]
  BY ScoreFolds
<1>2. NatFold(op, f, w, S)
  BY <1>1, WorthTyped DEF NatFold
<1> HIDE DEF S, w, op
<1>3. \A s \in SUBSET S : f[s] \in Nat
  BY <1>1, <1>2, FoldOut
<1> QED
  BY <1>1, <1>3

IsSum(f, w, S) == NatFold("sum", f, w, S)

LEMMA SumOut ==
  ASSUME NEW S, NEW w, NEW f, IsSum(f, w, S)
  PROVE  f[{}] = 0 /\ \A s \in SUBSET S : f[s] \in Nat /\ \A x \in s : f[s] = w[x] + f[s \ {x}]
<1>1. PICK op : op = "sum"
  OBVIOUS
<1>2. NatFold(op, f, w, S)
  BY <1>1 DEF IsSum
<1>3. \A s \in SUBSET S : f[s] \in Nat /\ \A x \in s : f[s] = Combine(op, w[x], f[s \ {x}])
  BY <1>2, FoldOut
<1>4. f[{}] = Unit(op)
  BY <1>2, FoldIs DEF NatFold
<1> QED
  BY <1>1, <1>3, <1>4 DEF Unit, Combine

(* A sum with more parts is no less, and one with greater parts is greater.*)
LEMMA SumGrows ==
  ASSUME NEW S, NEW w, NEW f, IsSum(f, w, S),
         NEW R \in SUBSET S, R # {}, NEW v, NEW g, IsSum(g, v, R),
         \A r \in R : w[r] > v[r]
  PROVE  f[S] > g[R]
<1> DEFINE N == {n \in Nat : \A s \in SUBSET R : Cardinality(s) = n => f[s] >= g[s] /\ (s # {} => f[s] > g[s])}
           M == {n \in Nat : \A s \in SUBSET S : Cardinality(s) = n => f[s] >= f[s \cap R]}
<1>0. IsFiniteSet(S) /\ w \in [S -> Nat] /\ v \in [R -> Nat]
  BY DEF IsSum, NatFold
<1>1. IsFiniteSet(R) /\ \A s \in SUBSET S : IsFiniteSet(s) /\ Cardinality(s) \in Nat /\ (Cardinality(s) = 0 => s = {})
  BY <1>0, FS_Subset, FS_CardinalityType, FS_EmptySet
<1>2. f[{}] = 0 /\ g[{}] = 0
  BY SumOut
<1>3. \A s \in SUBSET S : f[s] \in Nat /\ \A x \in s : f[s] = w[x] + f[s \ {x}]
  BY SumOut
<1>4. \A s \in SUBSET R : g[s] \in Nat /\ \A x \in s : g[s] = v[x] + g[s \ {x}]
  BY SumOut
<1>5. 0 \in N /\ 0 \in M
  <2>1. \A s \in SUBSET S : Cardinality(s) = 0 => s = {} /\ s \cap R = {}
    BY <1>1
  <2> QED
    BY <1>2, <2>1
<1>6. ASSUME NEW n \in N PROVE n + 1 \in N
  <2>1. ASSUME NEW s \in SUBSET R, Cardinality(s) = n + 1 PROVE f[s] > g[s]
    <3>1. PICK x \in s : TRUE
      <4>1. n + 1 # 0 /\ Cardinality({}) = 0
        BY FS_EmptySet
      <4> HIDE DEF N
      <4>2. s # {}
        BY <2>1, <4>1
      <4> QED
        BY <4>2
    <3>2. Cardinality(s \ {x}) = n /\ s \ {x} \in SUBSET R /\ s \in SUBSET S /\ s \ {x} \in SUBSET S
      BY <1>1, <2>1, Removed
    <3>3. f[s \ {x}] >= g[s \ {x}] /\ f[s \ {x}] \in Nat /\ g[s \ {x}] \in Nat
      BY <1>0, <1>3, <1>4, <3>2
    <3>4. f[s] = w[x] + f[s \ {x}] /\ g[s] = v[x] + g[s \ {x}] /\ w[x] > v[x] /\ w[x] \in Nat /\ v[x] \in Nat
      BY <1>0, <1>3, <1>4, <3>2
    <3> QED
      BY <3>3, <3>4
  <2>2. \A s \in SUBSET R : f[s] \in Nat /\ g[s] \in Nat
    BY <1>3, <1>4
  <2> QED
    BY <2>1, <2>2
<1>7. ASSUME NEW n \in M PROVE n + 1 \in M
  <2>1. ASSUME NEW s \in SUBSET S, Cardinality(s) = n + 1 PROVE f[s] >= f[s \cap R]
    <3>1. CASE s \subseteq R
      <4>1. s \cap R = s
        BY <3>1
      <4>2. f[s] \in Nat
        BY <1>3
      <4>3. f[s] >= f[s]
        BY <4>2
      <4> QED
        BY <4>1, <4>3
    <3>2. CASE ~(s \subseteq R)
      <4>1. PICK x \in s : x \notin R
        BY <3>2
      <4>2. Cardinality(s \ {x}) = n /\ s \ {x} \in SUBSET S /\ (s \ {x}) \cap R = s \cap R
        <5>1. Cardinality(s \ {x}) = n
          BY <1>1, <2>1, Removed
        <5> QED
          BY <4>1, <5>1
      <4>3. f[s \ {x}] >= f[s \cap R]
        BY <4>2
      <4>4. f[s] = w[x] + f[s \ {x}] /\ w[x] \in Nat /\ f[s \ {x}] \in Nat /\ f[s \cap R] \in Nat
        BY <1>0, <1>3, <4>2
      <4> QED
        BY <4>3, <4>4
    <3> QED
      BY <3>1, <3>2
  <2> QED
    BY <2>1
<1>8. N = Nat /\ M = Nat
  <2>1. N \subseteq Nat /\ M \subseteq Nat
    OBVIOUS
  <2> HIDE DEF N, M
  <2> QED
    BY <1>5, <1>6, <1>7, <2>1, ByCardinality
<1>9. f[R] > g[R]
  BY <1>1, <1>8
<1>10. f[S] >= f[R]
  <2>1. S \cap R = R
    OBVIOUS
  <2> QED
    BY <1>1, <1>8, <2>1
<1> QED
  BY <1>3, <1>4, <1>9, <1>10

LEMMA ScoreSums ==
  ASSUME NEW lists, AreRankings(lists), NEW c
  PROVE  \E f : IsSum(f, Worth(lists, c), Ranked(lists, c)) /\ Score(lists, c) = f[Ranked(lists, c)]
BY ScoreFolds, WorthTyped DEF IsSum, NatFold

(* What every ranker prefers has the higher score.                         *)
LEMMA DominantScores ==
  ASSUME NEW lists, AreRankings(lists), NEW c, NEW d, Dominates(lists, c, d)
  PROVE  Score(lists, c) > Score(lists, d)
<1> DEFINE S == Ranked(lists, c)
           R == Ranked(lists, d)
<1>1. \A r \in R : r \in S /\ Position(lists[r], c) < Position(lists[r], d)
  BY DEF Dominates, Ranked, Range
<1>2. R # {}
  BY DEF Dominates, Fused, Ranked, Range
<1>3. ASSUME NEW r \in R PROVE Worth(lists, c)[r] > Worth(lists, d)[r]
  <2>1. PICK n \in 0 .. Cardinality(Chunks) : lists[r] \in RankingsOf(n)
    BY DEF AreRankings, Ranked
  <2>2. Position(lists[r], c) \in 1 .. n /\ Position(lists[r], d) \in 1 .. n
    BY <1>1, <2>1, PositionIs DEF Ranked
  <2>3. Cardinality(Chunks) \in Nat
    BY FS_CardinalityType, ChunksConstant
  <2>4. Position(lists[r], c) \in 1 .. Cardinality(Chunks) /\ Position(lists[r], d) \in 1 .. Cardinality(Chunks)
    BY <2>2, <2>3
  <2>5. Contribution(Position(lists[r], c)) > Contribution(Position(lists[r], d))
    BY <1>1, <2>4, ContributionFalls
  <2> QED
    BY <1>1, <2>5 DEF Worth
<1>4. PICK f : IsSum(f, Worth(lists, c), S) /\ Score(lists, c) = f[S]
  BY ScoreSums
<1>5. PICK g : IsSum(g, Worth(lists, d), R) /\ Score(lists, d) = g[R]
  BY ScoreSums
<1>7. f[S] > g[R]
  <2> DEFINE v == Worth(lists, c)
             w == Worth(lists, d)
  <2>1. /\ IsSum(f, v, S) /\ IsSum(g, w, R)
        /\ R \in SUBSET S /\ R # {} /\ \A r \in R : v[r] > w[r]
    BY <1>1, <1>2, <1>3, <1>4, <1>5
  <2> HIDE DEF v, w, S, R
  <2> QED
    BY <2>1, SumGrows
<1> QED
  BY <1>4, <1>5, <1>7

-----------------------------------------------------------------------------
(* The order rrf_fuse sorts by is total, so a finite set can be sorted.    *)
Before(score, c, d) == score[c] > score[d] \/ (score[c] = score[d] /\ c < d)

Sorts(score, s) == \A i, j \in DOMAIN s : i < j => Before(score, s[i], s[j])

LEMMA LastExists ==
  ASSUME NEW F, IsFiniteSet(F), F \subseteq Nat, F # {}, NEW score \in [F -> Nat]
  PROVE  \E z \in F : \A c \in F \ {z} : Before(score, c, z)
<1> DEFINE N == {n \in Nat : \A s \in SUBSET F :
                   Cardinality(s) = n /\ s # {} => \E z \in s : \A c \in s \ {z} : Before(score, c, z)}
<1>1. \A s \in SUBSET F : IsFiniteSet(s) /\ Cardinality(s) \in Nat /\ (Cardinality(s) = 0 => s = {})
  BY FS_Subset, FS_CardinalityType, FS_EmptySet
<1>2. 0 \in N
  BY <1>1
<1>3. ASSUME NEW n \in N PROVE n + 1 \in N
  <2>1. ASSUME NEW s \in SUBSET F, Cardinality(s) = n + 1, s # {}
        PROVE  \E z \in s : \A c \in s \ {z} : Before(score, c, z)
    <3>1. PICK x \in s : TRUE
      BY <2>1
    <3>2. s \ {x} \in SUBSET F /\ Cardinality(s \ {x}) = n
      BY <1>1, <2>1, Removed
    <3>3. CASE s \ {x} = {}
      BY <3>3
    <3>4. CASE s \ {x} # {}
      <4>1. PICK y \in s \ {x} : \A c \in (s \ {x}) \ {y} : Before(score, c, y)
        BY <3>2, <3>4
      <4>2. \A c \in s : c \in Nat /\ score[c] \in Nat
        OBVIOUS
      <4>3. CASE Before(score, x, y)
        <5>1. \A c \in s \ {y} : Before(score, c, y)
          BY <4>1, <4>3
        <5> QED
          BY <4>1, <5>1
      <4>4. CASE ~Before(score, x, y)
        <5> HIDE DEF N
        <5>1. Before(score, y, x)
          BY <4>1, <4>2, <4>4 DEF Before
        <5>2. ASSUME NEW c \in s \ {x} PROVE Before(score, c, x)
          <6>1. c = y \/ Before(score, c, y)
            BY <4>1
          <6>2. c \in Nat /\ y \in Nat /\ x \in Nat /\ score[c] \in Nat /\ score[y] \in Nat /\ score[x] \in Nat
            BY <4>1, <4>2
          <6> QED
            BY <5>1, <6>1, <6>2 DEF Before
        <5> QED
          BY <5>2
      <4> QED
        BY <4>3, <4>4
    <3> QED
      BY <3>3, <3>4
  <2> QED
    BY <2>1
<1>4. N = Nat
  <2>1. N \subseteq Nat
    OBVIOUS
  <2> HIDE DEF N
  <2> QED
    BY <1>2, <1>3, <2>1, ByCardinality
<1> QED
  BY <1>1, <1>4

LEMMA SortExists ==
  ASSUME NEW F, IsFiniteSet(F), F \subseteq Nat, NEW score \in [F -> Nat]
  PROVE  \E s \in [1 .. Cardinality(F) -> F] : Sorts(score, s)
<1> DEFINE N == {n \in Nat : \A A \in SUBSET F :
                   Cardinality(A) = n => \E s \in [1 .. n -> A] : Sorts(score, s)}
<1>1. \A A \in SUBSET F : IsFiniteSet(A) /\ Cardinality(A) \in Nat /\ (Cardinality(A) = 0 => A = {})
  BY FS_Subset, FS_CardinalityType, FS_EmptySet
<1>2. 0 \in N
  <2>1. ASSUME NEW A \in SUBSET F PROVE \E s \in [1 .. 0 -> A] : Sorts(score, s)
    <3>1. [i \in 1 .. 0 |-> {}] \in [1 .. 0 -> A] /\ Sorts(score, [i \in 1 .. 0 |-> {}])
      BY DEF Sorts
    <3> QED
      BY <3>1
  <2> QED
    BY <2>1
<1>3. ASSUME NEW n \in N PROVE n + 1 \in N
  <2>1. ASSUME NEW A \in SUBSET F, Cardinality(A) = n + 1 PROVE \E s \in [1 .. n + 1 -> A] : Sorts(score, s)
    <3>0. n \in Nat
      OBVIOUS
    <3>1. A # {}
      <4>1. n + 1 # 0 /\ Cardinality({}) = 0
        BY FS_EmptySet
      <4> HIDE DEF N
      <4> QED
        BY <2>1, <4>1
    <3>2. PICK z \in A : \A c \in A \ {z} : Before(score, c, z)
      <4>1. [c \in A |-> score[c]] \in [A -> Nat]
        OBVIOUS
      <4> DEFINE own == [c \in A |-> score[c]]
      <4>2. \E z \in A : \A c \in A \ {z} : Before(own, c, z)
        <5> HIDE DEF own, N
        <5> QED
          BY <1>1, <3>1, <4>1, LastExists DEF own
      <4> QED
        BY <4>2 DEF Before
    <3>3. A \ {z} \in SUBSET F /\ Cardinality(A \ {z}) = n
      BY <1>1, <2>1, Removed
    <3>4. PICK s \in [1 .. n -> A \ {z}] : Sorts(score, s)
      BY <3>3
    <3> HIDE DEF N
    <3> DEFINE t == [i \in 1 .. n + 1 |-> IF i = n + 1 THEN z ELSE s[i]]
    <3>5. t \in [1 .. n + 1 -> A]
      BY <3>0
    <3>6. ASSUME NEW i \in 1 .. n + 1, NEW j \in 1 .. n + 1, i < j PROVE Before(score, t[i], t[j])
      <4>1. i \in 1 .. n /\ t[i] = s[i] /\ s[i] \in A \ {z}
        BY <3>0, <3>6
      <4>2. CASE j = n + 1
        <5>1. t[j] = z
          BY <4>2
        <5> HIDE DEF t
        <5> QED
          BY <3>2, <4>1, <5>1
      <4>3. CASE j # n + 1
        <5>1. j \in 1 .. n /\ t[j] = s[j]
          BY <3>0, <4>3
        <5>2. Before(score, s[i], s[j])
          BY <3>4, <3>6, <4>1, <5>1 DEF Sorts
        <5> HIDE DEF t
        <5> QED
          BY <4>1, <5>1, <5>2
      <4> QED
        BY <4>2, <4>3
    <3>7. Sorts(score, t)
      <4>1. DOMAIN t = 1 .. n + 1
        OBVIOUS
      <4> HIDE DEF t
      <4> QED
        BY <3>6, <4>1 DEF Sorts
    <3> QED
      BY <3>5, <3>7
  <2> QED
    BY <2>1
<1>4. N = Nat
  <2>1. N \subseteq Nat
    OBVIOUS
  <2> HIDE DEF N
  <2> QED
    BY <1>2, <1>3, <2>1, ByCardinality
<1>5. F \in SUBSET F
  OBVIOUS
<1> QED
  BY <1>1, <1>4, <1>5
-----------------------------------------------------------------------------
LEMMA MinIs ==
  ASSUME NEW a \in Nat, NEW b \in Nat
  PROVE  Min({a, b}) \in Nat /\ Min({a, b}) <= a /\ Min({a, b}) <= b /\ Min({a, b}) \in {a, b}
<1> DEFINE m == CHOOSE x \in {a, b} : \A y \in {a, b} : x =< y
<1>1. m \in {a, b} /\ \A y \in {a, b} : m =< y
  <2>1. \E x \in {a, b} : \A y \in {a, b} : x =< y
    <3>1. CASE a <= b
      BY <3>1
    <3>2. CASE ~(a <= b)
      BY <3>2
    <3> QED
      BY <3>1, <3>2
  <2> QED
    BY <2>1
<1>2. Min({a, b}) = m
  BY DEF Min
<1> HIDE DEF m
<1> QED
  BY <1>1, <1>2

LEMMA FusedIs ==
  ASSUME NEW lists, AreRankings(lists)
  PROVE  Fused(lists) \subseteq Chunks /\ Fused(lists) \subseteq Nat /\ IsFiniteSet(Fused(lists))
<1>1. \A r \in DOMAIN lists : Range(lists[r]) \subseteq Chunks
  BY PositionIs DEF AreRankings
<1>2. Fused(lists) \subseteq Chunks
  BY <1>1 DEF Fused, Range
<1> QED
  BY <1>2, ChunksConstant, FS_Subset

(* A sorted sequence of all of a set lists each element once, those with   *)
(* higher scores before the others.                                        *)
Lists(s, n, F, score) ==
  /\ s \in [1 .. n -> F] /\ n \in Nat
  /\ \A i, j \in 1 .. n : s[i] = s[j] => i = j
  /\ \A c \in F : \E i \in 1 .. n : s[i] = c
  /\ \A i, j \in 1 .. n : score[s[i]] > score[s[j]] => i < j

LEMMA SortedOnce ==
  ASSUME NEW F, IsFiniteSet(F), F \subseteq Nat, NEW score \in [F -> Nat],
         NEW s \in [1 .. Cardinality(F) -> F], Sorts(score, s)
  PROVE  Lists(s, Cardinality(F), F, score)
<1> DEFINE n == Cardinality(F)
<1>0. n \in Nat
  BY FS_CardinalityType
<1>1. \A i \in 1 .. n : s[i] \in F /\ s[i] \in Nat /\ score[s[i]] \in Nat
  OBVIOUS
<1>2. \A i, j \in 1 .. n : i < j => Before(score, s[i], s[j])
  BY DEF Sorts
<1>3. \A i, j \in 1 .. n : s[i] = s[j] => i = j
  <2> SUFFICES ASSUME NEW i \in 1 .. n, NEW j \in 1 .. n, s[i] = s[j], i # j PROVE FALSE
    OBVIOUS
  <2>1. Before(score, s[i], s[i])
    BY <1>0, <1>2
  <2> QED
    BY <1>1, <2>1 DEF Before
<1>4. \A i, j \in 1 .. n : score[s[i]] > score[s[j]] => i < j
  <2> SUFFICES ASSUME NEW i \in 1 .. n, NEW j \in 1 .. n, score[s[i]] > score[s[j]], ~(i < j) PROVE FALSE
    OBVIOUS
  <2>1. s[i] = s[j] \/ Before(score, s[j], s[i])
    BY <1>0, <1>2
  <2> QED
    BY <1>1, <2>1 DEF Before
<1>5. s \in Surjection(1 .. n, F)
  <2>1. s \in Injection(1 .. n, F)
    BY <1>3 DEF Injection, IsInjective
  <2>2. Cardinality(1 .. n) = n
    BY <1>0, FS_Interval
  <2> QED
    BY <2>1, <2>2, FS_Injection
<1> QED
  BY <1>0, <1>3, <1>4, <1>5 DEF Surjection, Lists

LEMMA FirstOf ==
  ASSUME NEW F, NEW n \in Nat, NEW s \in [1 .. n -> F], NEW m \in Nat, m <= n
  PROVE  /\ Len(SubSeq(s, 1, m)) = m /\ DOMAIN SubSeq(s, 1, m) = 1 .. m
         /\ \A i \in 1 .. m : SubSeq(s, 1, m)[i] = s[i] /\ SubSeq(s, 1, m)[i] \in F
<1> DEFINE t == SubSeq(s, 1, m)
<1>1. /\ t \in Seq(F) /\ Len(t) = IF 1 <= m THEN m - 1 + 1 ELSE 0
      /\ \A i \in 1 .. m - 1 + 1 : t[i] = s[1 + i - 1]
  BY SubSeqProperties
<1> HIDE DEF t
<1>2. Len(t) = m /\ \A i \in 1 .. m : t[i] = s[i]
  BY <1>1
<1>3. DOMAIN t = 1 .. m
  BY <1>1, <1>2, LenProperties
<1>4. \A i \in 1 .. m : s[i] \in F
  OBVIOUS
<1> QED
  BY <1>2, <1>3, <1>4 DEF t

(* Cut at its end, it keeps that order, and whatever comes before what is  *)
(* left.                                                                   *)
LEMMA CutSorted ==
  ASSUME NEW F, NEW score, NEW n, NEW s, Lists(s, n, F, score), NEW m \in Nat, m <= n
  PROVE  LET hits == SubSeq(s, 1, m) IN
         /\ Len(hits) = m /\ IsInjective(hits) /\ Range(hits) \subseteq F
         /\ \A c, d \in F : score[c] > score[d] /\ d \in Range(hits)
                           => c \in Range(hits) /\ Position(hits, c) < Position(hits, d)
<1> DEFINE hits == SubSeq(s, 1, m)
<1> USE DEF Lists
<1>0. Len(hits) = m /\ DOMAIN hits = 1 .. m /\ \A i \in 1 .. m : hits[i] = s[i]
  BY FirstOf
<1> HIDE DEF hits
<1>1. \A i \in 1 .. m : i \in 1 .. n /\ s[i] \in F
  OBVIOUS
<1>2. \A i, j \in 1 .. m : hits[i] = hits[j] => i = j
  <2> SUFFICES ASSUME NEW i \in 1 .. m, NEW j \in 1 .. m, hits[i] = hits[j] PROVE i = j
    OBVIOUS
  <2>1. s[i] = s[j] /\ i \in 1 .. n /\ j \in 1 .. n
    BY <1>1, <1>0
  <2> QED
    BY <2>1
<1>3. Range(hits) \subseteq F
  BY <1>1, <1>0 DEF Range
<1>4. \A i \in 1 .. m : Position(hits, hits[i]) = i
  <2> SUFFICES ASSUME NEW i \in 1 .. m PROVE Position(hits, hits[i]) = i
    OBVIOUS
  <2> DEFINE p == CHOOSE x \in DOMAIN hits : hits[x] = hits[i]
  <2>1. p \in 1 .. m /\ hits[p] = hits[i]
    BY <1>0
  <2>2. Position(hits, hits[i]) = p
    BY DEF Position
  <2> HIDE DEF p
  <2> QED
    BY <1>2, <2>1, <2>2
<1>5. ASSUME NEW c \in F, NEW d \in F, score[c] > score[d], d \in Range(hits)
      PROVE  c \in Range(hits) /\ Position(hits, c) < Position(hits, d)
  <2>1. PICK j \in 1 .. m : hits[j] = d
    BY <1>5, <1>0 DEF Range
  <2>2. PICK i \in 1 .. n : s[i] = c
    OBVIOUS
  <2>3. j \in 1 .. n /\ s[j] = d
    BY <1>1, <1>0, <2>1
  <2>4. i < j
    BY <1>5, <2>2, <2>3
  <2>5. i \in 1 .. m
    BY <2>4
  <2>6. hits[i] = c /\ c \in Range(hits)
    BY <1>0, <2>2, <2>5 DEF Range
  <2> QED
    BY <1>4, <2>1, <2>4, <2>5, <2>6
<1> QED
  BY <1>0, <1>2, <1>3, <1>5 DEF IsInjective, hits

(* What fusion makes of any rankings is what it promises.                  *)
THEOREM FusionWell ==
  ASSUME NEW lists, AreRankings(lists), NEW k \in Nat
  PROVE  WellFused(lists, RrfFuse(lists, k), k)
<1> DEFINE F == Fused(lists)
           score == [c \in F |-> Score(lists, c)]
           Sorted(s) == \A i, j \in DOMAIN s :
                          i < j => \/ Score(lists, s[i]) > Score(lists, s[j])
                                   \/ Score(lists, s[i]) = Score(lists, s[j]) /\ s[i] < s[j]
           all == CHOOSE s \in [1 .. Cardinality(F) -> F] : Sorted(s)
<1>0. F \subseteq Nat /\ IsFiniteSet(F)
  BY FusedIs
<1>1. RrfFuse(lists, k) = SubSeq(all, 1, Min({k, Len(all)}))
  BY DEF RrfFuse
<1>2. score \in [F -> Nat]
  BY ScoreTyped
<1>3. \A c \in F : score[c] = Score(lists, c)
  OBVIOUS
<1> HIDE DEF F, score
<1>4. all \in [1 .. Cardinality(F) -> F] /\ Sorts(score, all)
  <2>1. \A s \in [1 .. Cardinality(F) -> F] : Sorted(s) <=> Sorts(score, s)
    <3> SUFFICES ASSUME NEW s \in [1 .. Cardinality(F) -> F] PROVE Sorted(s) <=> Sorts(score, s)
      OBVIOUS
    <3>1. \A i \in DOMAIN s : score[s[i]] = Score(lists, s[i])
      BY <1>3
    <3> QED
      BY <3>1 DEF Sorts, Before
  <2>2. \E s \in [1 .. Cardinality(F) -> F] : Sorts(score, s)
    BY <1>0, <1>2, SortExists
  <2> HIDE DEF Sorted
  <2> QED
    BY <2>1, <2>2
<1> HIDE DEF all
<1>5. Lists(all, Cardinality(F), F, score)
  BY <1>0, <1>2, <1>4, SortedOnce
<1>6. PICK n \in Nat : n = Cardinality(F)
  BY <1>0, FS_CardinalityType
<1>7. Lists(all, n, F, score)
  BY <1>5, <1>6
<1>8. Len(all) = n
  BY <1>7 DEF Lists
<1>9. PICK m \in Nat : m = Min({k, n}) /\ m <= n
  BY MinIs
<1>10. PICK hits : hits = SubSeq(all, 1, m)
  OBVIOUS
<1>11. /\ Len(hits) = m /\ IsInjective(hits) /\ Range(hits) \subseteq F
       /\ \A c, d \in F : score[c] > score[d] /\ d \in Range(hits)
                         => c \in Range(hits) /\ Position(hits, c) < Position(hits, d)
  <2>1. m <= n
    BY <1>9
  <2> QED
    BY <1>7, <1>10, <2>1, CutSorted
<1>12. \A c, d \in F : Dominates(lists, c, d) => score[c] > score[d]
  BY <1>3, DominantScores
<1>13. WellFused(lists, hits, k)
  BY <1>6, <1>9, <1>11, <1>12 DEF WellFused, F
<1> QED
  BY <1>1, <1>8, <1>9, <1>10, <1>13

(* And so is the one ranking that is left as it is.                        *)
LEMMA SingleWell ==
  ASSUME NEW lists, NEW r, DOMAIN lists = {r}, NEW k \in Nat,
         NEW n \in 0 .. k, lists[r] \in RankingsOf(n)
  PROVE  WellFused(lists, CHOOSE l \in Range(lists) : TRUE, k)
<1> DEFINE hits == lists[r]
<1>1. Range(lists) = {hits}
  BY DEF Range
<1>2. (CHOOSE l \in Range(lists) : TRUE) = hits
  BY <1>1
<1>3. Fused(lists) = Range(hits)
  BY <1>1 DEF Fused
<1> HIDE DEF hits
<1>4. hits \in RankingsOf(n) /\ n \in Nat /\ n <= k
  BY DEF hits
<1>5. hits \in [1 .. n -> Chunks] /\ IsInjective(hits) /\ Len(hits) = n
  BY <1>4 DEF RankingsOf
<1>6. Cardinality(Range(hits)) = n
  <2>1. hits \in Bijection(1 .. n, Range(hits))
    BY <1>5 DEF Bijection, Injection, Surjection, Range
  <2> QED
    BY <1>4, <2>1, FS_CountingElements DEF ExistsBijection
<1>7. Len(hits) = Min({k, n})
  BY <1>4, <1>5, MinIs
<1>8. ASSUME NEW c, NEW d, Dominates(lists, c, d), d \in Range(hits)
      PROVE  c \in Range(hits) /\ Position(hits, c) < Position(hits, d)
  BY <1>1, <1>8 DEF Dominates
<1>9. WellFused(lists, hits, k)
  BY <1>3, <1>5, <1>6, <1>7, <1>8 DEF WellFused
<1> QED
  BY <1>2, <1>9

(* What a ranker may answer is a ranking, of at most top_k chunks.         *)
LEMMA RankingsAre ==
  ASSUME NEW ranker, NEW k \in Nat, NEW l \in Rankings(ranker, k)
  PROVE  \E n \in 0 .. k : n \in 0 .. Cardinality(Chunks) /\ l \in RankingsOf(n)
<1>1. Cardinality(Chunks) \in Nat
  BY FS_CardinalityType, ChunksConstant
<1>2. Most(k) \in Nat /\ Most(k) <= k /\ Most(k) <= Cardinality(Chunks)
  BY <1>1, MinIs DEF Most
<1>3. PICK n \in 0 .. Most(k) : l \in RankingsOf(n)
  BY <1>2 DEF Rankings
<1> QED
  BY <1>1, <1>2, <1>3
=============================================================================
