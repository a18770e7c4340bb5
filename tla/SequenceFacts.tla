---------------------------- MODULE SequenceFacts ----------------------------
(***************************************************************************)
(* What the operations on sequences do to the set of their elements, and   *)
(* that a nonempty set of naturals has a least one; for the proofs about   *)
(* pipes, queues, batches and names.                                       *)
(***************************************************************************)
EXTENDS Integers, Sequences, SequenceTheorems, TLAPS
LOCAL INSTANCE SequencesExt
LOCAL WF == INSTANCE WellFoundedInduction

IsSequence(s) == s \in Seq(ToSet(s))

(* Whoever is a sequence of some kind of elements is one of its own.       *)
LEMMA SeqIntro == ASSUME NEW S, NEW s \in Seq(S) PROVE IsSequence(s) /\ ToSet(s) \subseteq S
<1>1. s \in [1 .. Len(s) -> S] /\ Len(s) \in Nat
  BY LenProperties
<1>2. s \in [1 .. Len(s) -> ToSet(s)] /\ ToSet(s) \subseteq S
  BY <1>1 DEF ToSet
<1> QED
  BY <1>1, <1>2 DEF IsSequence

(* A sequence is a function on the numbers up to its length.               *)
LEMMA SeqShape ==
  ASSUME NEW s, IsSequence(s)
  PROVE  /\ Len(s) \in Nat /\ DOMAIN s = 1 .. Len(s)
         /\ \A i \in 1 .. Len(s) : s[i] \in ToSet(s)
         /\ \A e \in ToSet(s) : \E i \in 1 .. Len(s) : s[i] = e
<1>1. Len(s) \in Nat /\ DOMAIN s = 1 .. Len(s)
  BY LenProperties DEF IsSequence
<1> QED
  BY <1>1 DEF ToSet

(* Append adds its element.                                                *)
LEMMA SeqAppend ==
  ASSUME NEW s, NEW e, IsSequence(s)
  PROVE  /\ IsSequence(Append(s, e)) /\ ToSet(Append(s, e)) = ToSet(s) \cup {e}
         /\ Len(Append(s, e)) = Len(s) + 1
         /\ \A i \in 1 .. Len(s) : Append(s, e)[i] = s[i]
         /\ Append(s, e)[Len(s) + 1] = e
<1> DEFINE S == ToSet(s) \cup {e}
<1>1. s \in Seq(S)
  BY SeqMonotonic DEF IsSequence
<1>2. /\ Append(s, e) \in Seq(S) /\ Len(Append(s, e)) = Len(s) + 1
      /\ \A i \in 1 .. Len(s) : Append(s, e)[i] = s[i]
      /\ Append(s, e)[Len(s) + 1] = e
  BY <1>1, AppendProperties
<1>3. DOMAIN s = 1 .. Len(s) /\ DOMAIN Append(s, e) = 1 .. Len(s) + 1 /\ Len(s) \in Nat
  BY <1>1, <1>2, LenProperties
<1>4. ToSet(Append(s, e)) = S
  BY <1>2, <1>3 DEF ToSet
<1> QED
  BY <1>2, <1>4, SeqIntro

(* Head and Tail split a sequence that is not empty.                       *)
LEMMA SeqTail ==
  ASSUME NEW s, IsSequence(s), s # <<>>
  PROVE  /\ IsSequence(Tail(s)) /\ ToSet(Tail(s)) \subseteq ToSet(s) /\ Head(s) \in ToSet(s)
         /\ ToSet(s) = ToSet(Tail(s)) \cup {Head(s)}
         /\ Len(s) \in Nat \ {0} /\ Len(Tail(s)) = Len(s) - 1
         /\ \A i \in 1 .. Len(s) - 1 : Tail(s)[i] = s[i + 1]
<1>1. /\ Tail(s) \in Seq(ToSet(s)) /\ Head(s) \in ToSet(s) /\ Len(Tail(s)) = Len(s) - 1
      /\ \A i \in 1 .. Len(Tail(s)) : Tail(s)[i] = s[i + 1]
  BY HeadTailProperties DEF IsSequence
<1>2. Len(s) \in Nat \ {0} /\ Head(s) = s[1]
  BY EmptySeq, LenProperties DEF IsSequence
<1>3. IsSequence(Tail(s)) /\ ToSet(Tail(s)) \subseteq ToSet(s)
  BY <1>1, SeqIntro
<1>4. ASSUME NEW e \in ToSet(s) PROVE e \in ToSet(Tail(s)) \cup {Head(s)}
  <2>1. PICK i \in 1 .. Len(s) : s[i] = e
    BY SeqShape
  <2>2. CASE i = 1
    BY <2>1, <2>2, <1>2
  <2>3. CASE i # 1
    <3>1. i - 1 \in 1 .. Len(Tail(s)) /\ Tail(s)[i - 1] = e
      BY <2>1, <2>3, <1>1, <1>2
    <3> QED
      BY <3>1, <1>3, SeqShape
  <2> QED
    BY <2>2, <2>3
<1> QED
  BY <1>1, <1>2, <1>3, <1>4

(* Concatenation joins the elements.                                       *)
LEMMA SeqConcat ==
  ASSUME NEW s, NEW t, IsSequence(s), IsSequence(t)
  PROVE  /\ IsSequence(s \o t) /\ ToSet(s \o t) = ToSet(s) \cup ToSet(t)
         /\ Len(s \o t) = Len(s) + Len(t)
         /\ \A i \in 1 .. Len(s) + Len(t) : (s \o t)[i] = IF i <= Len(s) THEN s[i] ELSE t[i - Len(s)]
<1> DEFINE S == ToSet(s) \cup ToSet(t)
<1>1. s \in Seq(S) /\ t \in Seq(S)
  BY SeqMonotonic DEF IsSequence
<1>2. /\ s \o t \in Seq(S) /\ Len(s \o t) = Len(s) + Len(t)
      /\ \A i \in 1 .. Len(s) + Len(t) : (s \o t)[i] = IF i <= Len(s) THEN s[i] ELSE t[i - Len(s)]
  BY <1>1, ConcatProperties
<1>3. /\ DOMAIN s = 1 .. Len(s) /\ DOMAIN t = 1 .. Len(t) /\ DOMAIN (s \o t) = 1 .. Len(s) + Len(t)
      /\ Len(s) \in Nat /\ Len(t) \in Nat
  BY <1>1, <1>2, LenProperties
<1>4. ToSet(s \o t) = S
  <2>1. ToSet(s \o t) \subseteq S
    BY <1>2, <1>3 DEF ToSet
  <2>2. \A i \in 1 .. Len(s) : (s \o t)[i] = s[i]
    BY <1>2, <1>3
  <2>3. \A i \in 1 .. Len(t) : (s \o t)[i + Len(s)] = t[i] /\ i + Len(s) \in 1 .. Len(s) + Len(t)
    BY <1>2, <1>3
  <2>4. ToSet(s) \subseteq ToSet(s \o t)
    BY <2>2, <1>3 DEF ToSet
  <2>5. ToSet(t) \subseteq ToSet(s \o t)
    BY <2>3, <1>3 DEF ToSet
  <2> QED
    BY <2>1, <2>4, <2>5
<1> QED
  BY <1>2, <1>4, SeqIntro

(* The same, by the parts.                                                 *)
LEMMA SeqJoin ==
  ASSUME NEW s, NEW t, IsSequence(s), IsSequence(t)
  PROVE  /\ IsSequence(s \o t) /\ Len(s \o t) = Len(s) + Len(t)
         /\ \A i \in 1 .. Len(s) : (s \o t)[i] = s[i]
         /\ \A i \in 1 .. Len(t) : (s \o t)[Len(s) + i] = t[i]
<1> DEFINE n == Len(s)
           k == Len(t)
<1>1. n \in Nat /\ k \in Nat
  BY SeqShape
<1>2. \A i \in 1 .. n + k : (s \o t)[i] = IF i <= n THEN s[i] ELSE t[i - n]
  BY SeqConcat
<1> HIDE DEF n, k
<1>3. ASSUME NEW i \in 1 .. k PROVE (s \o t)[n + i] = t[i]
  <2>1. n + i \in 1 .. n + k /\ ~(n + i <= n) /\ (n + i) - n = i
    BY <1>1
  <2> QED
    BY <1>2, <2>1
<1>4. ASSUME NEW i \in 1 .. n PROVE (s \o t)[i] = s[i]
  <2>1. i \in 1 .. n + k /\ i <= n
    BY <1>1
  <2> QED
    BY <1>2, <2>1
<1> QED
  BY <1>3, <1>4, SeqConcat DEF n, k

(* Sequences of one element and of none.                                   *)
LEMMA SeqOne == ASSUME NEW e PROVE IsSequence(<<e>>) /\ ToSet(<<e>>) = {e} /\ Len(<<e>>) = 1
<1> DEFINE s == <<e>>
<1>1. s \in Seq({e}) /\ Len(s) = 1
  OBVIOUS
<1>2. DOMAIN s = {1} /\ s[1] = e
  OBVIOUS
<1> HIDE DEF s
<1>3. ToSet(s) = {e}
  BY <1>2 DEF ToSet
<1>4. IsSequence(s)
  BY <1>1, SeqIntro
<1> QED
  BY <1>1, <1>3, <1>4 DEF s

LEMMA SeqNone == IsSequence(<<>>) /\ ToSet(<<>>) = {} /\ Len(<<>>) = 0
<1> DEFINE s == <<>>
<1>1. s \in Seq({}) /\ Len(s) = 0
  BY EmptySeq
<1>2. DOMAIN s = {}
  BY <1>1, LenProperties
<1> HIDE DEF s
<1>3. ToSet(s) = {}
  BY <1>2 DEF ToSet
<1>4. IsSequence(s)
  BY <1>1, SeqIntro
<1> QED
  BY <1>1, <1>3, <1>4 DEF s

(* Only the empty sequence has length 0.                                   *)
LEMMA SeqEmpty == ASSUME NEW s, IsSequence(s) PROVE s = <<>> <=> Len(s) = 0
BY EmptySeq DEF IsSequence

(* A part of a sequence.                                                   *)
LEMMA SeqSub ==
  ASSUME NEW s, IsSequence(s), NEW m \in Nat \ {0}, NEW n \in Nat, n <= Len(s)
  PROVE  /\ IsSequence(SubSeq(s, m, n)) /\ ToSet(SubSeq(s, m, n)) \subseteq ToSet(s)
         /\ Len(SubSeq(s, m, n)) = IF m <= n THEN n - m + 1 ELSE 0
         /\ \A i \in 1 .. n - m + 1 : SubSeq(s, m, n)[i] = s[m + i - 1]
<1>1. \A i \in m .. n : s[i] \in ToSet(s)
  BY SeqShape
<1>2. /\ SubSeq(s, m, n) \in Seq(ToSet(s))
      /\ Len(SubSeq(s, m, n)) = IF m <= n THEN n - m + 1 ELSE 0
      /\ \A i \in 1 .. n - m + 1 : SubSeq(s, m, n)[i] = s[m + i - 1]
  BY <1>1, SubSeqProperties
<1> QED
  BY <1>2, SeqIntro

(* Sequences of the same elements in the same places are the same.         *)
LEMMA SeqSame ==
  ASSUME NEW s, NEW t, IsSequence(s), IsSequence(t), Len(s) = Len(t), \A i \in 1 .. Len(s) : s[i] = t[i]
  PROVE  s = t
<1> DEFINE S == ToSet(s) \cup ToSet(t)
<1>1. s \in Seq(S) /\ t \in Seq(S)
  BY SeqMonotonic DEF IsSequence
<1> QED
  BY <1>1, SeqEqual

(* A nonempty set of naturals has a least element.                         *)
LEMMA Least == ASSUME NEW T, T \subseteq Nat, T # {} PROVE \E i \in T : \A j \in T : i <= j
<1> DEFINE R == {pair \in Nat \X Nat : pair[1] < pair[2]}
<1>1. WF!IsWellFoundedOn(R, Nat)
  BY WF!NatLessThanWellFounded DEF WF!OpToRel
<1>2. PICK i \in T : \A j \in T : ~(<<j, i>> \in R)
  <2> HIDE DEF R
  <2> QED
    BY <1>1, WF!WFMin
<1>3. ASSUME NEW j \in T PROVE i <= j
  <2>1. <<j, i>> \notin R
    BY <1>2
  <2>2. ~(j < i)
    BY <2>1
  <2> QED
    BY <2>2
<1> QED
  BY <1>3

(* A nonempty set of naturals with a bound has a greatest element.         *)
LEMMA Greatest == ASSUME NEW T, NEW n \in Nat, T \subseteq 0 .. n, T # {} PROVE \E i \in T : \A j \in T : j <= i
<1> DEFINE U == {n - i : i \in T}
<1>1. U \subseteq Nat /\ U # {}
  <2>1. \A i \in T : n - i \in Nat
    OBVIOUS
  <2>2. PICK i \in T : TRUE
    OBVIOUS
  <2>3. n - i \in U
    BY <2>2
  <2> QED
    BY <2>1, <2>3
<1> HIDE DEF U
<1>2. PICK u \in U : \A x \in U : u <= x
  BY <1>1, Least
<1>3. PICK i \in T : u = n - i
  BY DEF U
<1>4. \A j \in T : n - j \in U
  BY DEF U
<1>5. \A j \in T : n - i <= n - j
  BY <1>2, <1>3, <1>4
<1> QED
  BY <1>5

(* Whoever is least is the one that is chosen.                             *)
LEMMA LeastIs ==
  ASSUME NEW T, NEW c, T \subseteq Nat, c \in T, \A j \in T : c <= j
  PROVE  (CHOOSE i \in T : \A j \in T : i <= j) = c
<1> DEFINE d == CHOOSE i \in T : \A j \in T : i <= j
<1>1. d \in T /\ \A j \in T : d <= j
  OBVIOUS
<1> HIDE DEF d
<1>2. d \in Nat /\ c \in Nat /\ d <= c /\ c <= d
  BY <1>1
<1>3. d = c
  BY <1>2
<1> QED
  BY <1>3 DEF d
=============================================================================
