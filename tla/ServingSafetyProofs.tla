------------------------- MODULE ServingSafetyProofs -------------------------
(***************************************************************************)
(* Proofs of what Serving promises, from what ServingProofs shows of the   *)
(* kinds of its values and of where its children are.                      *)
(***************************************************************************)
EXTENDS ServingProofs, RankFusionProofs
LOCAL INSTANCE SequencesExt

-----------------------------------------------------------------------------
Letters == {"a", "b", "-"}

(* What slugify makes of a name is a sequence of letters and dashes.       *)
SlugText(s) == IsSequence(s) /\ ToSet(s) \subseteq Letters

LEMMA SlugWithText == ASSUME NEW s, NEW c, SlugText(s) PROVE SlugText(SlugWith(s, c))
<1>1. c \in DOMAIN Lower => Lower[c] \in Letters
  BY DEF Lower, Letters
<1>2. \A e \in Letters : SlugText(Append(s, e))
  BY SeqAppend DEF SlugText
<1> QED
  BY <1>1, <1>2 DEF SlugWith, Letters

LEMMA TrimmedText == ASSUME NEW s, SlugText(s) PROVE SlugText(Trimmed(s))
<1> DEFINE kept == {i \in DOMAIN s : s[i] # "-"}
           i == CHOOSE i \in kept : \A j \in kept : i <= j
           k == CHOOSE x \in kept : \A j \in kept : j <= x
<1>0. SlugText(<<>>)
  BY SeqNone DEF SlugText
<1>1. IsSequence(s) /\ Len(s) \in Nat /\ DOMAIN s = 1 .. Len(s)
  BY SeqShape DEF SlugText
<1>2. CASE kept = {}
  BY <1>0, <1>2 DEF Trimmed
<1>3. CASE kept # {}
  <2>1. kept \subseteq 1 .. Len(s) /\ kept \subseteq 0 .. Len(s) /\ kept \subseteq Nat
    BY <1>1
  <2> HIDE DEF kept
  <2>2. i \in kept
    BY <1>3, <2>1, Least
  <2>3. k \in kept
    BY <1>1, <1>3, <2>1, Greatest
  <2> HIDE DEF i, k
  <2>4. IsSequence(SubSeq(s, i, k)) /\ ToSet(SubSeq(s, i, k)) \subseteq ToSet(s)
    <3>1. i \in Nat \ {0} /\ k \in Nat /\ k <= Len(s)
      BY <1>1, <2>1, <2>2, <2>3
    <3> QED
      BY <1>1, <3>1, SeqSub
  <2>5. Trimmed(s) = SubSeq(s, i, k)
    BY <1>3 DEF Trimmed, kept, i, k
  <2> QED
    BY <2>4, <2>5 DEF SlugText
<1> QED
  BY <1>2, <1>3

LEMMA SlugifyText ==
  ASSUME NEW name, Len(name) \in Nat
  PROVE  SlugText(Slugify(name))
<1> DEFINE N == Len(name)
           Step(f, i) == IF i = 0 THEN <<>> ELSE SlugWith(f[i - 1], name[i])
           slug == CHOOSE f : f = [i \in 0 .. N |-> Step(f, i)]
           Made(n) == \E f : f = [i \in 0 .. n |-> Step(f, i)]
<1>0. Slugify(name) = Trimmed(slug[N])
  BY DEF Slugify
<1>1. Made(0)
  <2>1. [i \in 0 .. 0 |-> <<>>] = [i \in 0 .. 0 |-> Step([j \in 0 .. 0 |-> <<>>], i)]
    OBVIOUS
  <2> QED
    BY <2>1
<1>2. ASSUME NEW n \in Nat, Made(n) PROVE Made(n + 1)
  <2>1. PICK f : f = [i \in 0 .. n |-> Step(f, i)]
    BY <1>2
  <2> DEFINE g == [i \in 0 .. n + 1 |-> Step(f, i)]
  <2>2. \A i \in 0 .. n : g[i] = f[i]
    <3> HIDE DEF Step
    <3> QED
      BY <2>1
  <2>3. \A i \in 0 .. n + 1 : Step(g, i) = Step(f, i)
    <3> HIDE DEF g
    <3> QED
      BY <2>2
  <2>4. g = [i \in 0 .. n + 1 |-> Step(g, i)]
    <3> HIDE DEF Step
    <3>1. \A i \in 0 .. n + 1 : Step(f, i) = Step(g, i)
      BY <2>3
    <3> QED
      BY <3>1
  <2> QED
    BY <2>4
<1> HIDE DEF Made
<1>3. \A n \in Nat : Made(n)
  <2> DEFINE T == {n \in Nat : ~Made(n)}
  <2> SUFFICES ASSUME T # {} PROVE FALSE
    OBVIOUS
  <2>1. PICK n \in T : \A j \in T : n <= j
    BY Least
  <2>2. n # 0 /\ n - 1 \in Nat
    BY <1>1, <2>1
  <2>3. Made(n - 1)
    BY <2>1, <2>2
  <2> QED
    BY <1>2, <2>1, <2>2, <2>3
<1>4. slug = [i \in 0 .. N |-> Step(slug, i)]
  <2> HIDE DEF Step
  <2>1. Made(N)
    BY <1>3
  <2> QED
    BY <2>1 DEF Made
<1> HIDE DEF slug
<1>5. \A i \in 0 .. N : slug[i] = Step(slug, i)
  <2> HIDE DEF Step
  <2> QED
    BY <1>4
<1>6. SlugText(slug[0])
  BY <1>5, SeqNone DEF SlugText
<1>7. \A n \in 1 .. N : SlugText(slug[n - 1]) => SlugText(slug[n])
  BY <1>5, SlugWithText
<1>8. \A n \in 0 .. N : SlugText(slug[n])
  <2> DEFINE T == {n \in 0 .. N : ~SlugText(slug[n])}
  <2> SUFFICES ASSUME T # {} PROVE FALSE
    OBVIOUS
  <2>0. T \subseteq Nat
    OBVIOUS
  <2>1. PICK n \in T : \A j \in T : n <= j
    <3> HIDE DEF T
    <3> QED
      BY <2>0, Least
  <2>2. n # 0 /\ n \in 1 .. N /\ n - 1 \in 0 .. N
    BY <1>6, <2>1
  <2>3. SlugText(slug[n - 1])
    BY <2>1, <2>2
  <2> QED
    BY <1>7, <2>1, <2>2, <2>3
<1> QED
  BY <1>0, <1>8, TrimmedText

LEMMA McpSlugText ==
  ASSUME NEW name, Len(name) \in Nat
  PROVE  SlugText(McpSlug(name))
<1> DEFINE whole == Slugify(name)
           n == IF Len(whole) > SlugMax THEN SlugMax ELSE Len(whole)
<1>1. IsSequence(whole) /\ ToSet(whole) \subseteq Letters
  BY SlugifyText DEF SlugText
<1>2. Len(whole) \in Nat
  BY <1>1, SeqShape
<1> HIDE DEF whole
<1>3. n \in Nat /\ n <= Len(whole)
  BY <1>2, NamesConstant
<1> HIDE DEF n
<1>4. IsSequence(SubSeq(whole, 1, n)) /\ ToSet(SubSeq(whole, 1, n)) \subseteq ToSet(whole)
  BY <1>1, <1>3, SeqSub
<1> QED
  BY <1>1, <1>4 DEF McpSlug, SlugText, whole, n

-----------------------------------------------------------------------------
(* A tool's name is taken apart into the slug and the tool it was put      *)
(* together from.                                                          *)
LEMMA ParseBuilt ==
  ASSUME NEW slug, SlugText(slug), slug # <<>>
  PROVE  ParseToolName(BuildToolName(slug, SearchTool)) = <<slug, SearchTool>>
<1> DEFINE name == BuildToolName(slug, SearchTool)
           n == Len(slug)
           bar == <<"_", "_">>
<1>1. IsSequence(slug) /\ n \in Nat \ {0} /\ \A i \in 1 .. n : slug[i] \in Letters
  BY SeqShape, SeqEmpty DEF SlugText
<1>2. /\ IsSequence(bar) /\ Len(bar) = 2 /\ bar[1] = "_" /\ bar[2] = "_"
      /\ IsSequence(SearchTool) /\ Len(SearchTool) = 1 /\ SearchTool[1] = "search_knowledge"
  <2>1. bar \in Seq({"_"}) /\ SearchTool \in Seq({"search_knowledge"})
    BY DEF SearchTool
  <2> QED
    BY <2>1, SeqIntro DEF SearchTool
<1> HIDE DEF n, bar
<1> DEFINE front == slug \o bar
<1>3. /\ IsSequence(front) /\ Len(front) = n + 2
      /\ \A i \in 1 .. n : front[i] = slug[i]
      /\ \A i \in 1 .. 2 : front[n + i] = bar[i]
  <2> DEFINE k == Len(bar)
  <2>1. /\ IsSequence(front) /\ Len(front) = n + k
        /\ \A i \in 1 .. n : front[i] = slug[i]
        /\ \A i \in 1 .. k : front[n + i] = bar[i]
    <3>1. IsSequence(slug) /\ IsSequence(bar)
      BY <1>1, <1>2
    <3> QED
      BY <3>1, SeqJoin DEF n
  <2> HIDE DEF k
  <2>2. k = 2
    BY <1>2 DEF k
  <2> QED
    BY <2>1, <2>2
<1> HIDE DEF front
<1>4. /\ IsSequence(name) /\ Len(name) = (n + 2) + 1
      /\ \A i \in 1 .. n + 2 : name[i] = front[i]
      /\ name[(n + 2) + 1] = SearchTool[1]
  <2> DEFINE m == Len(front)
             k == Len(SearchTool)
  <2>1. name = front \o SearchTool
    BY DEF BuildToolName, front, bar
  <2>2. /\ IsSequence(name) /\ Len(name) = m + k
        /\ \A i \in 1 .. m : name[i] = front[i]
        /\ \A i \in 1 .. k : name[m + i] = SearchTool[i]
    <3>1. IsSequence(front) /\ IsSequence(SearchTool)
      BY <1>2, <1>3
    <3> QED
      BY <2>1, <3>1, SeqJoin
  <2> HIDE DEF m, k
  <2>3. m = n + 2 /\ k = 1
    BY <1>2, <1>3 DEF m, k
  <2>4. /\ IsSequence(name) /\ Len(name) = (n + 2) + 1
        /\ \A i \in 1 .. n + 2 : name[i] = front[i]
        /\ \A i \in 1 .. 1 : name[(n + 2) + i] = SearchTool[i]
    BY <2>2, <2>3
  <2> QED
    BY <2>4
<1> HIDE DEF name
<1>5. /\ \A i \in 1 .. n : name[i] = slug[i]
      /\ name[n + 1] = "_" /\ name[n + 2] = "_" /\ name[n + 3] = "search_knowledge"
  <2>1. front[n + 1] = bar[1] /\ front[n + 2] = bar[2]
    BY <1>3
  <2>2. name[(n + 2) + 1] = "search_knowledge"
    BY <1>2, <1>4
  <2>3. n + 1 \in 1 .. n + 2 /\ n + 2 \in 1 .. n + 2 /\ (n + 2) + 1 = n + 3 /\ 1 .. n \subseteq 1 .. n + 2
    BY <1>1
  <2>4. name[n + 1] = front[n + 1] /\ name[n + 2] = front[n + 2] /\ \A i \in 1 .. n : name[i] = front[i]
    BY <1>4, <2>3
  <2> QED
    BY <1>2, <1>3, <2>1, <2>2, <2>3, <2>4
<1> DEFINE doubled == {i \in 1 .. Len(name) - 1 : name[i] = "_" /\ name[i + 1] = "_"}
<1>6. doubled = {n + 1}
  <2>1. Len(name) - 1 = n + 2
    BY <1>1, <1>4
  <2>2. n + 1 \in 1 .. n + 2 /\ (n + 1) + 1 = n + 2
    BY <1>1
  <2>3. n + 1 \in doubled
    BY <1>5, <2>1, <2>2
  <2>4. ASSUME NEW i \in 1 .. n PROVE i \notin doubled
    <3>1. slug[i] # "_"
      BY <1>1 DEF Letters
    <3> QED
      BY <1>5, <3>1
  <2>5. n + 2 \notin doubled
    <3>1. (n + 2) + 1 = n + 3
      BY <1>1
    <3> QED
      BY <1>5, <3>1
  <2>6. \A i \in 1 .. n + 2 : i \in 1 .. n \/ i = n + 1 \/ i = n + 2
    BY <1>1
  <2>7. doubled \subseteq 1 .. n + 2
    BY <2>1
  <2> HIDE DEF doubled
  <2> QED
    BY <2>3, <2>4, <2>5, <2>6, <2>7
<1> HIDE DEF doubled
<1>7. (CHOOSE i \in doubled : \A j \in doubled : i <= j) = n + 1
  BY <1>1, <1>6, LeastIs
<1>8. SubSeq(name, 1, n) = slug
  <2>1. /\ IsSequence(SubSeq(name, 1, n)) /\ Len(SubSeq(name, 1, n)) = n
        /\ \A i \in 1 .. n : SubSeq(name, 1, n)[i] = name[i]
    BY <1>1, <1>4, SeqSub
  <2> QED
    BY <1>1, <1>5, <2>1, SeqSame DEF n
<1>9. SubSeq(name, n + 3, n + 3) = SearchTool
  <2>1. /\ IsSequence(SubSeq(name, n + 3, n + 3)) /\ Len(SubSeq(name, n + 3, n + 3)) = 1
        /\ SubSeq(name, n + 3, n + 3)[1] = name[n + 3]
    BY <1>1, <1>4, SeqSub
  <2>2. \A i \in 1 .. 1 : SubSeq(name, n + 3, n + 3)[i] = SearchTool[i]
    <3>1. SubSeq(name, n + 3, n + 3)[1] = SearchTool[1]
      BY <1>2, <1>5, <2>1
    <3>2. \A i \in 1 .. 1 : i = 1
      OBVIOUS
    <3> QED
      BY <3>1, <3>2
  <2> QED
    BY <1>2, <2>1, <2>2, SeqSame
<1>10. slug # <<>> /\ SearchTool # <<>>
  BY DEF SearchTool
<1>11. (n + 1) - 1 = n /\ (n + 1) + 2 = n + 3 /\ Len(name) = n + 3
  BY <1>1, <1>4
<1>12. doubled # {} /\ <<>> \notin {slug, SearchTool}
  BY <1>6, <1>10
<1>13. ParseToolName(name) = <<slug, SearchTool>>
  <2>1. ParseToolName(name) = IF <<>> \in {SubSeq(name, 1, (n + 1) - 1), SubSeq(name, (n + 1) + 2, Len(name))} THEN Nowhere
                              ELSE <<SubSeq(name, 1, (n + 1) - 1), SubSeq(name, (n + 1) + 2, Len(name))>>
    <3> DEFINE i == CHOOSE i \in doubled : \A j \in doubled : i <= j
    <3>1. doubled # {}
      BY <1>12
    <3>2. ParseToolName(name) = IF <<>> \in {SubSeq(name, 1, i - 1), SubSeq(name, i + 2, Len(name))} THEN Nowhere
                                ELSE <<SubSeq(name, 1, i - 1), SubSeq(name, i + 2, Len(name))>>
      BY <3>1 DEF ParseToolName, doubled
    <3> HIDE DEF i
    <3>3. i = n + 1
      BY <1>7 DEF i
    <3> QED
      BY <3>2, <3>3
  <2> QED
    BY <1>8, <1>9, <1>11, <1>12, <2>1
<1> QED
  BY <1>13 DEF name

(* A document's URI goes to its Orb in the Orb's own form, and comes back  *)
(* as it was.                                                              *)
LEMMA UriBuilt ==
  ASSUME NEW slug, SlugText(slug), slug # <<>>, NEW id
  PROVE  LET uri == DocumentUri(slug, id) IN
         /\ SplitUri(uri) # Nowhere /\ SplitUri(uri)[1] = slug /\ WithoutSlashes(SplitUri(uri)[2]) # <<>>
         /\ ToNamespacedUri(slug, ToNativeUri(uri)) = uri
<1> DEFINE rest == <<"/", "documents", "/", id>>
           native == <<"documents", "/", id>>
           uri == slug \o rest
           n == Len(slug)
<1>1. IsSequence(slug) /\ n \in Nat \ {0} /\ \A i \in 1 .. n : slug[i] \in Letters
  BY SeqShape, SeqEmpty DEF SlugText
<1>2. /\ IsSequence(rest) /\ Len(rest) = 4 /\ DOMAIN rest = 1 .. 4
      /\ rest[1] = "/" /\ rest[2] = "documents" /\ rest[3] = "/" /\ rest[4] = id
  <2>1. /\ rest \in Seq({"/", "documents", id}) /\ Len(rest) = 4 /\ DOMAIN rest = 1 .. 4
        /\ rest[1] = "/" /\ rest[2] = "documents" /\ rest[3] = "/" /\ rest[4] = id
    OBVIOUS
  <2> HIDE DEF rest
  <2>2. IsSequence(rest)
    BY <2>1, SeqIntro
  <2> QED
    BY <2>1, <2>2
<1>3. /\ IsSequence(native) /\ Len(native) = 3 /\ native # <<>>
      /\ native[1] = "documents" /\ native[2] = "/" /\ native[3] = id
  <2>1. native \in Seq({"/", "documents", id}) /\ Len(native) = 3
    OBVIOUS
  <2>2. IsSequence(native)
    BY <2>1, SeqIntro
  <2> HIDE DEF native
  <2>3. native # <<>>
    BY <2>1, <2>2, SeqEmpty
  <2> QED
    BY <2>1, <2>2, <2>3 DEF native
<1>4. IsSequence(<<"/">>) /\ Len(<<"/">>) = 1 /\ <<"/">>[1] = "/"
  BY SeqOne
<1>5. uri = DocumentUri(slug, id)
  BY DEF DocumentUri
<1> HIDE DEF n, rest, native
<1>6. /\ IsSequence(uri) /\ Len(uri) = n + 4
      /\ \A i \in 1 .. n : uri[i] = slug[i]
      /\ \A i \in 1 .. 4 : uri[n + i] = rest[i]
  <2> DEFINE k == Len(rest)
  <2>1. /\ IsSequence(uri) /\ Len(uri) = n + k
        /\ \A i \in 1 .. n : uri[i] = slug[i]
        /\ \A i \in 1 .. k : uri[n + i] = rest[i]
    <3>1. IsSequence(slug) /\ IsSequence(rest)
      BY <1>1, <1>2
    <3> QED
      BY <3>1, SeqJoin DEF n
  <2> HIDE DEF k
  <2>2. k = 4
    BY <1>2 DEF k
  <2> QED
    BY <2>1, <2>2
<1> HIDE DEF uri
<1> DEFINE slashes == {i \in DOMAIN uri : uri[i] = "/"}
<1>7. n + 1 \in slashes /\ \A j \in slashes : n + 1 <= j
  <2>1. DOMAIN uri = 1 .. n + 4
    BY <1>6, SeqShape
  <2>2. \A i \in 1 .. n : uri[i] # "/"
    BY <1>1, <1>6 DEF Letters
  <2>3. uri[n + 1] = "/"
    BY <1>1, <1>2, <1>6
  <2> QED
    BY <1>1, <2>1, <2>2, <2>3
<1>8. slashes \subseteq Nat
  BY <1>1, <1>6, SeqShape
<1> HIDE DEF slashes
<1>9. (CHOOSE i \in slashes : \A j \in slashes : i <= j) = n + 1
  BY <1>7, <1>8, LeastIs
<1>10. SubSeq(uri, 1, n) = slug
  <2>1. /\ IsSequence(SubSeq(uri, 1, n)) /\ Len(SubSeq(uri, 1, n)) = n
        /\ \A i \in 1 .. n : SubSeq(uri, 1, n)[i] = uri[i]
    BY <1>1, <1>6, SeqSub
  <2> QED
    BY <1>1, <1>6, <2>1, SeqSame DEF n
<1>11. SubSeq(uri, n + 1, n + 4) = rest
  <2>1. /\ IsSequence(SubSeq(uri, n + 1, n + 4)) /\ Len(SubSeq(uri, n + 1, n + 4)) = 4
        /\ \A i \in 1 .. 4 : SubSeq(uri, n + 1, n + 4)[i] = uri[n + i]
    BY <1>1, <1>6, SeqSub
  <2> DEFINE part == SubSeq(uri, n + 1, n + 4)
             k == Len(part)
  <2>2. \A i \in 1 .. 4 : part[i] = rest[i]
    BY <1>6, <2>1
  <2> HIDE DEF part
  <2>3. IsSequence(part) /\ IsSequence(rest) /\ k = Len(rest) /\ \A i \in 1 .. k : part[i] = rest[i]
    <3>1. k = 4 /\ Len(rest) = 4
      BY <1>2, <2>1 DEF part
    <3> HIDE DEF k
    <3> QED
      BY <1>2, <2>1, <2>2, <3>1 DEF part
  <2>4. part = rest
    BY <2>3, SeqSame
  <2> QED
    BY <2>4 DEF part
<1>12. SplitUri(uri) = <<slug, rest>>
  <2>1. slashes # {} /\ n + 1 # 1 /\ (n + 1) - 1 = n
    BY <1>1, <1>7
  <2>2. SplitUri(uri) = IF n + 1 = 1 THEN Nowhere ELSE <<SubSeq(uri, 1, (n + 1) - 1), SubSeq(uri, n + 1, Len(uri))>>
    <3> DEFINE i == CHOOSE i \in slashes : \A j \in slashes : i <= j
    <3>1. SplitUri(uri) = IF i = 1 THEN Nowhere ELSE <<SubSeq(uri, 1, i - 1), SubSeq(uri, i, Len(uri))>>
      BY <2>1 DEF SplitUri, slashes
    <3> HIDE DEF i
    <3>2. i = n + 1
      BY <1>9 DEF i
    <3> QED
      BY <3>1, <3>2
  <2> QED
    BY <1>6, <1>10, <1>11, <2>1, <2>2
<1>13. WithoutSlashes(rest) = native
  <2> DEFINE kept == {i \in DOMAIN rest : rest[i] # "/"}
  <2>1. 2 \in kept /\ kept \subseteq 2 .. 4
    BY <1>2
  <2> HIDE DEF kept
  <2>2. (CHOOSE i \in kept : \A j \in kept : i <= j) = 2
    <3> DEFINE c == 2
    <3>1. kept \subseteq Nat /\ c \in kept /\ \A j \in kept : c <= j
      BY <2>1
    <3> HIDE DEF c
    <3>2. (CHOOSE i \in kept : \A j \in kept : i <= j) = c
      BY <3>1, LeastIs
    <3> QED
      BY <3>2 DEF c
  <2>3. WithoutSlashes(rest) = SubSeq(rest, 2, 4)
    BY <1>2, <2>1, <2>2 DEF WithoutSlashes, kept
  <2>4. /\ IsSequence(SubSeq(rest, 2, 4)) /\ Len(SubSeq(rest, 2, 4)) = 3
        /\ \A i \in 1 .. 3 : SubSeq(rest, 2, 4)[i] = rest[2 + i - 1]
    <3> DEFINE m == 2
               k == 4
    <3>1. m \in Nat \ {0} /\ k \in Nat /\ k <= Len(rest) /\ m <= k /\ k - m + 1 = 3
      BY <1>2
    <3> HIDE DEF m, k
    <3>2. /\ IsSequence(SubSeq(rest, m, k))
          /\ Len(SubSeq(rest, m, k)) = IF m <= k THEN k - m + 1 ELSE 0
          /\ \A i \in 1 .. k - m + 1 : SubSeq(rest, m, k)[i] = rest[m + i - 1]
      BY <1>2, <3>1, SeqSub
    <3>3. /\ IsSequence(SubSeq(rest, m, k)) /\ Len(SubSeq(rest, m, k)) = 3
          /\ \A i \in 1 .. 3 : SubSeq(rest, m, k)[i] = rest[m + i - 1]
      BY <3>1, <3>2
    <3> QED
      BY <3>3 DEF m, k
  <2>5. \A i \in 1 .. 3 : SubSeq(rest, 2, 4)[i] = native[i]
    <3>1. \A i \in 1 .. 3 : i = 1 \/ i = 2 \/ i = 3
      OBVIOUS
    <3>2. 2 + 1 - 1 = 2 /\ 2 + 2 - 1 = 3 /\ 2 + 3 - 1 = 4
      OBVIOUS
    <3> QED
      BY <1>2, <1>3, <2>4, <3>1, <3>2
  <2>6. SubSeq(rest, 2, 4) = native
    BY <1>3, <2>4, <2>5, SeqSame
  <2> QED
    BY <2>3, <2>6
<1>14. (slug \o <<"/">>) \o native = uri
  <2> DEFINE front == slug \o <<"/">>
             text == front \o native
  <2>1. /\ IsSequence(front) /\ Len(front) = n + 1
        /\ \A i \in 1 .. n : front[i] = slug[i]
        /\ \A i \in 1 .. 1 : front[n + i] = <<"/">>[i]
    BY <1>1, <1>4, SeqJoin DEF n
  <2> HIDE DEF front
  <2>2. /\ IsSequence(text) /\ Len(text) = (n + 1) + 3
        /\ \A i \in 1 .. n + 1 : text[i] = front[i]
        /\ \A i \in 1 .. 3 : text[(n + 1) + i] = native[i]
    <3> DEFINE m == Len(front)
               k == Len(native)
    <3>1. IsSequence(front) /\ IsSequence(native)
      BY <1>3, <2>1
    <3>2. /\ IsSequence(text) /\ Len(text) = m + k
          /\ \A i \in 1 .. m : text[i] = front[i]
          /\ \A i \in 1 .. k : text[m + i] = native[i]
      BY <3>1, SeqJoin
    <3>3. m = n + 1 /\ k = 3
      BY <1>3, <2>1
    <3> HIDE DEF text, m, k
    <3> QED
      BY <3>2, <3>3
  <2> HIDE DEF text
  <2>3. \A i \in 1 .. n : text[i] = uri[i]
    BY <1>1, <1>6, <2>1, <2>2
  <2>4. text[n + 1] = uri[n + 1]
    <3>1. n + 1 \in 1 .. n + 1 /\ 1 \in 1 .. 4
      BY <1>1
    <3> QED
      BY <1>2, <1>4, <1>6, <2>1, <2>2, <3>1
  <2>5. \A i \in 1 .. 3 : text[(n + 1) + i] = uri[(n + 1) + i]
    <3>1. \A i \in 1 .. 3 : i + 1 \in 1 .. 4 /\ n + (i + 1) = (n + 1) + i
      BY <1>1
    <3>2. \A i \in 1 .. 3 : rest[i + 1] = native[i]
      BY <1>2, <1>3
    <3> QED
      BY <1>6, <2>2, <3>1, <3>2
  <2>6. \A i \in 1 .. n + 4 : i \in 1 .. n \/ i = n + 1 \/ \E k \in 1 .. 3 : i = (n + 1) + k
    <3>1. ASSUME NEW i \in 1 .. n + 4, i \notin 1 .. n, i # n + 1 PROVE i - (n + 1) \in 1 .. 3 /\ i = (n + 1) + (i - (n + 1))
      BY <1>1, <3>1
    <3> QED
      BY <3>1
  <2>7. Len(text) = Len(uri) /\ \A i \in 1 .. Len(text) : text[i] = uri[i]
    <3>1. Len(text) = n + 4
      BY <1>1, <2>2
    <3> QED
      BY <1>6, <2>3, <2>4, <2>5, <2>6, <3>1
  <2>8. text = uri
    BY <1>6, <2>2, <2>7, SeqSame
  <2> QED
    BY <2>8 DEF text, front
<1> QED
  BY <1>3, <1>5, <1>10, <1>12, <1>13, <1>14 DEF ToNamespacedUri, ToNativeUri, Nowhere

-----------------------------------------------------------------------------
(* What the gateway lists, an Orb that has loaded its package has.         *)
LEMMA ListedAvailable ==
  ASSUME NEW pack \in Packages, Loads(pack)
  PROVE  ListedMethods(pack) \subseteq AvailableMethods(pack)
BY DEF Packages, Indexes, Capabilities, Loads, Missing, ListedMethods, AvailableMethods, Lexical, HasDense,
       SupportsHybrid, DeclaresDense

Vectors == {"none", "fits", "misfit"}

(* A listed method that comes to be run is refused only for want of a      *)
(* vector that fits.                                                       *)
LEMMA ListedSucceeds ==
  ASSUME NEW pack \in Packages, Loads(pack), NEW m \in ListedMethods(pack), NEW own \in Vectors, NEW e,
         NEW prepared \in AutoFill(pack, m, own, e), prepared.error = "none",
         Unavailable(pack, prepared.method, prepared.vector)
  PROVE  \/ own = "misfit"
         \/ pack.model = "unnamed" /\ ~pack.fits
         \/ e = "absent" /\ m = "hybrid"
         \/ e = "lite" /\ HasDense(pack)
<1> USE DEF Packages, Indexes, Capabilities
<1> DEFINE M == prepared.method
           v == prepared.vector
<1>1. /\ pack.declared \cap {"tfidf", "trigram"} \subseteq pack.files
      /\ DeclaresDense(pack) => HasDense(pack)
      /\ HasDense(pack) => SupportsHybrid(pack)
      /\ Dense(pack) \in {"flat", "hnsw"}
  BY DEF Loads, Missing, DeclaresDense, HasDense, Dense, SupportsHybrid
<1>2. /\ m \in {"auto", "bm25", "tfidf", "trigram", "vector", "hybrid"}
      /\ m \in {"vector", "hybrid"} => DeclaresDense(pack)
      /\ m \in {"tfidf", "trigram"} => m \in pack.files
  BY <1>1 DEF ListedMethods
<1> DEFINE Unfilled == e = "lite" \/ own # "none" \/ ~NeedsVector(pack, m)
<1>3. \/ Unfilled /\ prepared = Prepared(m, own)
      \/ ~Unfilled /\ e = "absent" /\ prepared = EmbedderNotReady(m)
      \/ ~Unfilled /\ e # "absent" /\ pack.model # "other"
         /\ prepared = Prepared(m, IF pack.fits THEN "fits" ELSE "misfit")
  <2>1. \A x : Unprepared(x).error = x
    BY DEF Unprepared
  <2>2. prepared # Unprepared("model mismatch") /\ prepared # Unprepared("embedder failure")
    BY <2>1
  <2> QED
    BY <2>2 DEF AutoFill
<1>4. \A x, y : Prepared(x, y).method = x /\ Prepared(x, y).vector = y
  BY DEF Prepared
<1>5. \/ Unfilled /\ M = m /\ v = own
      \/ ~Unfilled /\ e = "absent" /\ M = (IF m = "vector" THEN "auto" ELSE m) /\ v = "none"
      \/ ~Unfilled /\ e # "absent" /\ pack.model # "other" /\ M = m /\ v = (IF pack.fits THEN "fits" ELSE "misfit")
  <2> HIDE DEF Unfilled
  <2> DEFINE w == IF pack.fits THEN "fits" ELSE "misfit"
             n == IF m = "vector" THEN "auto" ELSE m
  <2>1. EmbedderNotReady(m) = Prepared(n, "none")
    BY DEF EmbedderNotReady
  <2> HIDE DEF w, n
  <2>2. prepared = Prepared(m, own) => M = m /\ v = own
    BY <1>4
  <2>3. prepared = Prepared(n, "none") => M = n /\ v = "none"
    BY <1>4
  <2>4. prepared = Prepared(m, w) => M = m /\ v = w
    BY <1>4
  <2> QED
    BY <1>3, <2>1, <2>2, <2>3, <2>4 DEF w, n
<1>6. /\ M = "hybrid" => SupportsHybrid(pack)
      /\ Rankers(pack, M, v) \cap {"tfidf", "trigram"} \subseteq pack.files
  BY <1>1, <1>2, <1>5 DEF Rankers, Lexical
<1>7. Rankers(pack, M, v) \cap {"flat", "hnsw"} # {} /\ (~HasDense(pack) \/ v # "fits")
  BY <1>6 DEF Unavailable
<1>8. HasDense(pack) /\ M \in {"auto", "vector", "hybrid"} /\ (M = "auto" => v # "none") /\ v # "fits"
  BY <1>1, <1>2, <1>7, <1>5 DEF Rankers, Lexical
<1> HIDE DEF M, v
<1> QED
  BY <1>2, <1>8, <1>5 DEF Vectors, NeedsVector

-----------------------------------------------------------------------------
(* What is on its way to a child.                                          *)
Held(p) ==
  {<<line.call, line.item>> : line \in (ToSet(pipe[p]) \cup ToSet(buffer[p])) \ {Junk}}
    \cup (IF busy[p] = Idle THEN {} ELSE {<<busy[p].call, busy[p].item>>})

Wellformed(item) == item.kind = "search" => item.vector \in Vectors /\ item.topK \in Nat

(* It was written for an item of a request, which is still in hand or done *)
(* with. What the web server works on is what it is asked.                 *)
Carries(q, n, item) ==
  /\ n \in Nat \ {0} /\ pc[q] # "unsent" /\ Len(todo[q]) <= n
  /\ Len(todo[q]) = n => item = Forwarded(Head(todo[q]))

Carried ==
  /\ \A p \in Procs : \A held \in Held(p) : Wellformed(held[2])
  /\ \A p \in ChildProcs : \A held \in Held(p) :
       \E q \in Requests, n \in Nat : held[1] = <<q, n>> /\ Carries(q, n, held[2])

Occupied == \A p \in Procs : busy[p] # Idle => proc[p] = "up"

(* The answer a child has found: for a search by a listed method as        *)
(* ListedMethodsAnswer says, and a text only to a read.                    *)
Sound(item, answer, pack) ==
  /\ item.kind = "search" /\ item.method \in ListedMethods(pack) =>
       /\ answer # "unsupported method"
       /\ answer = "search failed" => VectorMissing(item, pack)
  /\ answer = "text" => item.kind = "read"

AnswersSound ==
  \A p \in ChildProcs :
    busy[p] # Idle /\ busy[p].stage = "answer" => Sound(busy[p].item, busy[p].answer, Package(p))

(* Every item that is left came with its request.                          *)
LEMMA Asked ==
  ASSUME Typed, NEW q \in Requests, NEW item \in ToSet(todo[q])
  PROVE  \E i \in DOMAIN world.ask[q].items : q \in DOMAIN world.ask /\ item = Named(world.ask[q].items[i])
<1>1. FromAsk(q)
  BY DEF Typed, TasksTyped, TaskTyped
<1> QED
  BY <1>1 DEF FromAsk

(* The items of a request are as they were asked for.                      *)
LEMMA ItemFacts ==
  ASSUME Typed, NEW q \in Requests, NEW item \in ToSet(todo[q])
  PROVE  /\ {"kind", "name"} \subseteq DOMAIN item /\ Wellformed(item)
         /\ Forwarded(item).kind = item.kind
         /\ item.kind # "read" => Forwarded(item) = item
<1>1. PICK i \in DOMAIN world.ask[q].items : q \in DOMAIN world.ask /\ item = Named(world.ask[q].items[i])
  BY Asked
<1> DEFINE x == world.ask[q].items[i]
<1>2. /\ "kind" \in DOMAIN x
      /\ x.kind = "search" => {"vector", "topK"} \subseteq DOMAIN x /\ x.vector \in Vectors /\ x.topK \in Nat
  BY <1>1, WorldsGiven DEF Typed, Vectors, Whole
<1>3. /\ \A f \in DOMAIN x : item[f] = x[f]
      /\ DOMAIN item = DOMAIN x \cup {"name", "to"}
  BY <1>1, NamedFacts DEF Typed
<1> HIDE DEF x
<1> QED
  BY <1>2, <1>3 DEF Wellformed, Forwarded

(* Lines reach a child only as a call writes them, whole or spoiled.       *)
LineMoves(p) ==
  ToSet(pipe'[p]) \cup ToSet(buffer'[p])
    \subseteq ToSet(pipe[p]) \cup ToSet(buffer[p]) \cup {Junk} \cup {Line(q) : q \in {x \in Requests : pc[x] = "writing"}}

LEMMA LineSteps ==
  ASSUME Typed, [Next]_vars
  PROVE  \A p \in Procs : LineMoves(p)
<1> USE DEF Typed, ProcessesTyped
<1>1. ASSUME NEW p \in Procs, pipe'[p] = pipe[p] \/ pipe'[p] = <<>>, buffer'[p] = buffer[p] PROVE LineMoves(p)
  BY <1>1, SeqNone DEF LineMoves
<1>2. CASE UNCHANGED <<pipe, buffer>>
  BY <1>1, <1>2
<1>3. ASSUME NEW ps, Ended(ps), UNCHANGED buffer PROVE \A p \in Procs : LineMoves(p)
  BY <1>1, <1>3 DEF Ended
<1>4. ASSUME NEW q \in Requests, Ensure(q) PROVE \A p \in Procs : LineMoves(p)
  BY <1>1, <1>4 DEF Ensure, Launch, processes, children
<1>5. ASSUME NEW p \in Procs, Take(p), UNCHANGED buffer PROVE \A r \in Procs : LineMoves(r)
  <2>1. ToSet(Tail(pipe[p])) \subseteq ToSet(pipe[p])
    BY <1>5, SeqTail DEF Take
  <2>2. pipe'[p] = Tail(pipe[p]) /\ buffer'[p] = buffer[p]
    BY <1>5 DEF Take
  <2>3. LineMoves(p)
    BY <2>1, <2>2, Zenon DEF LineMoves
  <2> QED
    BY <1>1, <1>5, <2>3 DEF Take
<1>6. ASSUME NEW q \in Requests, Write(q) PROVE \A p \in Procs : LineMoves(p)
  <2> DEFINE p == target[q]
             lines == Append(buffer[p], Line(q))
  <2>1. CASE UNCHANGED <<pipe, buffer>>
    BY <1>2, <2>1
  <2>2. CASE pipe' = [pipe EXCEPT ![p] = @ \o Glued(p, lines)] /\ buffer' = [buffer EXCEPT ![p] = <<>>]
    <3>1. pc[q] = "writing" /\ p \in Procs
      BY <1>6 DEF Write, TasksTyped, TaskTyped, Procs
    <3>2. IsSequence(buffer[p]) /\ IsSequence(pipe[p]) /\ p \in DOMAIN buffer
      BY <3>1 DEF ChildrenTyped
    <3>3. IsSequence(lines) /\ ToSet(lines) = ToSet(buffer[p]) \cup {Line(q)} /\ lines # <<>>
      BY <3>2, SeqAppend, AppendNotEmpty
    <3>4. pipe'[p] = pipe[p] \o Glued(p, lines) /\ buffer'[p] = <<>>
      BY <2>2, <3>1, <3>2
    <3> HIDE DEF lines, p
    <3>5. IsSequence(Glued(p, lines)) /\ ToSet(Glued(p, lines)) \subseteq ToSet(lines) \cup {Junk}
      BY <3>3, GluedFacts
    <3>6. ToSet(pipe'[p]) = ToSet(pipe[p]) \cup ToSet(Glued(p, lines)) /\ ToSet(buffer'[p]) = {}
      BY <3>2, <3>4, <3>5, SeqConcat, SeqNone
    <3>7. LineMoves(p)
      BY <3>1, <3>3, <3>5, <3>6 DEF LineMoves
    <3>8. \A r \in Procs \ {p} : LineMoves(r)
      BY <1>1, <2>2 DEF p, ChildrenTyped
    <3> QED
      BY <3>7, <3>8
  <2> QED
    BY <1>6, <2>1, <2>2 DEF Write
<1>7. ASSUME NEW q \in Requests, Leave(q) PROVE \A p \in Procs : LineMoves(p)
  <2> DEFINE p == target[q]
  <2>1. CASE UNCHANGED <<pipe, buffer>>
    BY <1>2, <2>1
  <2>2. CASE Ended({Call(q)}) /\ UNCHANGED buffer
    BY <1>3, <2>2
  <2>3. CASE pc[q] = "writing" /\ CutLine(q)
    <3>1. p \in Procs
      BY <2>3 DEF TasksTyped, TaskTyped, Procs
    <3>2. IsSequence(buffer[p]) /\ IsSequence(pipe[p]) /\ p \in DOMAIN buffer
      BY <3>1 DEF ChildrenTyped
    <3>3. LineMoves(p)
      <4>1. CASE Head(todo[q]).long /\ buffer[p] = <<>>
        <5>1. pipe'[p] = pipe[p] \o <<>> /\ buffer'[p] = <<>>
          BY <2>3, <3>1, <3>2, <4>1 DEF CutLine
        <5>2. ToSet(pipe'[p]) = ToSet(pipe[p]) \cup {} /\ ToSet(buffer'[p]) = {}
          BY <3>2, <5>1, SeqConcat, SeqNone
        <5> QED
          BY <5>2 DEF LineMoves
      <4>2. CASE Head(todo[q]).long /\ buffer[p] # <<>>
        <5>1. pipe'[p] = pipe[p] \o Glued(p, buffer[p]) /\ buffer'[p] = <<>>
          BY <2>3, <3>1, <3>2, <4>2 DEF CutLine
        <5>2. IsSequence(Glued(p, buffer[p])) /\ ToSet(Glued(p, buffer[p])) \subseteq ToSet(buffer[p]) \cup {Junk}
          BY <3>2, <4>2, GluedFacts
        <5>3. ToSet(pipe'[p]) = ToSet(pipe[p]) \cup ToSet(Glued(p, buffer[p])) /\ ToSet(buffer'[p]) = {}
          BY <3>2, <5>1, <5>2, SeqConcat, SeqNone
        <5> QED
          BY <5>2, <5>3 DEF LineMoves
      <4>3. CASE ~Head(todo[q]).long
        <5>1. pipe'[p] = pipe[p] /\ buffer'[p] = Append(buffer[p], Line(q))
          BY <2>3, <3>1, <3>2, <4>3 DEF CutLine
        <5>2. ToSet(buffer'[p]) = ToSet(buffer[p]) \cup {Line(q)}
          BY <3>2, <5>1, SeqAppend
        <5> QED
          BY <2>3, <5>1, <5>2 DEF LineMoves
      <4> QED
        BY <4>1, <4>2, <4>3
    <3>4. \A r \in Procs \ {p} : LineMoves(r)
      BY <1>1, <2>3 DEF CutLine, ChildrenTyped
    <3> QED
      BY <3>3, <3>4
  <2> QED
    BY <1>7, <2>1, <2>2, <2>3 DEF Leave, processes
<1>8. ASSUME NEW q \in Requests, Started(q) \/ NotStarted(q) PROVE \A p \in Procs : LineMoves(p)
  BY <1>2, <1>3, <1>8 DEF Started, NotStarted, children
<1>9. ASSUME NEW p \in Procs, Working(p) PROVE \A r \in Procs : LineMoves(r)
  BY <1>2, <1>3, <1>5, <1>9 DEF Working, Serve, Record, Sync, Deliver, EndOfInput, children
<1>10. ASSUME NEW p \in Procs, Die(p), UNCHANGED buffer PROVE \A r \in Procs : LineMoves(r)
  BY <1>3, <1>10 DEF Die
<1>11. CASE (InputEnds \/ Shutdown \/ Exit \/ \E o \in Orbs : Reap(o)) /\ UNCHANGED buffer
  BY <1>3, <1>11 DEF InputEnds, Shutdown, Exit, Reap
<1>12. CASE (Ask /\ UNCHANGED buffer) \/ WriterWrites \/ CloseInput \/ KillGateway \/ UNCHANGED vars
  BY <1>2, <1>12 DEF Ask, WriterWrites, CloseInput, KillGateway, vars, processes, children
<1>13. ASSUME NEW q \in Requests, Arrive(q) \/ AnswerOwn(q) \/ TakeLock(q) \/ GiveUp(q) \/ Finish(q) \/ Send(q)
       PROVE  \A p \in Procs : LineMoves(p)
  BY <1>2, <1>13 DEF Arrive, AnswerOwn, TakeLock, GiveUp, Finish, Send, processes, children
<1> QED
  BY <1>4, <1>6, <1>7, <1>8, <1>9, <1>10, <1>11, <1>12, <1>13 DEF Next, TaskStep, Shutdown, Exit, Reap, children

(* What a process works on is a line it has read, or, the web server's,    *)
(* the request it was asked; a child comes by its answer as Serve says.    *)
BusyMoves(p) ==
  /\ busy'[p] # Idle => proc'[p] = "up" /\ orbOf'[p] = orbOf[p]
  /\ \/ busy'[p] = Idle
     \/ busy'[p] = busy[p]
     \/ p = Web /\ (busy'[p].item = world.webItem \/ (busy[p] # Idle /\ busy'[p].item = busy[p].item))
     \/ /\ busy'[p].stage = "serve"
        /\ \E line \in ToSet(pipe[p]) \ {Junk} : busy'[p].call = line.call /\ busy'[p].item = line.item
     \/ /\ busy[p] # Idle /\ busy'[p].call = busy[p].call /\ busy'[p].item = busy[p].item
        /\ busy'[p].stage = "answer" => Sound(busy[p].item, busy'[p].answer, Package(p))

(* A search is answered soundly, or goes on to be recorded.                *)
LEMMA SearchSound ==
  ASSUME Typed, NEW p \in Procs, busy[p] # Idle, NEW item, item.kind = "search", item.vector \in Vectors,
         Loads(Package(p)), Search(p, item)
  PROVE  /\ busy'[p].call = busy[p].call /\ busy'[p].item = busy[p].item
         /\ busy'[p].stage = "answer" => Sound(item, busy'[p].answer, Package(p))
<1> DEFINE pack == Package(p)
           Fine == /\ busy'[p].call = busy[p].call /\ busy'[p].item = busy[p].item
                   /\ busy'[p].stage = "answer" => Sound(item, busy'[p].answer, pack)
<1>1. pack \in Packages
  BY WorldsGiven DEF Typed, ProcessesTyped, Package
<1>2. DOMAIN busy[p] = {"call", "item", "stage", "answer"} /\ DOMAIN busy = Procs
  BY DEF Typed, ProcessesTyped, Work
<1>3. ASSUME NEW a, Answering(p, a), Sound(item, a, pack) PROVE Fine
  <2>1. busy'[p].call = busy[p].call /\ busy'[p].item = busy[p].item /\ busy'[p].answer = a
    BY <1>2, <1>3 DEF Answering
  <2> QED
    BY <1>3, <2>1
<1>4. item.method \in ListedMethods(pack) => item.method \in AvailableMethods(pack)
  BY <1>1, ListedAvailable
<1>5. CASE item.method \notin AvailableMethods(pack) /\ Answering(p, "unsupported method")
  BY <1>3, <1>4, <1>5 DEF Sound
<1>6. ASSUME NEW prepared \in AutoFill(pack, item.method, item.vector, world.embedder),
             prepared.error # "none", Answering(p, prepared.error)
      PROVE  Fine
  <2>1. prepared.error \in {"model mismatch", "embedder failure"}
    <3>1. \A x, y : Prepared(x, y).error = "none"
      BY DEF Prepared
    <3>2. \A x : Unprepared(x).error = x
      BY DEF Unprepared
    <3>3. \/ \E x, y : prepared = Prepared(x, y)
          \/ \E x \in {"model mismatch", "embedder failure"} : prepared = Unprepared(x)
      <4> DEFINE given == Prepared(item.method, item.vector)
                 unready == EmbedderNotReady(item.method)
                 mismatch == Unprepared("model mismatch")
                 failure == Unprepared("embedder failure")
                 filled == Prepared(item.method, IF pack.fits THEN "fits" ELSE "misfit")
      <4>1. AutoFill(pack, item.method, item.vector, world.embedder)
            \subseteq {given, unready, mismatch, failure, filled}
        BY DEF AutoFill
      <4>2. \A m : \/ EmbedderNotReady(m) = Unprepared("embedder failure")
                   \/ \E x, y : EmbedderNotReady(m) = Prepared(x, y)
        BY DEF EmbedderNotReady
      <4>3. CASE prepared = unready
        BY <4>2, <4>3
      <4>4. CASE prepared = given
        BY <4>4
      <4>5. CASE prepared = filled
        BY <4>5
      <4>6. CASE prepared = mismatch \/ prepared = failure
        BY <4>6
      <4> HIDE DEF given, unready, mismatch, failure, filled
      <4> QED
        BY <1>6, <4>1, <4>3, <4>4, <4>5, <4>6
    <3>4. CASE \E x, y : prepared = Prepared(x, y)
      BY <1>6, <3>1, <3>4
    <3>5. CASE \E x \in {"model mismatch", "embedder failure"} : prepared = Unprepared(x)
      BY <3>2, <3>5
    <3> QED
      BY <3>3, <3>4, <3>5
  <2>2. Sound(item, prepared.error, pack)
    BY <2>1 DEF Sound
  <2> QED
    BY <1>3, <1>6, <2>2
<1>7. ASSUME NEW prepared \in AutoFill(pack, item.method, item.vector, world.embedder),
             prepared.error = "none", Unavailable(pack, prepared.method, prepared.vector), Answering(p, "search failed")
      PROVE  Fine
  <2>1. item.method \in ListedMethods(pack) => VectorMissing(item, pack)
    BY <1>1, <1>7, ListedSucceeds DEF VectorMissing
  <2>2. Sound(item, "search failed", pack)
    BY <2>1 DEF Sound
  <2> QED
    BY <1>3, <1>7, <2>2
<1>8. CASE busy' = [busy EXCEPT ![p].stage = "record"]
  BY <1>2, <1>8
<1> QED
  BY <1>5, <1>6, <1>7, <1>8 DEF Search

LEMMA ServeMoves ==
  ASSUME Typed, Placed, Carried, Occupied, NEW p \in Procs, Serve(p)
  PROVE  \A r \in Procs : BusyMoves(r)
<1> USE DEF Typed, ProcessesTyped
<1> DEFINE item == busy[p].item
           a == busy'[p].answer
<1>1. proc[p] = "up" /\ busy[p] # Idle /\ proc' = proc /\ orbOf' = orbOf
  BY DEF Serve
<1>2. DOMAIN busy[p] = {"call", "item", "stage", "answer"} /\ DOMAIN busy = Procs
  BY <1>1 DEF Work
<1>3. \A r \in Procs \ {p} : busy'[r] = busy[r]
  BY <1>2 DEF Serve, CallTool, Search, Answering
<1>4. \A r \in Procs \ {p} : BusyMoves(r)
  BY <1>1, <1>3 DEF BusyMoves, Occupied
<1>5. ASSUME p = Web PROVE BusyMoves(p)
  <2>0. \A x : Answering(p, x) => busy'[p].item = busy[p].item
    BY <1>2 DEF Answering
  <2>1. busy'[p].item = busy[p].item
    <3>1. CASE Search(p, item)
      <4>1. (\E x : Answering(p, x)) \/ busy' = [busy EXCEPT ![p].stage = "record"]
        BY <3>1 DEF Search
      <4> QED
        BY <1>2, <2>0, <4>1
    <3> QED
      BY <2>0, <3>1 DEF Serve, CallTool
  <2> QED
    BY <1>1, <1>5, <2>1 DEF BusyMoves
<1>6. ASSUME p # Web PROVE BusyMoves(p)
  <2>1. p \in ChildProcs
    BY <1>6 DEF Procs
  <2>2. Loads(Package(p))
    BY <1>1, <2>1 DEF Placed, Running, Package
  <2>3. Wellformed(item)
    <3>1. <<busy[p].call, item>> \in Held(p)
      BY <1>1 DEF Held
    <3>2. Wellformed(<<busy[p].call, item>>[2])
      BY <3>1 DEF Carried
    <3> QED
      BY <3>2
  <2>4. ASSUME NEW x, Answering(p, x), Sound(item, x, Package(p)) PROVE BusyMoves(p)
    <3>1. busy'[p].call = busy[p].call /\ busy'[p].item = busy[p].item /\ a = x
      BY <1>2, <2>4 DEF Answering
    <3> QED
      BY <1>1, <2>4, <3>1 DEF BusyMoves
  <2>5. CASE item.kind = "read" /\ Answering(p, ReadResource(item.name))
    BY <2>4, <2>5 DEF Sound
  <2>6. CASE item.kind = "search" /\ Search(p, item)
    <3>1. item.vector \in Vectors
      BY <2>3, <2>6 DEF Wellformed
    <3> HIDE DEF item
    <3>2. /\ busy'[p].call = busy[p].call /\ busy'[p].item = busy[p].item
          /\ busy'[p].stage = "answer" => Sound(item, a, Package(p))
      BY <1>1, <2>2, <2>6, <3>1, SearchSound
    <3> QED
      BY <1>1, <3>2 DEF BusyMoves, item
  <2>7. CASE item.kind \notin {"read", "search"} /\ \E x \in {"own", "nothing", "web ui url", "unknown tool"} : Answering(p, x)
    BY <2>4, <2>7 DEF Sound
  <2> QED
    BY <2>5, <2>6, <2>7 DEF Serve, CallTool
<1> QED
  BY <1>4, <1>5, <1>6

LEMMA BusySteps ==
  ASSUME Typed, Placed, Carried, Occupied, [Next]_vars
  PROVE  \A p \in Procs : BusyMoves(p)
<1> USE DEF Typed, ProcessesTyped
<1>0. ChildProcs \subseteq Procs /\ Web \in Procs
  BY DEF Procs
<1>1. ASSUME NEW p \in Procs, busy'[p] = Idle \/ (busy'[p] = busy[p] /\ (busy[p] # Idle => proc'[p] = proc[p] /\ orbOf'[p] = orbOf[p]))
      PROVE  BusyMoves(p)
  BY <1>1 DEF BusyMoves, Occupied
<1>2. CASE UNCHANGED <<proc, orbOf, busy>>
  BY <1>1, <1>2
<1>3. ASSUME NEW ps, Ended(ps) PROVE \A p \in Procs : BusyMoves(p)
  BY <1>1, <1>3 DEF Ended
<1>4. ASSUME NEW q \in Requests, Ensure(q) PROVE \A p \in Procs : BusyMoves(p)
  <2>1. CASE UNCHANGED processes
    BY <1>2, <2>1 DEF processes
  <2>2. CASE Launch(Call(q), Head(todo[q]).to.orb)
    <3>1. \A r \in Procs : busy'[r] = Idle \/ (busy'[r] = busy[r] /\ proc'[r] = proc[r] /\ orbOf'[r] = orbOf[r])
      BY <2>2 DEF Launch
    <3> QED
      BY <1>1, <3>1
  <2> QED
    BY <1>4, <2>1, <2>2 DEF Ensure
<1>5. ASSUME NEW q \in Requests, Started(q) PROVE \A p \in Procs : BusyMoves(p)
  <2>1. CASE Ended({Call(q)})
    BY <1>3, <2>1
  <2>2. CASE proc' = [proc EXCEPT ![Call(q)] = "up"] /\ UNCHANGED <<orbOf, busy>>
    <3>1. proc[Call(q)] = "starting"
      BY <1>5 DEF Started
    <3>2. \A p \in Procs : busy[p] # Idle => p # Call(q)
      BY <3>1 DEF Occupied
    <3> QED
      BY <1>1, <2>2, <3>2
  <2> QED
    BY <1>5, <2>1, <2>2 DEF Started
<1>6. ASSUME NEW p \in Procs, Take(p) PROVE \A r \in Procs : BusyMoves(r)
  <2>1. UNCHANGED <<proc, orbOf>> /\ proc[p] = "up" /\ \A r \in Procs \ {p} : busy'[r] = busy[r]
    BY <1>6 DEF Take
  <2>2. CASE busy' = busy
    BY <1>2, <2>1, <2>2
  <2>3. CASE Head(pipe[p]) # Junk /\ busy'[p] = [call |-> Head(pipe[p]).call, item |-> Head(pipe[p]).item,
                                                stage |-> "serve", answer |-> "none"]
    <3>1. Head(pipe[p]) \in ToSet(pipe[p]) \ {Junk}
      BY <1>6, <2>3, SeqTail DEF Take
    <3>2. busy'[p].call = Head(pipe[p]).call /\ busy'[p].item = Head(pipe[p]).item /\ busy'[p].stage = "serve"
      BY <2>3
    <3>3. BusyMoves(p)
      BY <2>1, <3>1, <3>2 DEF BusyMoves
    <3> QED
      BY <1>1, <2>1, <3>3
  <2> QED
    BY <1>6, <2>2, <2>3 DEF Take
<1>7. ASSUME NEW p \in Procs, Record(p) \/ Sync(p) PROVE \A r \in Procs : BusyMoves(r)
  <2>1. UNCHANGED <<proc, orbOf>> /\ proc[p] = "up" /\ busy[p] # Idle /\ \A r \in Procs \ {p} : busy'[r] = busy[r]
    BY <1>7 DEF Record, Sync, Answering
  <2>2. DOMAIN busy[p] = {"call", "item", "stage", "answer"}
    BY <2>1 DEF Work
  <2>3. /\ busy'[p].call = busy[p].call /\ busy'[p].item = busy[p].item
        /\ busy'[p].stage = "answer" => busy'[p].answer = "hits"
    BY <1>7, <2>2 DEF Record, Sync, Answering
  <2>4. BusyMoves(p)
    BY <2>1, <2>3 DEF BusyMoves, Sound
  <2> QED
    BY <1>1, <2>1, <2>4
<1>8. ASSUME NEW p \in Procs, Deliver(p) PROVE \A r \in Procs : BusyMoves(r)
  <2>1. CASE Ended({p})
    BY <1>3, <2>1
  <2>2. CASE busy' = [busy EXCEPT ![p] = Idle] /\ UNCHANGED <<proc, orbOf>>
    BY <1>1, <2>2
  <2> QED
    BY <1>8, <2>1, <2>2 DEF Deliver
<1>9. ASSUME Ask PROVE \A r \in Procs : BusyMoves(r)
  <2>1. UNCHANGED <<proc, orbOf>> /\ proc[Web] = "up" /\ \A r \in Procs \ {Web} : busy'[r] = busy[r]
    BY <1>9 DEF Ask
  <2>2. busy'[Web] = busy[Web] \/ busy'[Web].item = world.webItem
    BY <1>0, <1>9 DEF Ask
  <2>3. BusyMoves(Web)
    BY <1>9, <2>1, <2>2 DEF BusyMoves, Ask
  <2> QED
    BY <1>1, <2>1, <2>3
<1>10. ASSUME NEW q \in Requests, NotStarted(q) \/ Leave(q) PROVE \A p \in Procs : BusyMoves(p)
  BY <1>2, <1>3, <1>10 DEF NotStarted, Leave, processes
<1>11. ASSUME NEW p \in Procs, Serve(p) PROVE \A r \in Procs : BusyMoves(r)
  BY <1>11, ServeMoves
<1>12. ASSUME NEW p \in Procs, Working(p) \/ Die(p) PROVE \A r \in Procs : BusyMoves(r)
  BY <1>3, <1>6, <1>7, <1>8, <1>11, <1>12 DEF Working, EndOfInput, Die
<1>13. CASE InputEnds \/ Shutdown \/ Exit \/ \E o \in Orbs : Reap(o)
  BY <1>3, <1>13 DEF InputEnds, Shutdown, Exit, Reap
<1>14. CASE WriterWrites \/ CloseInput \/ KillGateway \/ UNCHANGED vars
  BY <1>2, <1>14 DEF WriterWrites, CloseInput, KillGateway, vars, processes
<1>15. ASSUME NEW q \in Requests, Arrive(q) \/ AnswerOwn(q) \/ TakeLock(q) \/ Write(q) \/ GiveUp(q) \/ Finish(q) \/ Send(q)
       PROVE  \A p \in Procs : BusyMoves(p)
  BY <1>2, <1>15 DEF Arrive, AnswerOwn, TakeLock, Write, GiveUp, Finish, Send, processes
<1> QED
  BY <1>4, <1>5, <1>9, <1>10, <1>12, <1>13, <1>14, <1>15 DEF Next, TaskStep

(* Every step keeps what is on its way, and its answers sound.             *)
LEMMA CarriesKept ==
  ASSUME Typed, [Next]_vars, NEW q \in Requests, NEW n, NEW item, Carries(q, n, item)
  PROVE  Carries(q, n, item)'
<1>1. TodoMoves(q)
  BY TodoSteps
<1>2. Len(todo[q]) \in Nat /\ Len(todo'[q]) \in Nat
  <2>1. IsSequence(todo[q]) /\ IsSequence(todo'[q])
    BY TasksStep DEF Typed, TasksTyped, TaskTyped
  <2> QED
    BY <2>1, SeqShape
<1> DEFINE k == Len(todo[q])
           k2 == Len(todo'[q])
           f(s) == Forwarded(Head(s))
<1>3. /\ n \in Nat \ {0} /\ k \in Nat /\ k2 \in Nat /\ k <= n /\ k2 <= k
      /\ k2 = k => todo'[q] = todo[q]
      /\ k = n => item = f(todo[q])
      /\ pc'[q] # "unsent"
  BY <1>1, <1>2 DEF TodoMoves, Carries
<1> HIDE DEF k, k2, f
<1>4. n \in Nat \ {0} /\ pc'[q] # "unsent" /\ k2 <= n /\ (k2 = n => item = f(todo'[q]))
  BY <1>3
<1> QED
  BY <1>4 DEF k2, f, Carries

LEMMA CarriedStep ==
  ASSUME Typed, Placed, Carried, Occupied, [Next]_vars
  PROVE  Carried' /\ Occupied'
<1>1. \A p \in Procs : LineMoves(p) /\ BusyMoves(p)
  BY LineSteps, BusySteps
<1>2. Occupied'
  BY <1>1 DEF BusyMoves, Occupied
<1>3. ASSUME NEW p \in Procs, NEW held \in Held(p)'
      PROVE  \/ held \in Held(p)
             \/ \E q \in Requests : pc[q] = "writing" /\ held = <<Call(q), Forwarded(Head(todo[q]))>>
             \/ p = Web /\ (held[2] = world.webItem \/ \E was \in Held(p) : held[2] = was[2])
  <2>1. CASE \E line \in (ToSet(pipe'[p]) \cup ToSet(buffer'[p])) \ {Junk} : held = <<line.call, line.item>>
    <3>1. PICK line \in (ToSet(pipe'[p]) \cup ToSet(buffer'[p])) \ {Junk} : held = <<line.call, line.item>>
      BY <2>1
    <3>2. CASE line \in ToSet(pipe[p]) \cup ToSet(buffer[p])
      BY <3>1, <3>2 DEF Held
    <3>3. CASE \E q \in Requests : pc[q] = "writing" /\ line = Line(q)
      BY <3>1, <3>3 DEF Line
    <3> QED
      BY <1>1, <3>2, <3>3, <3>1 DEF LineMoves
  <2>2. CASE busy'[p] # Idle /\ held = <<busy'[p].call, busy'[p].item>>
    <3>1. CASE busy[p] # Idle /\ busy'[p].call = busy[p].call /\ busy'[p].item = busy[p].item
      BY <2>2, <3>1 DEF Held
    <3>2. ASSUME NEW line \in ToSet(pipe[p]) \ {Junk}, busy'[p].call = line.call, busy'[p].item = line.item
          PROVE  held \in Held(p)
      BY <2>2, <3>2 DEF Held
    <3>3. CASE p = Web /\ busy[p] # Idle /\ busy'[p].item = busy[p].item
      <4>1. PICK was \in Held(p) : was = <<busy[p].call, busy[p].item>>
        BY <3>3 DEF Held
      <4>2. held[2] = was[2]
        BY <2>2, <3>3, <4>1
      <4> QED
        BY <3>3, <4>2
    <3>4. held[2] = busy'[p].item
      BY <2>2
    <3> QED
      BY <1>1, <2>2, <3>1, <3>2, <3>3, <3>4 DEF BusyMoves
  <2> QED
    BY <2>1, <2>2 DEF Held
<1>4. ASSUME NEW q \in Requests, pc[q] = "writing"
      PROVE  /\ Wellformed(Forwarded(Head(todo[q])))
             /\ \E n \in Nat : Call(q) = <<q, n>> /\ Carries(q, n, Forwarded(Head(todo[q])))
  <2>1. todo[q] # <<>> /\ IsSequence(todo[q])
    BY <1>4 DEF Typed, TasksTyped, TaskTyped, AtChild
  <2>2. Head(todo[q]) \in ToSet(todo[q]) /\ Len(todo[q]) \in Nat \ {0}
    BY <2>1, SeqTail
  <2>3. Wellformed(Forwarded(Head(todo[q])))
    BY <2>2, ItemFacts DEF Wellformed
  <2> QED
    BY <1>4, <2>2, <2>3 DEF Call, Carries
<1>5. ASSUME NEW p \in ChildProcs, NEW held \in Held(p)'
      PROVE  \E q \in Requests, n \in Nat : held[1] = <<q, n>> /\ Carries(q, n, held[2])
  <2>1. p \in Procs /\ p # Web
    BY ProcessConstants DEF Procs
  <2> QED
    BY <1>3, <1>4, <1>5, <2>1 DEF Carried
<1>6. ASSUME NEW p \in Procs, NEW held \in Held(p)' PROVE Wellformed(held[2])
  <2>1. Wellformed(world.webItem)
    BY WorldsGiven DEF Typed, Whole, Wellformed, Vectors
  <2>2. CASE \E q \in Requests : pc[q] = "writing" /\ held = <<Call(q), Forwarded(Head(todo[q]))>>
    BY <1>4, <2>2
  <2> QED
    BY <1>3, <1>6, <2>1, <2>2 DEF Carried
<1>7. \A p \in ChildProcs : \A held \in Held(p)' :
        \E q \in Requests, n \in Nat : held[1] = <<q, n>> /\ Carries(q, n, held[2])'
  BY <1>5, CarriesKept
<1> QED
  BY <1>2, <1>6, <1>7 DEF Carried, Wellformed

LEMMA AnswersStep ==
  ASSUME Typed, Placed, Carried, Occupied, AnswersSound, [Next]_vars
  PROVE  AnswersSound'
<1> SUFFICES ASSUME NEW p \in ChildProcs, busy'[p] # Idle, busy'[p].stage = "answer"
             PROVE  Sound(busy[p].item, busy[p].answer, Package(p))'
  BY DEF AnswersSound
<1>1. BusyMoves(p) /\ p # Web
  BY BusySteps, ProcessConstants DEF Procs
<1>2. world' = world
  BY WorldSame
<1>3. orbOf'[p] = orbOf[p]
  BY <1>1 DEF BusyMoves
<1>4. Sound(busy'[p].item, busy'[p].answer, Package(p))
  BY <1>1 DEF BusyMoves, AnswersSound
<1> QED
  BY <1>2, <1>3, <1>4 DEF Sound, VectorMissing, Package

-----------------------------------------------------------------------------
(* A search or a read of an Orb whose slug is its own is for that Orb, and *)
(* a document's URI survives the way to the Orb and back.                  *)
LEMMA OwnFound ==
  ASSUME world \in Worlds, NEW o \in Orbs, o \in ToSet(world.listing), OwnSlug(o)
  PROVE  FindOrb(SlugOf(o)) = o
<1> DEFINE L == world.listing
           with == OrbsWith(SlugOf(o))
           c == CHOOSE i \in with : \A j \in with : i <= j
<1>1. Len(L) \in Nat /\ DOMAIN L = 1 .. Len(L)
  BY WorldsGiven
<1>2. with # {} /\ with \subseteq Nat /\ with \subseteq DOMAIN L
  BY <1>1 DEF OrbsWith, ToSet
<1>3. c \in with
  BY <1>2, Least
<1>4. FindOrb(SlugOf(o)) = L[c]
  BY <1>2 DEF FindOrb
<1> HIDE DEF c
<1>5. c \in DOMAIN L /\ SlugOf(L[c]) = SlugOf(o)
  BY <1>3 DEF OrbsWith
<1>6. L[c] \in ToSet(L)
  BY <1>5 DEF ToSet
<1> QED
  BY <1>4, <1>5, <1>6 DEF OwnSlug

LEMMA OwnRouted ==
  ASSUME Typed, NEW q \in Requests, NEW item \in ToSet(todo[q]), item.kind \in {"search", "read"}, OwnSlug(item.orb)
  PROVE  /\ item.to.orb = item.orb /\ item.orb \in Orbs
         /\ item.kind = "read" => ToNamespacedUri(SplitUri(item.name)[1], ToNativeUri(item.name)) = item.name
<1>1. PICK i \in DOMAIN world.ask[q].items : q \in DOMAIN world.ask /\ item = Named(world.ask[q].items[i])
  BY Asked
<1> DEFINE x == world.ask[q].items[i]
           named == With(x, "name", NameFor(x))
           o == item.orb
           slug == SlugOf(o)
<1>2. /\ \A f \in DOMAIN x : item[f] = x[f]
      /\ item.kind = x.kind /\ named.kind = x.kind
      /\ item.name = NameFor(x) /\ named.name = NameFor(x)
      /\ item.to = TargetOf(named)
  BY <1>1, NamedFacts, Zenon DEF Typed
<1>3. "orb" \in DOMAIN x /\ \E j \in DOMAIN world.listing : x.orb = world.listing[j]
  <2>1. x.kind \in {"search", "read"}
    BY <1>2
  <2>2. world \in Worlds /\ q \in DOMAIN world.ask /\ i \in DOMAIN world.ask[q].items
    BY <1>1 DEF Typed
  <2>3. x.kind \in {"search", "read"} => "orb" \in DOMAIN x /\ \E j \in DOMAIN world.listing : x.orb = world.listing[j]
    BY <2>2, WorldsGiven
  <2> QED
    BY <2>1, <2>3
<1>4. x.orb = o /\ o \in Orbs /\ o \in ToSet(world.listing)
  BY <1>2, <1>3, WorldsGiven DEF Typed, ToSet
<1>5. SlugText(slug) /\ slug # <<>>
  <2>1. slug = McpSlug(world.name[o])
    BY <1>4 DEF SlugOf, Slug, Typed
  <2>2. Len(world.name[o]) \in Nat
    BY <1>4, WorldsGiven DEF Typed
  <2> QED
    BY <2>1, <2>2, McpSlugText DEF OwnSlug
<1>6. FindOrb(slug) = o /\ o # None
  BY <1>4, OwnFound, ProcessConstants DEF Typed
<1> HIDE DEF x, named, slug
<1>7. CASE item.kind = "search"
  <2>1. named.name = BuildToolName(slug, SearchTool)
    BY <1>2, <1>4, <1>7 DEF NameFor, slug
  <2>2. ParseToolName(named.name) = <<slug, SearchTool>>
    BY <1>5, <2>1, ParseBuilt
  <2>3. ToolTarget(named).orb = o
    BY <1>6, <2>2 DEF ToolTarget, Nowhere
  <2>4. TargetOf(named) = ToolTarget(named)
    BY <1>2, <1>7 DEF TargetOf
  <2> QED
    BY <1>2, <1>4, <1>7, <2>3, <2>4
<1>8. CASE item.kind = "read"
  <2>1. item.name = DocumentUri(slug, x.doc) /\ named.name = item.name
    BY <1>2, <1>4, <1>8 DEF NameFor, slug
  <2>2. /\ SplitUri(item.name) # Nowhere /\ SplitUri(item.name)[1] = slug
        /\ WithoutSlashes(SplitUri(item.name)[2]) # <<>>
        /\ ToNamespacedUri(slug, ToNativeUri(item.name)) = item.name
    BY <1>5, <2>1, UriBuilt
  <2>3. ResourceTarget(named).orb = o
    BY <1>6, <2>1, <2>2 DEF ResourceTarget
  <2>4. TargetOf(named) = ResourceTarget(named)
    BY <1>2, <1>8 DEF TargetOf
  <2> QED
    BY <1>2, <1>4, <2>2, <2>3, <2>4
<1> QED
  BY <1>7, <1>8

-----------------------------------------------------------------------------
(* A reply that keeps what ListedMethodsAnswer and ListedNamesRoute say.   *)
HonestReply(r) ==
  /\ r.orb # None => Sound(r.item, r.answer, world.package[r.orb])
  /\ r.item.kind \in {"search", "read"} /\ OwnSlug(r.item.orb) =>
       /\ r.orb = r.item.orb \/ r.answer = "unavailable"
       /\ r.answer = "text" => r.uri = r.item.name

Honest == \A q \in Requests : \A r \in ToSet(replies[q]) : HonestReply(r)

LEMMA HonestSame == ASSUME world' = world, NEW r, HonestReply(r) PROVE HonestReply(r)'
BY DEF HonestReply, Sound, VectorMissing, OwnSlug, SlugOf

(* What a child answers is an honest reply to the call that waits.         *)
LEMMA DeliverHonest ==
  ASSUME Typed, Placed, Carried, AnswersSound, NEW p \in Procs, NEW q \in Requests,
         busy[p] # Idle, busy[p].stage = "answer", pc[q] = "waiting", target[q] = p, Call(q) = busy[p].call
  PROVE  LET h == Head(todo[q])
             uri == IF busy[p].answer = "text"
                    THEN ToNamespacedUri(SplitUri(h.name)[1], busy[p].item.name) ELSE Nowhere
         IN HonestReply(Reply(h, busy[p].answer, orbOf[p], uri))
<1> DEFINE h == Head(todo[q])
           a == busy[p].answer
           item == busy[p].item
           uri == IF a = "text" THEN ToNamespacedUri(SplitUri(h.name)[1], item.name) ELSE Nowhere
           r == Reply(h, a, orbOf[p], uri)
<1>1. p \in ChildProcs /\ todo[q] # <<>> /\ IsSequence(todo[q]) /\ orbOf[p] = h.to.orb
  BY ProcessConstants DEF Typed, TasksTyped, TaskTyped, AtChild, Placed, Aimed, Aiming, Procs
<1>2. h \in ToSet(todo[q])
  BY <1>1, SeqTail
<1>3. item = Forwarded(h)
  <2>1. <<busy[p].call, item>> \in Held(p)
    BY DEF Held
  <2>2. PICK x \in Requests, n \in Nat : busy[p].call = <<x, n>> /\ Carries(x, n, item)
    BY <1>1, <2>1 DEF Carried
  <2>3. x = q /\ n = Len(todo[q])
    BY <2>2 DEF Call
  <2> QED
    BY <2>2, <2>3 DEF Carries
<1>4. /\ "name" \in DOMAIN h /\ item.kind = h.kind
      /\ h.kind # "read" => item = h
  BY <1>2, <1>3, ItemFacts
<1>5. Sound(item, a, Package(p))
  BY <1>1 DEF AnswersSound
<1> HIDE DEF a
<1>6. r.item = h /\ r.answer = a /\ r.orb = orbOf[p] /\ r.uri = uri
  BY DEF Reply
<1> HIDE DEF r
<1>7. Sound(h, a, Package(p))
  <2>1. CASE h.kind = "read"
    BY <1>4, <2>1 DEF Sound
  <2>2. CASE h.kind # "read"
    BY <1>4, <1>5, <2>2
  <2> QED
    BY <2>1, <2>2
<1>8. ASSUME h.kind \in {"search", "read"}, OwnSlug(h.orb)
      PROVE  orbOf[p] = h.orb /\ (a = "text" => uri = h.name)
  <2>1. /\ h.to.orb = h.orb
        /\ h.kind = "read" => ToNamespacedUri(SplitUri(h.name)[1], ToNativeUri(h.name)) = h.name
    BY <1>2, <1>8, OwnRouted
  <2>2. a = "text" => h.kind = "read"
    BY <1>7 DEF Sound
  <2>3. h.kind = "read" => item.name = ToNativeUri(h.name)
    BY <1>3, <1>4 DEF Forwarded
  <2> QED
    BY <1>1, <2>1, <2>2, <2>3
<1>9. HonestReply(r)
  BY <1>6, <1>7, <1>8 DEF HonestReply, Package
<1> QED
  BY <1>9 DEF r, a

(* Every reply is honest when it is given.                                 *)
ReplyMoves(q) == \A r \in ToSet(replies'[q]) : r \in ToSet(replies[q]) \/ HonestReply(r)

LEMMA AnsweredHonest ==
  ASSUME Typed, NEW q \in Requests, NEW a, NEW o, NEW uri,
         Answered(q, a, o, uri), HonestReply(Reply(Head(todo[q]), a, o, uri))
  PROVE  \A x \in Requests : ReplyMoves(x)
<1> DEFINE r == Reply(Head(todo[q]), a, o, uri)
<1>1. IsSequence(replies[q]) /\ DOMAIN replies = Requests
  BY DEF Typed, TasksTyped, TaskTyped
<1>2. replies'[q] = Append(replies[q], r) /\ \A x \in Requests \ {q} : replies'[x] = replies[x]
  BY <1>1 DEF Answered
<1> HIDE DEF r
<1>3. ToSet(replies'[q]) = ToSet(replies[q]) \cup {r}
  BY <1>1, <1>2, SeqAppend
<1>4. HonestReply(r)
  BY DEF r
<1> QED
  BY <1>2, <1>3, <1>4 DEF ReplyMoves

LEMMA ReplySteps ==
  ASSUME Typed, Placed, Carried, Occupied, AnswersSound, [Next]_vars
  PROVE  \A q \in Requests : ReplyMoves(q)
<1>0. DOMAIN replies = Requests
  BY DEF Typed, TasksTyped
<1>1. ASSUME NEW q \in Requests, replies'[q] = replies[q] PROVE ReplyMoves(q)
  BY <1>1 DEF ReplyMoves
<1>2. CASE UNCHANGED replies
  BY <1>1, <1>2
<1>3. ASSUME NEW item, NEW uri PROVE HonestReply(Reply(item, "unavailable", None, uri))
  <2> DEFINE r == Reply(item, "unavailable", None, uri)
  <2>1. r.orb = None /\ r.answer = "unavailable"
    BY DEF Reply
  <2> HIDE DEF r
  <2>2. HonestReply(r)
    BY <2>1 DEF HonestReply
  <2> QED
    BY <2>2 DEF r
<1>4. ASSUME NEW q \in Requests, NEW uri, Answered(q, "unavailable", None, uri) PROVE \A x \in Requests : ReplyMoves(x)
  BY <1>3, <1>4, AnsweredHonest
<1>5. ASSUME NEW q \in Requests, Arrive(q) PROVE \A x \in Requests : ReplyMoves(x)
  <2>1. ASSUME NEW a PROVE ToSet(<<Reply(Nobody, a, None, Nowhere)>>) = {Reply(Nobody, a, None, Nowhere)}
    BY SeqOne
  <2>2. ASSUME NEW a PROVE HonestReply(Reply(Nobody, a, None, Nowhere))
    <3> DEFINE r == Reply(Nobody, a, None, Nowhere)
    <3>1. r.orb = None /\ r.item.kind = "none"
      BY DEF Reply, Nobody
    <3> HIDE DEF r
    <3>2. HonestReply(r)
      BY <3>1 DEF HonestReply
    <3> QED
      BY <3>2 DEF r
  <2>3. ASSUME NEW a, replies' = [replies EXCEPT ![q] = <<Reply(Nobody, a, None, Nowhere)>>]
        PROVE  \A x \in Requests : ReplyMoves(x)
    <3>1. replies'[q] = <<Reply(Nobody, a, None, Nowhere)>> /\ \A x \in Requests \ {q} : replies'[x] = replies[x]
      BY <1>0, <2>3
    <3>2. ReplyMoves(q)
      BY <2>1, <2>2, <3>1 DEF ReplyMoves
    <3> QED
      BY <1>1, <3>1, <3>2
  <2> QED
    BY <1>2, <1>5, <2>3 DEF Arrive
<1>6. ASSUME NEW q \in Requests, AnswerOwn(q) PROVE \A x \in Requests : ReplyMoves(x)
  <2> DEFINE h == Head(todo[q])
             r == Reply(h, h.to.answer, None, Nowhere)
  <2>1. h \in ToSet(todo[q]) /\ h.to.orb = None
    <3>1. IsSequence(todo[q]) /\ todo[q] # <<>> /\ h.to.orb = None
      BY <1>6 DEF AnswerOwn, AtItem, Typed, TasksTyped, TaskTyped
    <3> QED
      BY <3>1, SeqTail
  <2>2. ~(h.kind \in {"search", "read"} /\ OwnSlug(h.orb))
    BY <2>1, OwnRouted, ProcessConstants
  <2>3. r.orb = None /\ r.item = h
    BY DEF Reply
  <2> HIDE DEF r, h
  <2>4. HonestReply(r)
    BY <2>2, <2>3 DEF HonestReply
  <2>5. CASE Answered(q, h.to.answer, None, Nowhere)
    BY <2>4, <2>5, AnsweredHonest DEF r, h
  <2> QED
    BY <1>2, <1>6, <2>5 DEF AnswerOwn, h
<1>7. ASSUME NEW p \in Procs, Deliver(p) PROVE \A x \in Requests : ReplyMoves(x)
  <2>1. CASE UNCHANGED replies
    BY <1>2, <2>1
  <2> DEFINE q == busy[p].call[1]
             h == Head(todo[q])
             uri == IF busy[p].answer = "text"
                    THEN ToNamespacedUri(SplitUri(h.name)[1], busy[p].item.name) ELSE Nowhere
  <2>2. CASE /\ \E x \in Requests : pc[x] = "waiting" /\ target[x] = p /\ Call(x) = busy[p].call
             /\ Answered(q, busy[p].answer, orbOf[p], uri)
    <3>1. PICK x \in Requests : pc[x] = "waiting" /\ target[x] = p /\ Call(x) = busy[p].call
      BY <2>2
    <3>2. x = q
      BY <3>1 DEF Call
    <3>3. busy[p] # Idle /\ busy[p].stage = "answer"
      BY <1>7 DEF Deliver
    <3>4. HonestReply(Reply(h, busy[p].answer, orbOf[p], uri))
      BY <3>1, <3>2, <3>3, DeliverHonest
    <3> HIDE DEF uri, q
    <3> QED
      BY <2>2, <3>1, <3>2, <3>4, AnsweredHonest
  <2> QED
    BY <1>7, <2>1, <2>2 DEF Deliver, tasks
<1>8. ASSUME NEW q \in Requests, NotStarted(q) \/ TakeLock(q) \/ Write(q) \/ GiveUp(q) PROVE \A x \in Requests : ReplyMoves(x)
  BY <1>2, <1>4, <1>8 DEF NotStarted, TakeLock, Write, GiveUp
<1>9. ASSUME NEW q \in Requests, Leave(q) PROVE \A x \in Requests : ReplyMoves(x)
  <2>1. replies'[q] = <<>> /\ \A x \in Requests \ {q} : replies'[x] = replies[x]
    BY <1>0, <1>9 DEF Leave
  <2>2. ReplyMoves(q)
    BY <2>1, SeqNone DEF ReplyMoves
  <2> QED
    BY <1>1, <2>1, <2>2
<1>10. CASE \E q \in Requests : Ensure(q) \/ Started(q) \/ Finish(q) \/ Send(q)
  BY <1>2, <1>10 DEF Ensure, Started, Finish, Send
<1>11. CASE \/ \E p \in Procs : Working(p) /\ ~Deliver(p)
            \/ UNCHANGED tasks \/ WriterWrites \/ CloseInput \/ Shutdown \/ Exit \/ KillGateway
            \/ \E o \in Orbs : Reap(o)
            \/ UNCHANGED vars
  BY <1>2, <1>11 DEF Working, EndOfInput, WriterWrites, CloseInput, Shutdown, Exit, KillGateway, Reap, tasks, vars
<1> QED
  BY <1>5, <1>6, <1>7, <1>8, <1>9, <1>10, <1>11 DEF Next, TaskStep

-----------------------------------------------------------------------------
(* All of it together.                                                     *)
Safe == Typed /\ Placed /\ Carried /\ Occupied /\ AnswersSound /\ Honest

LEMMA InitSafe == Init => Safe
<1> SUFFICES ASSUME Init PROVE Safe
  OBVIOUS
<1>1. Typed /\ Placed
  BY InitTyped, InitPlaced
<1>2. ASSUME NEW p \in Procs PROVE busy[p] = Idle /\ ToSet(pipe[p]) = {} /\ ToSet(buffer[p]) = {}
  BY SeqNone DEF Init
<1>3. \A q \in Requests : ToSet(replies[q]) = {}
  BY SeqNone DEF Init
<1> QED
  BY <1>1, <1>2, <1>3 DEF Safe, Carried, Occupied, AnswersSound, Honest, Held, Procs

LEMMA SafeStep == Safe /\ [Next]_vars => Safe'
<1> SUFFICES ASSUME Safe, [Next]_vars PROVE Safe'
  OBVIOUS
<1> USE DEF Safe
<1>1. Typed'
  BY TypedStep
<1>2. Placed' /\ Carried' /\ Occupied' /\ AnswersSound'
  BY PlacedStep, CarriedStep, AnswersStep
<1>3. Honest'
  BY ReplySteps, HonestSame, WorldSame DEF Honest, ReplyMoves
<1> QED
  BY <1>1, <1>2, <1>3

LEMMA SafeHolds == Spec => []Safe
BY InitSafe, SafeStep, PTL DEF Spec

LEMMA HonestAnswers == ASSUME Honest PROVE \A r \in Answers : HonestReply(r)
BY DEF Honest, Answers

(* A search by a method that tools/list shows for an Orb                   *)
(* (registry_reader.rs, build_tools_from_manifest) is never refused by the *)
(* Orb's process as unsupported, and fails only for want of a vector that  *)
(* fits (search_knowledge, auto_fill_query_vector): whatever the packages, *)
(* the embedder and the order of the steps.                                *)
THEOREM ListedMethodsAnswered == Spec => []ListedMethodsAnswer
<1>1. Safe => ListedMethodsAnswer
  BY HonestAnswers DEF Safe, ListedMethodsAnswer, HonestReply, Sound
<1> QED
  BY <1>1, SafeHolds, PTL

(* What tools/list and resources/list name for an Orb with a slug of its   *)
(* own reaches that Orb (registry_reader.rs, router.rs), whatever child    *)
(* answers, and a document comes back under the URI it was asked for by.   *)
THEOREM ListedNamesRouted == Spec => []ListedNamesRoute
<1>1. Safe => ListedNamesRoute
  BY HonestAnswers DEF Safe, ListedNamesRoute, HonestReply
<1> QED
  BY <1>1, SafeHolds, PTL

-----------------------------------------------------------------------------
(* Calls whose lines are in a process's pipe, or that it works on.         *)
CallsAt(p) ==
  {line.call : line \in ToSet(pipe[p]) \ {Junk}} \cup (IF busy[p] = Idle THEN {} ELSE {busy[p].call})

(* While a process is up it loses no call but the one it answers.          *)
CallsKept(p) ==
  proc'[p] = "up" =>
    \A c \in CallsAt(p) :
      \/ c \in CallsAt(p)'
      \/ \A q \in Requests : pc[q] = "waiting" /\ target[q] = p /\ Call(q) = c => pc'[q] # "waiting"

LEMMA CallSteps ==
  ASSUME Typed, Placed, [Next]_vars
  PROVE  \A p \in ChildProcs : CallsKept(p)
<1> USE DEF Typed, ProcessesTyped
<1>0. ChildProcs \subseteq Procs /\ Web \notin ChildProcs
  BY ProcessConstants DEF Procs
<1>1. ASSUME NEW p \in Procs, pipe'[p] = pipe[p], busy'[p] = busy[p] PROVE CallsKept(p)
  BY <1>1 DEF CallsKept, CallsAt
<1>2. CASE UNCHANGED <<pipe, busy>>
  BY <1>0, <1>1, <1>2
<1>3. ASSUME NEW ps, Ended(ps) PROVE \A p \in ChildProcs : CallsKept(p)
  <2> SUFFICES ASSUME NEW p \in ChildProcs, p \in ps PROVE CallsKept(p)
    BY <1>0, <1>1, <1>3 DEF Ended
  <2>1. proc'[p] # "up"
    BY <1>0, <1>3 DEF Ended, Alive
  <2> QED
    BY <2>1 DEF CallsKept
<1>4. ASSUME NEW q \in Requests, Ensure(q) PROVE \A p \in ChildProcs : CallsKept(p)
  <2>1. CASE UNCHANGED processes
    BY <1>2, <2>1 DEF processes
  <2>2. CASE Launch(Call(q), Head(todo[q]).to.orb)
    <3>1. ASSUME NEW p \in ChildProcs, p = Call(q) PROVE CallsKept(p)
      BY <1>0, <2>2, <3>1 DEF Launch, CallsKept
    <3>2. ASSUME NEW p \in ChildProcs, p # Call(q) PROVE CallsKept(p)
      <4>1. pipe'[p] = pipe[p] /\ busy'[p] = busy[p]
        BY <1>0, <2>2, <3>2 DEF Launch
      <4> QED
        BY <1>0, <1>1, <4>1
    <3> QED
      BY <3>1, <3>2
  <2> QED
    BY <1>4, <2>1, <2>2 DEF Ensure
<1>5. ASSUME NEW q \in Requests, Started(q) \/ NotStarted(q) PROVE \A p \in ChildProcs : CallsKept(p)
  BY <1>2, <1>3, <1>5 DEF Started, NotStarted
<1>6. ASSUME NEW p \in Procs, ToSet(pipe[p]) \subseteq ToSet(pipe'[p]), busy' = busy,
             \A r \in Procs \ {p} : pipe'[r] = pipe[r]
      PROVE  \A r \in ChildProcs : CallsKept(r)
  <2>1. CallsKept(p)
    BY <1>6 DEF CallsKept, CallsAt
  <2> QED
    BY <1>0, <1>1, <1>6, <2>1
<1>7. ASSUME NEW p \in Procs, NEW lines, IsSequence(lines), pipe' = [pipe EXCEPT ![p] = @ \o lines], busy' = busy
      PROVE  \A r \in ChildProcs : CallsKept(r)
  <2>1. pipe'[p] = pipe[p] \o lines /\ IsSequence(pipe[p]) /\ \A r \in Procs \ {p} : pipe'[r] = pipe[r]
    BY <1>7
  <2>2. ToSet(pipe[p] \o lines) = ToSet(pipe[p]) \cup ToSet(lines)
    BY <1>7, <2>1, SeqConcat
  <2> QED
    BY <1>6, <1>7, <2>1, <2>2
<1>8. ASSUME NEW q \in Requests, Write(q) PROVE \A p \in ChildProcs : CallsKept(p)
  <2> DEFINE p == target[q]
             lines == Append(buffer[p], Line(q))
  <2>1. CASE UNCHANGED pipe
    BY <1>2, <1>8, <2>1 DEF Write
  <2>2. CASE pipe' = [pipe EXCEPT ![p] = @ \o Glued(p, lines)]
    <3>1. p \in Procs /\ IsSequence(buffer[p])
      BY <1>8 DEF Write, TasksTyped, TaskTyped, Procs, ChildrenTyped
    <3>2. IsSequence(lines) /\ lines # <<>>
      BY <3>1, SeqAppend, AppendNotEmpty
    <3> HIDE DEF lines, p
    <3>3. IsSequence(Glued(p, lines))
      BY <3>2, GluedFacts
    <3> QED
      BY <1>7, <1>8, <2>2, <3>1, <3>3 DEF Write
  <2> QED
    BY <1>8, <2>1, <2>2 DEF Write
<1>9. ASSUME NEW q \in Requests, Leave(q) PROVE \A p \in ChildProcs : CallsKept(p)
  <2> DEFINE p == target[q]
             lines == IF buffer[p] = <<>> THEN <<>> ELSE Glued(p, buffer[p])
  <2>1. CASE UNCHANGED <<pipe, busy>>
    BY <1>2, <2>1
  <2>2. CASE Ended({Call(q)})
    BY <1>3, <2>2
  <2>3. CASE pc[q] = "writing" /\ pipe' = [pipe EXCEPT ![p] = @ \o lines] /\ busy' = busy
    <3>1. p \in Procs /\ IsSequence(buffer[p])
      BY <2>3 DEF TasksTyped, TaskTyped, Procs, ChildrenTyped
    <3>2. IsSequence(lines)
      BY <3>1, GluedFacts, SeqNone
    <3> HIDE DEF lines, p
    <3> QED
      BY <1>7, <2>3, <3>1, <3>2
  <2> QED
    BY <1>9, <2>1, <2>2, <2>3 DEF Leave, CutLine, processes
<1>10. ASSUME NEW p \in Procs, Take(p) PROVE \A r \in ChildProcs : CallsKept(r)
  <2>1. ToSet(pipe[p]) = ToSet(Tail(pipe[p])) \cup {Head(pipe[p])}
    BY <1>10, SeqTail DEF Take
  <2>2. /\ pipe'[p] = Tail(pipe[p]) /\ busy[p] = Idle
        /\ \A r \in Procs \ {p} : pipe'[r] = pipe[r] /\ busy'[r] = busy[r]
    BY <1>10 DEF Take
  <2>3. Head(pipe[p]) = Junk \/ (busy'[p] # Idle /\ busy'[p].call = Head(pipe[p]).call)
    <3>1. CASE Head(pipe[p]) # Junk
      <4>1. busy'[p] = [call |-> Head(pipe[p]).call, item |-> Head(pipe[p]).item, stage |-> "serve", answer |-> "none"]
        BY <1>10, <3>1 DEF Take
      <4> QED
        BY <4>1 DEF Idle
    <3> QED
      BY <3>1
  <2>4. \A c \in CallsAt(p) : c \in CallsAt(p)'
    BY <2>1, <2>2, <2>3 DEF CallsAt
  <2>5. CallsKept(p)
    BY <2>4 DEF CallsKept
  <2> QED
    BY <1>0, <1>1, <2>2, <2>5
<1>11. ASSUME NEW p \in Procs, NEW stage, NEW w, stage # "idle", w.call = busy[p].call, w.stage = stage,
              busy' = [busy EXCEPT ![p] = w], pipe' = pipe
       PROVE  \A r \in ChildProcs : CallsKept(r)
  <2>1. busy'[p] = w /\ \A r \in Procs \ {p} : busy'[r] = busy[r]
    BY <1>11
  <2>2. busy'[p] # Idle
    BY <1>11, <2>1 DEF Idle
  <2>3. CallsKept(p)
    BY <1>11, <2>1, <2>2 DEF CallsKept, CallsAt
  <2> QED
    BY <1>0, <1>1, <1>11, <2>1, <2>3
<1>12. ASSUME NEW p \in Procs, busy[p] # Idle, NEW a, Answering(p, a), pipe' = pipe
       PROVE  \A r \in ChildProcs : CallsKept(r)
  <2> DEFINE w == [busy[p] EXCEPT !.stage = "answer", !.answer = a]
  <2>1. DOMAIN busy[p] = {"call", "item", "stage", "answer"}
    BY <1>12 DEF Work
  <2>2. w.call = busy[p].call /\ w.stage = "answer"
    BY <2>1
  <2>3. busy' = [busy EXCEPT ![p] = w]
    BY <1>12 DEF Answering
  <2> HIDE DEF w
  <2> QED
    BY <1>11, <1>12, <2>2, <2>3
<1>13. ASSUME NEW p \in Procs, NEW stage, busy[p] # Idle, stage # "idle", busy' = [busy EXCEPT ![p].stage = stage], pipe' = pipe
       PROVE  \A r \in ChildProcs : CallsKept(r)
  <2> DEFINE w == [busy[p] EXCEPT !.stage = stage]
  <2>1. DOMAIN busy[p] = {"call", "item", "stage", "answer"}
    BY <1>13 DEF Work
  <2>2. w.call = busy[p].call /\ w.stage = stage
    BY <2>1
  <2>3. busy' = [busy EXCEPT ![p] = w]
    BY <1>13
  <2> HIDE DEF w
  <2> QED
    BY <1>11, <1>13, <2>2, <2>3
<1>14. ASSUME NEW p \in Procs, Serve(p) PROVE \A r \in ChildProcs : CallsKept(r)
  <2>1. CASE \E a : Answering(p, a)
    BY <1>12, <1>14, <2>1 DEF Serve
  <2>2. CASE busy' = [busy EXCEPT ![p].stage = "record"]
    BY <1>13, <1>14, <2>2 DEF Serve
  <2>3. ASSUME NEW item, Search(p, item) PROVE (\E a : Answering(p, a)) \/ busy' = [busy EXCEPT ![p].stage = "record"]
    BY <2>3 DEF Search
  <2>4. ASSUME NEW item, CallTool(p, item) PROVE (\E a : Answering(p, a)) \/ busy' = [busy EXCEPT ![p].stage = "record"]
    BY <2>3, <2>4 DEF CallTool
  <2> QED
    BY <1>14, <2>1, <2>2, <2>4 DEF Serve
<1>15. ASSUME NEW p \in Procs, Record(p) \/ Sync(p) PROVE \A r \in ChildProcs : CallsKept(r)
  BY <1>12, <1>13, <1>15 DEF Record, Sync
<1>16. ASSUME NEW p \in Procs, Deliver(p) PROVE \A r \in ChildProcs : CallsKept(r)
  <2>1. CASE Ended({p})
    BY <1>3, <2>1
  <2>2. CASE /\ busy' = [busy EXCEPT ![p] = Idle] /\ pipe' = pipe
             /\ \/ ~\E q \in Requests : pc[q] = "waiting" /\ target[q] = p /\ Call(q) = busy[p].call
                \/ Goto(busy[p].call[1], "handling")
    <3>1. busy'[p] = Idle /\ \A r \in Procs \ {p} : busy'[r] = busy[r]
      BY <2>2
    <3>2. ASSUME NEW q \in Requests, pc[q] = "waiting" /\ target[q] = p /\ Call(q) = busy[p].call
          PROVE  pc'[q] = "handling"
      <4>1. busy[p].call[1] = q
        BY <3>2 DEF Call
      <4> QED
        BY <2>2, <3>2, <4>1 DEF Goto, TasksTyped
    <3>3. CallsKept(p)
      BY <2>2, <3>1, <3>2 DEF CallsKept, CallsAt
    <3> QED
      BY <1>0, <1>1, <2>2, <3>1, <3>3
  <2> QED
    BY <1>16, <2>1, <2>2 DEF Deliver, Answered
<1>17. CASE Ask
  <2>1. pipe' = pipe /\ \A r \in Procs \ {Web} : busy'[r] = busy[r]
    BY <1>17 DEF Ask
  <2> QED
    BY <1>0, <1>1, <2>1
<1>18. ASSUME NEW p \in Procs, Working(p) \/ Die(p) PROVE \A r \in ChildProcs : CallsKept(r)
  BY <1>3, <1>10, <1>14, <1>15, <1>16, <1>18 DEF Working, EndOfInput, Die
<1>19. CASE InputEnds \/ Shutdown \/ Exit \/ \E o \in Orbs : Reap(o)
  BY <1>3, <1>19 DEF InputEnds, Shutdown, Exit, Reap
<1>20. CASE WriterWrites \/ CloseInput \/ KillGateway \/ UNCHANGED vars
  BY <1>2, <1>20 DEF WriterWrites, CloseInput, KillGateway, vars, processes
<1>21. ASSUME NEW q \in Requests, Arrive(q) \/ AnswerOwn(q) \/ TakeLock(q) \/ GiveUp(q) \/ Finish(q) \/ Send(q)
       PROVE  \A p \in ChildProcs : CallsKept(p)
  BY <1>2, <1>21 DEF Arrive, AnswerOwn, TakeLock, GiveUp, Finish, Send, processes
<1> QED
  BY <1>4, <1>5, <1>8, <1>9, <1>17, <1>18, <1>19, <1>20, <1>21 DEF Next, TaskStep

(* A call comes to wait only by its line.                                  *)
Waits(q) == pc[q] = "waiting"

LEMMA WaitSteps ==
  ASSUME Typed, [Next]_vars
  PROVE  \A q \in Requests : Waits(q)' => (Waits(q) /\ target'[q] = target[q]) \/ Write(q)
<1> USE DEF Typed, TasksTyped
<1> SUFFICES ASSUME NEW q \in Requests, pc'[q] = "waiting", ~Write(q)
             PROVE  pc[q] = "waiting" /\ target'[q] = target[q]
  BY DEF Waits
<1>1. ASSUME NEW x \in Requests, NEW l, l # "waiting", Goto(x, l), x # q => target'[q] = target[q]
      PROVE  pc[q] = "waiting" /\ target'[q] = target[q]
  BY <1>1 DEF Goto
<1>2. ASSUME NEW x \in Requests, NEW a, NEW o, NEW u, Answered(x, a, o, u), UNCHANGED target
      PROVE  pc[q] = "waiting" /\ target'[q] = target[q]
  BY <1>1, <1>2 DEF Answered
<1>3. CASE UNCHANGED <<pc, target>>
  BY <1>3
<1>4. ASSUME NEW x \in Requests, Write(x) PROVE pc[q] = "waiting" /\ target'[q] = target[q]
  <2>1. CASE Answered(x, "unavailable", None, Nowhere)
    BY <1>2, <1>4, <2>1 DEF Write
  <2>2. CASE Goto(x, "waiting") /\ x # q
    BY <1>4, <2>2 DEF Write, Goto
  <2> QED
    BY <1>4, <2>1, <2>2 DEF Write
<1>5. ASSUME NEW x \in Requests, TakeLock(x) PROVE pc[q] = "waiting" /\ target'[q] = target[q]
  <2>1. CASE Answered(x, "unavailable", None, Nowhere) /\ UNCHANGED target
    BY <1>2, <2>1
  <2>2. CASE Goto(x, "writing") /\ (x # q => target'[q] = target[q])
    BY <1>1, <2>2
  <2> QED
    BY <1>5, <2>1, <2>2 DEF TakeLock
<1>6. ASSUME NEW x \in Requests, Arrive(x) \/ Finish(x) \/ Send(x) \/ Leave(x)
      PROVE  pc[q] = "waiting" /\ target'[q] = target[q]
  <2>1. UNCHANGED target
    BY <1>6 DEF Arrive, Finish, Send, Leave, tasks
  <2>2. \E l \in {"done", "sending", "handling", "left"} : Goto(x, l)
    BY <1>6 DEF Arrive, Finish, Send, Leave
  <2>3. \A l \in {"done", "sending", "handling", "left"} : l # "waiting"
    OBVIOUS
  <2> QED
    BY <1>1, <2>1, <2>2, <2>3
<1>7. ASSUME NEW x \in Requests, AnswerOwn(x) \/ Ensure(x) \/ Started(x) \/ NotStarted(x) \/ GiveUp(x)
      PROVE  pc[q] = "waiting" /\ target'[q] = target[q]
  BY <1>1, <1>2, <1>3, <1>7 DEF AnswerOwn, Ensure, Started, NotStarted, GiveUp
<1>8. ASSUME NEW p \in Procs, Working(p) PROVE pc[q] = "waiting" /\ target'[q] = target[q]
  <2>1. ASSUME NEW x \in Requests, Call(x) = busy[p].call PROVE busy[p].call[1] = x
    BY <2>1 DEF Call
  <2> QED
    BY <1>2, <1>3, <1>8, <2>1 DEF Working, Deliver, EndOfInput, tasks
<1>9. CASE Exit \/ KillGateway
  BY <1>9 DEF Exit, KillGateway, Cut
<1>10. CASE WriterWrites \/ CloseInput \/ Shutdown \/ (\E o \in Orbs : Reap(o)) \/ UNCHANGED vars
  BY <1>3, <1>10 DEF WriterWrites, CloseInput, Shutdown, Reap, vars, tasks
<1>11. CASE UNCHANGED tasks
  BY <1>3, <1>11 DEF tasks
<1> QED
  BY <1>4, <1>5, <1>6, <1>7, <1>8, <1>9, <1>10, <1>11 DEF Next, TaskStep

(* Calls that wait for a child that is up, of which it has no line.        *)
Doom(q) == pc[q] = "waiting" /\ proc[target[q]] = "up" /\ ~Coming(q)
Doomed == {q \in Requests : Doom(q)}

(* Every cut accounts for one call: given up, or doomed, or yet to be.     *)
CutsPaid == lost + Cardinality(Doomed) + Cardinality(half) <= cuts

(* A call is doomed only as it writes on half a line.                      *)
Spoils(q) == Write(q) /\ target[q] \in half /\ half' = half \ {target[q]} /\ UNCHANGED <<cuts, lost>>

LEMMA ComingIs ==
  ASSUME Typed, NEW q \in Requests, NEW p, target[q] = p
  PROVE  Coming(q) <=> Call(q) \in CallsAt(p)
BY DEF Coming, CallsAt

LEMMA DoomSteps ==
  ASSUME Typed, Placed, [Next]_vars, NEW q \in Requests, Doom(q)'
  PROVE  Doom(q) \/ Spoils(q)
<1> USE DEF Typed
<1> DEFINE p == target[q]
<1>1. pc'[q] = "waiting" /\ proc'[target'[q]] = "up" /\ ~Coming(q)'
  BY DEF Doom
<1>2. todo'[q] = todo[q] /\ Call(q)' = Call(q)
  <2>1. Arrivals(q)
    BY ArrivalSteps
  <2> QED
    BY <1>1, <2>1 DEF Arrivals, AtChild, Call
<1>3. CASE Write(q)
  <2> DEFINE lines == Append(buffer[p], Line(q))
  <2>1. p \in ChildProcs /\ p \in Procs /\ target' = target /\ busy' = busy
    BY <1>3 DEF Write, TasksTyped, TaskTyped, Procs
  <2>2. CASE Goto(q, "handling")
    BY <1>1, <2>2 DEF Goto, TasksTyped
  <2>3. CASE proc[p] = "up"
    <3>1. /\ pipe' = [pipe EXCEPT ![p] = @ \o Glued(p, lines)] /\ half' = half \ {p}
          /\ UNCHANGED <<cuts, lost>>
      BY <1>3, <2>3 DEF Write, Mended
    <3>2. CASE p \in half
      BY <1>3, <3>1, <3>2 DEF Spoils
    <3>3. CASE p \notin half
      <4>1. IsSequence(buffer[p]) /\ IsSequence(pipe[p])
        BY <2>1 DEF ChildrenTyped, ProcessesTyped
      <4>2. IsSequence(lines) /\ ToSet(lines) = ToSet(buffer[p]) \cup {Line(q)} /\ Glued(p, lines) = lines
        BY <3>3, <4>1, SeqAppend DEF Glued
      <4>3. pipe'[p] = pipe[p] \o lines
        BY <2>1, <3>1, <4>2 DEF ProcessesTyped
      <4> HIDE DEF lines
      <4>4. Line(q) \in ToSet(pipe'[p])
        BY <4>1, <4>2, <4>3, SeqConcat
      <4>5. Line(q) # Junk /\ Line(q).call = Call(q)
        BY DEF Line, Junk
      <4>6. Coming(q)'
        BY <1>2, <2>1, <4>4, <4>5 DEF Coming
      <4> QED
        BY <1>1, <4>6
    <3> QED
      BY <3>2, <3>3
  <2> QED
    BY <1>3, <2>2, <2>3 DEF Write, Answered
<1>4. CASE pc[q] = "waiting" /\ target'[q] = p
  <2>1. p \in ChildProcs /\ proc[p] \in {"up", "ended"}
    BY <1>4 DEF TasksTyped, TaskTyped, Placed, Aimed, Aiming
  <2>2. proc[p] = "up"
    BY <1>1, <1>4, <2>1, ProcSteps DEF ChildMoves
  <2>3. CallsKept(p)
    BY <2>1, CallSteps
  <2>4. ~Coming(q)
    <3> SUFFICES ASSUME Call(q) \in CallsAt(p) PROVE FALSE
      BY ComingIs
    <3>1. Call(q) \in CallsAt(p)'
      BY <1>1, <1>4, <2>3 DEF CallsKept
    <3>2. Coming(q)'
      BY <1>2, <1>4, <3>1 DEF Coming, CallsAt
    <3> QED
      BY <1>1, <3>2
  <2> QED
    BY <1>4, <2>2, <2>4 DEF Doom
<1> QED
  BY <1>1, <1>3, <1>4, WaitSteps DEF Waits

LEMMA ProcsFinite == IsFiniteSet(Procs)
<1>1. IsFiniteSet(1 .. MaxItems) /\ IsFiniteSet({Web})
  <2>1. \A a, b \in Int : IsFiniteSet(a .. b)
    BY FS_Interval, Zenon
  <2>2. MaxItems \in Int /\ 1 \in Int
    BY ProcessConstants
  <2> QED
    BY <2>1, <2>2, FS_Singleton
<1>2. IsFiniteSet(ChildProcs)
  BY <1>1, ProcessConstants, FS_Product DEF ChildProcs
<1> QED
  BY <1>1, <1>2, FS_Union DEF Procs

LEMMA Counts ==
  ASSUME Typed
  PROVE  /\ IsFiniteSet(Doomed) /\ Cardinality(Doomed) \in Nat
         /\ IsFiniteSet(half) /\ Cardinality(half) \in Nat
<1>1. IsFiniteSet(Doomed)
  BY ProcessConstants, FS_Subset DEF Doomed
<1>2. IsFiniteSet(half)
  BY ProcsFinite, FS_Subset DEF Typed, ChildrenTyped
<1> QED
  BY <1>1, <1>2, FS_CardinalityType

(* How the accounts move where no call is spoiled.                         *)
LEMMA LedgerSteps ==
  ASSUME Typed, [Next]_vars
  PROVE  \/ half' \subseteq half /\ cuts' = cuts /\ lost' = lost
         \/ cuts' = cuts + 1 /\ lost' = lost /\ \E p : half' = half \cup {p}
         \/ /\ half' = half /\ cuts' = cuts /\ lost' = lost + 1
            /\ \E q \in Requests : Doom(q) /\ pc'[q] = "handling"
<1> USE DEF Typed
<1>1. CASE UNCHANGED <<half, cuts, lost>>
  BY <1>1
<1>2. ASSUME NEW q \in Requests, GiveUp(q)
      PROVE  \/ UNCHANGED <<half, cuts, lost>>
             \/ half' = half /\ cuts' = cuts /\ lost' = lost + 1 /\ Doom(q) /\ pc'[q] = "handling"
  BY <1>2 DEF GiveUp, Doom, Answered, Goto, TasksTyped, ChildrenTyped
<1>3. ASSUME NEW q \in Requests, Write(q) PROVE half' \subseteq half /\ cuts' = cuts /\ lost' = lost
  BY <1>3 DEF Write, Mended
<1>4. ASSUME NEW q \in Requests, Leave(q)
      PROVE  UNCHANGED <<half, cuts, lost>> \/ (cuts' = cuts + 1 /\ lost' = lost /\ half' = half \cup {target[q]})
  BY <1>4 DEF Leave, CutLine
<1>5. ASSUME NEW q \in Requests, Arrive(q) \/ AnswerOwn(q) \/ Ensure(q) \/ Started(q) \/ NotStarted(q) \/ TakeLock(q)
                                 \/ Finish(q) \/ Send(q)
      PROVE  UNCHANGED <<half, cuts, lost>>
  BY <1>5 DEF Arrive, AnswerOwn, Ensure, Started, NotStarted, TakeLock, Finish, Send, children
<1>6. ASSUME NEW p \in Procs, Working(p) PROVE UNCHANGED <<half, cuts, lost>>
  BY <1>6 DEF Working, Deliver, EndOfInput, children
<1>7. CASE WriterWrites \/ CloseInput \/ Shutdown \/ Exit \/ KillGateway \/ (\E o \in Orbs : Reap(o)) \/ UNCHANGED vars
  BY <1>7 DEF WriterWrites, CloseInput, Shutdown, Exit, KillGateway, Reap, vars, children
<1>8. CASE UNCHANGED children
  BY <1>8 DEF children
<1> QED
  BY <1>1, <1>2, <1>3, <1>4, <1>5, <1>6, <1>7, <1>8 DEF Next, TaskStep

LEMMA CutsStep ==
  ASSUME Typed, Placed, CutsPaid, [Next]_vars
  PROVE  CutsPaid'
<1> DEFINE d == Cardinality(Doomed)
           e == Cardinality(Doomed')
           h == Cardinality(half)
           g == Cardinality(half')
<1>0. /\ IsFiniteSet(Doomed) /\ d \in Nat /\ IsFiniteSet(half) /\ h \in Nat
      /\ e \in Nat /\ g \in Nat /\ IsFiniteSet(Doomed')
      /\ cuts \in Nat /\ lost \in Nat /\ lost + d + h <= cuts
  <2>1. Typed'
    BY TypedStep
  <2>2. IsFiniteSet(Doomed') /\ IsFiniteSet(half')
    BY <2>1, ProcsFinite, ProcessConstants, FS_Subset DEF Doomed, Typed, ChildrenTyped
  <2>3. Cardinality(Doomed') \in Nat /\ Cardinality(half') \in Nat
    BY <2>2, FS_CardinalityType
  <2> QED
    BY <2>2, <2>3, Counts DEF CutsPaid, Typed, ChildrenTyped
<1>1. \A q \in Requests : q \in Doomed' => q \in Doomed \/ Spoils(q)
  BY DoomSteps DEF Doomed
<1>2. Doomed' \subseteq Requests
  BY DEF Doomed
<1>3. ASSUME NEW q \in Requests, Spoils(q) PROVE CutsPaid'
  <2>1. \A x \in Requests : Spoils(x) => x = q
    BY <1>3 DEF Spoils, Write, Typed, ChildrenTyped, GuardTyped
  <2>2. Doomed' \subseteq Doomed \cup {q}
    BY <1>1, <1>2, <2>1
  <2>3. e <= Cardinality(Doomed \cup {q}) /\ Cardinality(Doomed \cup {q}) \in {d, d + 1}
    BY <1>0, <2>2, FS_AddElement, FS_Subset
  <2>4. g = h - 1 /\ cuts' = cuts /\ lost' = lost
    BY <1>0, <1>3, FS_RemoveElement DEF Spoils
  <2> HIDE DEF d, e, h, g
  <2>5. lost' + e + g <= cuts'
    BY <1>0, <2>3, <2>4
  <2> QED
    BY <2>5 DEF CutsPaid, e, g
<1>4. CASE \A q \in Requests : ~Spoils(q)
  <2>1. Doomed' \subseteq Doomed
    BY <1>1, <1>2, <1>4
  <2>2. e <= d
    BY <1>0, <2>1, FS_Subset
  <2>3. CASE half' \subseteq half /\ cuts' = cuts /\ lost' = lost
    <3>1. g <= h
      BY <1>0, <2>3, FS_Subset
    <3> HIDE DEF d, e, h, g
    <3>2. lost' + e + g <= cuts'
      BY <1>0, <2>2, <2>3, <3>1
    <3> QED
      BY <3>2 DEF CutsPaid, e, g
  <2>4. ASSUME cuts' = cuts + 1, lost' = lost, NEW p, half' = half \cup {p} PROVE CutsPaid'
    <3>1. g \in {h, h + 1}
      BY <1>0, <2>4, FS_AddElement
    <3> HIDE DEF d, e, h, g
    <3>2. lost' + e + g <= cuts'
      BY <1>0, <2>2, <2>4, <3>1
    <3> QED
      BY <3>2 DEF CutsPaid, e, g
  <2>5. ASSUME half' = half, cuts' = cuts, lost' = lost + 1, NEW q \in Requests, Doom(q), pc'[q] = "handling" PROVE CutsPaid'
    <3>1. q \in Doomed /\ q \notin Doomed'
      BY <2>5 DEF Doomed, Doom
    <3>2. Doomed' \subseteq Doomed \ {q}
      BY <2>1, <3>1
    <3>3. e <= d - 1
      <4>1. IsFiniteSet(Doomed \ {q}) /\ Cardinality(Doomed \ {q}) = d - 1
        BY <1>0, <3>1, FS_RemoveElement
      <4> QED
        BY <3>2, <4>1, FS_Subset
    <3>4. g = h
      BY <2>5
    <3> HIDE DEF d, e, h, g
    <3>5. lost' + e + g <= cuts'
      BY <1>0, <2>5, <3>3, <3>4
    <3> QED
      BY <3>5 DEF CutsPaid, e, g
  <2> QED
    BY <2>3, <2>4, <2>5, LedgerSteps
<1> QED
  BY <1>3, <1>4

(* A client that leaves in the middle of a line costs at most one call of  *)
(* the others its answer.                                                  *)
THEOREM OneLost == Spec => []OneLostPerCut
<1>1. Init => CutsPaid
  <2> SUFFICES ASSUME Init PROVE CutsPaid
    OBVIOUS
  <2>1. Doomed = {}
    BY DEF Init, Doomed, Doom
  <2> QED
    BY <2>1, FS_EmptySet DEF Init, CutsPaid
<1>2. Safe /\ CutsPaid /\ [Next]_vars => CutsPaid'
  BY CutsStep DEF Safe
<1>3. Safe /\ CutsPaid => OneLostPerCut
  <2> SUFFICES ASSUME Safe, CutsPaid PROVE OneLostPerCut
    OBVIOUS
  <2>1. Cardinality(Doomed) \in Nat /\ Cardinality(half) \in Nat /\ lost \in Nat /\ cuts \in Nat
    BY Counts DEF Safe, Typed, ChildrenTyped
  <2> QED
    BY <2>1 DEF CutsPaid, OneLostPerCut
<1> QED
  BY <1>1, <1>2, <1>3, SafeHolds, PTL DEF Spec

-----------------------------------------------------------------------------
(* A process that has truncated its metrics file and not written it.       *)
Syncing(p) == busy[p] # Idle /\ busy[p].stage = "sync"

(* A step that neither starts nor ends a process, nor records or writes.   *)
Quiet ==
  /\ UNCHANGED <<orbOf, file, recorded, blurred>>
  /\ \A p \in Procs : /\ Alive(p)' <=> Alive(p)
                      /\ mem'[p].requests = mem[p].requests /\ mem'[p].history = mem[p].history
                      /\ Syncing(p) => Syncing(p)'

Starts(p) == proc[p] = "none" /\ \E o \in Orbs : Launch(p, o)

LEMMA QuietSame ==
  ASSUME UNCHANGED <<orbOf, file, recorded, blurred, mem>>,
         \A p \in Procs : (Alive(p)' <=> Alive(p)) /\ (Syncing(p) => busy'[p] = busy[p])
  PROVE  Quiet
BY DEF Quiet, Syncing

(* What a step does to the processes' metrics and their files.             *)
LEMMA DiskSteps ==
  ASSUME Typed, Placed, Occupied, [Next]_vars
  PROVE  \/ Quiet
         \/ \E ps \in SUBSET Procs : Ended(ps)
         \/ \E p \in Procs : Starts(p)
         \/ \E p \in Procs : Record(p) \/ Sync(p)
<1> DEFINE Told == \/ Quiet
                   \/ \E ps \in SUBSET Procs : Ended(ps)
                   \/ \E p \in Procs : Starts(p)
                   \/ \E p \in Procs : Record(p) \/ Sync(p)
<1> USE DEF Typed, ProcessesTyped
<1>0. /\ ChildProcs \subseteq Procs /\ Web \in Procs
      /\ \A q \in Requests : AtChild(q) => todo[q] # <<>>
  BY DEF Procs, TasksTyped, TaskTyped
<1>1. CASE UNCHANGED <<proc, orbOf, busy, mem, file, recorded, blurred>>
  BY <1>1 DEF Quiet, Alive, Syncing
<1>2. ASSUME NEW q \in Requests, Ensure(q) PROVE Told
  <2>1. CASE UNCHANGED processes
    BY <1>1, <2>1 DEF processes
  <2>2. CASE Launch(Call(q), Head(todo[q]).to.orb)
    <3>1. Call(q) \in ChildProcs /\ Head(todo[q]).to.orb \in Orbs /\ pc[q] = "handling"
      BY <1>2, CallTyped DEF Ensure, AtItem
    <3>2. proc[Call(q)] = "none"
      BY <3>1 DEF Placed, StartedOnce, Call, ChildProcs
    <3> QED
      BY <1>0, <2>2, <3>1, <3>2 DEF Starts
  <2> QED
    BY <1>2, <2>1, <2>2 DEF Ensure
<1>3. ASSUME NEW q \in Requests, Started(q) \/ NotStarted(q) \/ Leave(q) PROVE Told
  <2>1. pc[q] = "starting" => Call(q) \in Procs
    BY <1>0, CallTyped DEF AtChild
  <2>2. CASE pc[q] = "starting" /\ Ended({Call(q)})
    BY <2>1, <2>2
  <2>3. CASE Started(q) /\ proc' = [proc EXCEPT ![Call(q)] = "up"] /\ UNCHANGED <<orbOf, busy, mem, file, recorded, blurred>>
    <3>1. proc[Call(q)] = "starting"
      BY <2>3 DEF Started
    <3>2. \A p \in Procs : Alive(p)' <=> Alive(p)
      BY <2>3, <3>1 DEF Alive
    <3> QED
      BY <2>3, <3>2, QuietSame
  <2>4. CASE Leave(q) /\ UNCHANGED <<proc, orbOf, busy, mem, file, recorded, blurred>>
    BY <1>1, <2>4
  <2> QED
    BY <1>3, <2>2, <2>3, <2>4 DEF Started, NotStarted, Leave, processes
<1>4. ASSUME NEW p \in Procs, Take(p) \/ Serve(p) PROVE Told
  <2>1. UNCHANGED <<proc, orbOf, mem, file, recorded, blurred>> /\ ~Syncing(p)
    BY <1>4 DEF Take, Serve, Syncing
  <2>2. \A r \in Procs \ {p} : busy'[r] = busy[r]
    <3>1. CASE Take(p)
      BY <3>1 DEF Take
    <3>2. CASE Serve(p)
      BY <3>2 DEF Serve, CallTool, Search, Answering
    <3> QED
      BY <1>4, <3>1, <3>2
  <2> QED
    BY <2>1, <2>2, QuietSame DEF Alive
<1>5. ASSUME NEW p \in Procs, Deliver(p) PROVE Told
  <2>1. CASE Ended({p})
    BY <2>1
  <2>2. CASE busy' = [busy EXCEPT ![p] = Idle] /\ UNCHANGED <<proc, orbOf, mem, file, recorded, blurred>>
    <3>1. ~Syncing(p)
      BY <1>5 DEF Deliver, Syncing
    <3> QED
      BY <2>2, <3>1, QuietSame DEF Alive
  <2> QED
    BY <1>5, <2>1, <2>2 DEF Deliver
<1>6. ASSUME Ask PROVE Told
  <2>1. /\ UNCHANGED <<proc, orbOf, file, recorded, blurred>> /\ ~Syncing(Web)
        /\ \A r \in Procs \ {Web} : busy'[r] = busy[r] /\ mem'[r] = mem[r]
        /\ mem'[Web] = mem[Web] \/ mem'[Web] = CountedFirst(mem[Web], world.webItem)
    BY <1>0, <1>6 DEF Ask, Syncing
  <2>2. \A m \in Metrics : \A item : CountedFirst(m, item).requests = m.requests /\ CountedFirst(m, item).history = m.history
    BY DEF CountedFirst, Metrics
  <2>3. mem'[Web].requests = mem[Web].requests /\ mem'[Web].history = mem[Web].history
    BY <1>0, <2>1, <2>2
  <2> QED
    BY <2>1, <2>3 DEF Quiet, Alive, Syncing
<1>7. ASSUME NEW p \in Procs, Working(p) \/ Die(p) PROVE Told
  BY <1>4, <1>5, <1>7 DEF Working, EndOfInput, Die
<1>8. CASE InputEnds \/ \E o \in Orbs : Reap(o)
  <2>1. \A o \in Orbs : child[o] # None => child[o] \in Procs
    BY <1>0 DEF ChildrenTyped
  <2> QED
    BY <1>0, <1>8, <2>1 DEF InputEnds, Reap
<1>9. CASE Shutdown \/ Exit
  <2>1. {child[o] : o \in Orbs} \ {None} \in SUBSET Procs /\ {p \in ChildProcs : Alive(p)} \in SUBSET Procs
    BY <1>0 DEF ChildrenTyped
  <2> QED
    BY <1>9, <2>1 DEF Shutdown, Exit
<1>10. CASE WriterWrites \/ CloseInput \/ KillGateway \/ UNCHANGED vars
  BY <1>1, <1>10 DEF WriterWrites, CloseInput, KillGateway, vars, processes
<1>11. ASSUME NEW q \in Requests, Arrive(q) \/ AnswerOwn(q) \/ TakeLock(q) \/ Write(q) \/ GiveUp(q) \/ Finish(q) \/ Send(q)
       PROVE  Told
  BY <1>1, <1>11 DEF Arrive, AnswerOwn, TakeLock, Write, GiveUp, Finish, Send, processes
<1> QED
  BY <1>2, <1>3, <1>6, <1>7, <1>8, <1>9, <1>10, <1>11 DEF Next, TaskStep

(* As long as the processes of an Orb take turns and none is killed as it  *)
(* writes: there is at most one, it has counted what was recorded, and so  *)
(* has the file, unless that process is writing it.                        *)
At(p, o) == Alive(p) /\ orbOf[p] = o

Turns(o) == \A p, r \in Procs : At(p, o) /\ At(r, o) => p = r
Counted(o) == \A p \in Procs : At(p, o) => mem[p].requests = recorded[o]
Written(o) == IF file[o] = Torn THEN \E p \in Procs : Syncing(p) /\ orbOf[p] = o
              ELSE file[o].requests = recorded[o]

Disk == \A o \in Orbs \ blurred : Turns(o) /\ Counted(o) /\ Written(o)

LEMMA MetricsNotTorn == Torn \notin Metrics
BY DEF Torn, Metrics

LEMMA InitDisk == Init => Disk
<1> SUFFICES ASSUME Init PROVE Disk
  OBVIOUS
<1>1. \A o \in Orbs : Turns(o)
  BY DEF Init, Turns, At, Alive
<1>2. Zero.requests = 0 /\ Zero # Torn
  BY DEF Zero, Torn
<1>3. \A o \in Orbs : Counted(o) /\ Written(o)
  BY <1>2 DEF Init, Counted, Written
<1> QED
  BY <1>1, <1>3 DEF Disk

LEMMA DiskQuiet == ASSUME Disk, Quiet PROVE Disk'
<1> SUFFICES ASSUME NEW o \in Orbs \ blurred PROVE Turns(o)' /\ Counted(o)' /\ Written(o)'
  BY DEF Quiet, Disk
<1>1. Turns(o) /\ Counted(o) /\ Written(o)
  BY DEF Disk
<1>2. \A p \in Procs : At(p, o)' <=> At(p, o)
  BY DEF Quiet, At
<1>3. Turns(o)'
  BY <1>1, <1>2 DEF Turns
<1>4. Counted(o)'
  BY <1>1, <1>2 DEF Counted, Quiet
<1>5. Written(o)'
  BY <1>1 DEF Written, Quiet
<1> QED
  BY <1>3, <1>4, <1>5

LEMMA DiskEnded == ASSUME Disk, ProcessesTyped, NEW ps \in SUBSET Procs, Ended(ps) PROVE Disk'
<1> SUFFICES ASSUME NEW o \in Orbs, o \notin blurred' PROVE Turns(o)' /\ Counted(o)' /\ Written(o)'
  BY DEF Disk
<1>1. Turns(o) /\ Counted(o) /\ Written(o)
  BY DEF Disk, Ended
<1>2. \A p \in Procs : At(p, o)' => At(p, o) /\ p \notin ps
  BY DEF Ended, At, Alive
<1>3. \A p \in ps : Syncing(p) => orbOf[p] # o
  BY DEF Ended, Syncing
<1>4. \A p \in Procs \ ps : (Syncing(p)' <=> Syncing(p)) /\ mem'[p] = mem[p]
  BY DEF Ended, Syncing, ProcessesTyped
<1>5. Turns(o)'
  BY <1>1, <1>2 DEF Turns
<1>6. Counted(o)'
  BY <1>1, <1>2, <1>4 DEF Counted, Ended
<1>7. Written(o)'
  BY <1>1, <1>3, <1>4 DEF Written, Ended
<1> QED
  BY <1>5, <1>6, <1>7

LEMMA DiskStarts == ASSUME Disk, ProcessesTyped, Occupied, NEW p \in Procs, Starts(p) PROVE Disk'
<1>1. PICK n \in Orbs : Launch(p, n)
  BY DEF Starts
<1>2. proc[p] = "none"
  BY DEF Starts
<1> SUFFICES ASSUME NEW o \in Orbs, o \notin blurred' PROVE Turns(o)' /\ Counted(o)' /\ Written(o)'
  BY DEF Disk
<1>3. Turns(o) /\ Counted(o) /\ Written(o)
  BY <1>1 DEF Disk, Launch
<1>4. /\ \A r \in Procs \ {p} : (At(r, o)' <=> At(r, o)) /\ (Syncing(r)' <=> Syncing(r)) /\ mem'[r] = mem[r]
                                /\ orbOf'[r] = orbOf[r]
      /\ At(p, o)' <=> n = o
      /\ ~At(p, o) /\ ~Syncing(p)
  BY <1>1, <1>2 DEF Launch, At, Alive, Syncing, Occupied, ProcessesTyped
<1>5. n = o => \A r \in Procs \ {p} : ~At(r, o)
  BY <1>1 DEF Launch, At, Alive
<1>6. Turns(o)'
  BY <1>3, <1>4, <1>5 DEF Turns
<1>7. n = o => file[o] # Torn
  <2> SUFFICES ASSUME n = o, NEW r \in Procs, Syncing(r), orbOf[r] = o PROVE FALSE
    BY <1>3 DEF Written
  <2>1. At(r, o)
    BY DEF Occupied, Syncing, At, Alive
  <2> QED
    BY <1>4, <1>5, <2>1
<1>8. n = o => mem'[p] = file[o]
  BY <1>1, <1>2, <1>7 DEF Launch, WithFile, ProcessesTyped
<1>9. Counted(o)'
  BY <1>1, <1>3, <1>4, <1>7, <1>8 DEF Counted, Written, Launch
<1>10. Written(o)'
  BY <1>1, <1>2, <1>3, <1>4 DEF Written, Launch
<1> QED
  BY <1>6, <1>9, <1>10

(* Only the requests and the history of what is recorded matter here.      *)
LEMMA RecordedFields ==
  ASSUME NEW m \in Metrics, NEW t \in {"stdio", "http"}
  PROVE  /\ Recorded(m, t).requests = m.requests + 1
         /\ Recorded(m, t).history = LET all == Append(m.history, m.requests + 1) IN
                                     IF Len(all) > RingMax THEN Tail(all) ELSE all
<1> DEFINE all == Append(m.history, m.requests + 1)
           history == IF Len(all) > RingMax THEN Tail(all) ELSE all
           m1 == [m EXCEPT !.requests = m.requests + 1]
           m2 == [m1 EXCEPT !.searches = m1.searches + 1]
           m3 == [m2 EXCEPT ![t] = m2[t] + 1]
           m4 == [m3 EXCEPT !.history = history]
<1>1. Recorded(m, t) = [m EXCEPT !.requests = @ + 1, !.searches = @ + 1, ![t] = @ + 1, !.history = history]
  BY DEF Recorded
<1> HIDE DEF history
<1>2. Recorded(m, t) = m4
  BY <1>1
<1>3. m1 \in Metrics /\ m1.requests = m.requests + 1
  BY DEF Metrics
<1> HIDE DEF m1
<1>4. m2 \in Metrics /\ m2.requests = m1.requests
  BY <1>3 DEF Metrics
<1> HIDE DEF m2
<1>5. DOMAIN m3 = DOMAIN m2 /\ m3.requests = m2.requests
  BY <1>4 DEF Metrics
<1> HIDE DEF m3
<1>6. m4.requests = m3.requests /\ m4.history = history
  BY <1>4, <1>5 DEF Metrics
<1> QED
  BY <1>2, <1>3, <1>4, <1>5, <1>6 DEF history

LEMMA TransportIs == ASSUME world \in Worlds, NEW p PROVE (IF p = Web THEN "http" ELSE world.transport) \in {"stdio", "http"}
BY WorldsGiven

LEMMA DiskRecord == ASSUME Disk, Typed, NEW p \in Procs, Record(p) PROVE Disk'
<1> USE DEF Typed, ProcessesTyped
<1> SUFFICES ASSUME NEW o \in Orbs \ blurred PROVE Turns(o)' /\ Counted(o)' /\ Written(o)'
  BY DEF Disk, Record
<1>1. Turns(o) /\ Counted(o) /\ Written(o)
  BY DEF Disk
<1>2. \A r \in Procs : At(r, o)' <=> At(r, o)
  BY DEF Record, At, Alive
<1>3. Turns(o)'
  BY <1>1, <1>2 DEF Turns
<1>4. mem'[p].requests = mem[p].requests + 1 /\ orbOf[p] \in Orbs /\ Syncing(p)' /\ At(p, orbOf[p])
  <2>1. mem'[p] = Recorded(mem[p], IF p = Web THEN "http" ELSE world.transport)
    BY DEF Record
  <2>2. mem'[p].requests = mem[p].requests + 1
    BY <2>1, RecordedFields, TransportIs
  <2>3. busy'[p] = [busy[p] EXCEPT !.stage = "sync"] /\ DOMAIN busy[p] = {"call", "item", "stage", "answer"}
    BY DEF Record, Work
  <2>4. busy'[p].stage = "sync"
    BY <2>3
  <2> QED
    BY <2>2, <2>4 DEF Record, At, Alive, Syncing, Idle
<1>5. CASE orbOf[p] = o
  <2>1. recorded'[o] = recorded[o] + 1 /\ file'[o] = Torn /\ orbOf'[p] = o
    BY <1>5 DEF Record
  <2>2. \A r \in Procs : At(r, o) => r = p
    BY <1>1, <1>4, <1>5 DEF Turns
  <2>3. Counted(o)'
    BY <1>1, <1>2, <1>4, <1>5, <2>1, <2>2 DEF Counted
  <2>4. Written(o)'
    BY <1>4, <2>1 DEF Written
  <2> QED
    BY <1>3, <2>3, <2>4
<1>6. CASE orbOf[p] # o
  <2>1. recorded'[o] = recorded[o] /\ file'[o] = file[o] /\ orbOf' = orbOf
    BY <1>4, <1>6 DEF Record
  <2>2. \A r \in Procs \ {p} : mem'[r] = mem[r] /\ (Syncing(r) => Syncing(r)')
    BY DEF Record, Syncing
  <2>3. ~At(p, o)
    BY <1>6 DEF At
  <2>4. Counted(o)'
    BY <1>1, <1>2, <2>1, <2>2, <2>3 DEF Counted
  <2>5. Written(o)'
    BY <1>1, <1>6, <2>1, <2>2 DEF Written
  <2> QED
    BY <1>3, <2>4, <2>5
<1> QED
  BY <1>5, <1>6

LEMMA DiskSync == ASSUME Disk, Typed, NEW p \in Procs, Sync(p) PROVE Disk'
<1> USE DEF Typed, ProcessesTyped
<1> SUFFICES ASSUME NEW o \in Orbs \ blurred PROVE Turns(o)' /\ Counted(o)' /\ Written(o)'
  BY DEF Disk, Sync
<1>1. Turns(o) /\ Counted(o) /\ Written(o)
  BY DEF Disk
<1>2. \A r \in Procs : At(r, o)' <=> At(r, o)
  BY DEF Sync, At, Alive
<1>3. Turns(o)' /\ Counted(o)'
  BY <1>1, <1>2 DEF Turns, Counted, Sync
<1>4. CASE orbOf[p] = o
  <2>1. file'[o] = mem[p] /\ mem[p] # Torn /\ recorded'[o] = recorded[o] /\ At(p, o)
    BY <1>4, MetricsNotTorn DEF Sync, At, Alive
  <2> QED
    BY <1>1, <1>3, <2>1 DEF Counted, Written
<1>5. CASE orbOf[p] # o
  <2>1. \A r \in Procs \ {p} : Syncing(r) => Syncing(r)'
    BY DEF Sync, Syncing, Answering
  <2>2. file'[o] = file[o] /\ recorded'[o] = recorded[o] /\ orbOf' = orbOf
    BY <1>5 DEF Sync
  <2> QED
    BY <1>1, <1>3, <1>5, <2>1, <2>2 DEF Written
<1> QED
  BY <1>4, <1>5

LEMMA DiskStep == ASSUME Typed, Placed, Occupied, Disk, [Next]_vars PROVE Disk'
BY DiskSteps, DiskQuiet, DiskEnded, DiskStarts, DiskRecord, DiskSync DEF Typed

-----------------------------------------------------------------------------
(* A history holds the numbers of the last requests, in order.             *)
Ring(m) == Len(m.history) = Kept(m) /\ \A i \in 1 .. Len(m.history) : m.history[i] = m.requests - Len(m.history) + i

Rings == (\A p \in Procs : Ring(mem[p])) /\ \A o \in Orbs : file[o] # Torn => Ring(file[o])

LEMMA RingZero == Ring(Zero)
<1>1. Zero.requests = 0 /\ Zero.history = <<>> /\ Len(<<>>) = 0
  BY SeqNone DEF Zero
<1> QED
  BY <1>1, ProcessConstants DEF Ring, Kept

LEMMA RingSame == ASSUME NEW m, NEW n, m.requests = n.requests, m.history = n.history, Ring(m) PROVE Ring(n)
BY DEF Ring, Kept

(* The entry that is added is the next, and the one that goes the oldest.  *)
LEMMA RingRecorded ==
  ASSUME NEW m \in Metrics, NEW t \in {"stdio", "http"}, Ring(m)
  PROVE  Ring(Recorded(m, t))
<1> DEFINE h == m.history
           r == m.requests
           all == Append(h, r + 1)
           n == Recorded(m, t)
<1>1. h \in Seq(Nat) /\ r \in Nat /\ RingMax \in Nat \ {0}
  BY ProcessConstants DEF Metrics, Histories
<1>2. IsSequence(h) /\ Len(h) \in Nat
  BY <1>1, SeqIntro, SeqShape
<1>3. Len(h) = (IF r < RingMax THEN r ELSE RingMax) /\ \A i \in 1 .. Len(h) : h[i] = r - Len(h) + i
  BY DEF Ring, Kept
<1>4. IsSequence(all) /\ Len(all) = Len(h) + 1 /\ all[Len(h) + 1] = r + 1 /\ \A i \in 1 .. Len(h) : all[i] = h[i]
  BY <1>2, SeqAppend
<1>5. all # <<>>
  BY <1>2, AppendNotEmpty
<1>6. n.requests = r + 1 /\ n.history = IF Len(all) > RingMax THEN Tail(all) ELSE all
  BY RecordedFields
<1> HIDE DEF h, r, all, n
<1>7. \A i \in 1 .. Len(all) : all[i] = (r + 1) - Len(all) + i
  <2> SUFFICES ASSUME NEW i \in 1 .. Len(h) + 1 PROVE all[i] = (r + 1) - (Len(h) + 1) + i
    BY <1>4
  <2>1. CASE i = Len(h) + 1
    BY <1>1, <1>2, <1>4, <2>1
  <2>2. CASE i \in 1 .. Len(h)
    <3>1. all[i] = r - Len(h) + i
      BY <1>3, <1>4, <2>2
    <3> QED
      BY <1>1, <1>2, <2>2, <3>1
  <2> QED
    BY <1>2, <2>1, <2>2
<1>8. CASE Len(all) <= RingMax
  <2>1. n.history = all /\ Len(h) = r /\ r + 1 <= RingMax
    BY <1>1, <1>2, <1>3, <1>4, <1>6, <1>8
  <2>2. Len(n.history) = Kept(n)
    BY <1>1, <1>4, <1>6, <2>1 DEF Kept
  <2>3. \A i \in 1 .. Len(n.history) : n.history[i] = n.requests - Len(n.history) + i
    BY <1>6, <1>7, <2>1
  <2> QED
    BY <2>2, <2>3 DEF Ring, n
<1>9. CASE Len(all) > RingMax
  <2>1. n.history = Tail(all) /\ Len(h) = RingMax /\ r >= RingMax
    BY <1>1, <1>2, <1>3, <1>4, <1>6, <1>9
  <2>2. Len(Tail(all)) = RingMax /\ \A i \in 1 .. RingMax : Tail(all)[i] = all[i + 1]
    <3>1. Len(Tail(all)) = Len(all) - 1 /\ \A i \in 1 .. Len(all) - 1 : Tail(all)[i] = all[i + 1]
      BY <1>4, <1>5, SeqTail
    <3>2. Len(all) - 1 = RingMax
      BY <1>1, <1>4, <2>1
    <3> QED
      BY <3>1, <3>2
  <2>3. Len(n.history) = Kept(n)
    BY <1>1, <1>6, <2>1, <2>2 DEF Kept
  <2>4. ASSUME NEW i \in 1 .. RingMax PROVE Tail(all)[i] = (r + 1) - RingMax + i
    <3>1. i + 1 \in 1 .. Len(all) /\ Len(all) = RingMax + 1 /\ i \in Int
      BY <1>1, <1>4, <2>1
    <3>2. all[i + 1] = (r + 1) - (RingMax + 1) + (i + 1)
      BY <1>7, <3>1
    <3> QED
      BY <1>1, <2>2, <3>1, <3>2
  <2>5. \A i \in 1 .. Len(n.history) : n.history[i] = n.requests - Len(n.history) + i
    BY <1>6, <2>1, <2>2, <2>4
  <2> QED
    BY <2>3, <2>5 DEF Ring, n
<1> QED
  BY <1>1, <1>2, <1>4, <1>8, <1>9 DEF n

LEMMA InitRings == Init => Rings
BY RingZero DEF Init, Rings

LEMMA RingsStep == ASSUME Typed, Placed, Occupied, Rings, [Next]_vars PROVE Rings'
<1> USE DEF Typed, ProcessesTyped
<1> SUFFICES /\ \A p \in Procs : Ring(mem'[p])
             /\ \A o \in Orbs : file'[o] # Torn => Ring(file'[o])
  BY DEF Rings, Ring, Kept
<1>1. CASE Quiet
  <2>1. \A p \in Procs : mem[p].requests = mem'[p].requests /\ mem[p].history = mem'[p].history /\ Ring(mem[p])
    BY <1>1 DEF Quiet, Rings
  <2>2. \A p \in Procs : Ring(mem'[p])
    BY <2>1, RingSame
  <2> QED
    BY <1>1, <2>2 DEF Quiet, Rings
<1>2. ASSUME NEW ps \in SUBSET Procs, Ended(ps)
      PROVE  (\A p \in Procs : Ring(mem'[p])) /\ \A o \in Orbs : file'[o] # Torn => Ring(file'[o])
  BY <1>2, RingZero DEF Ended, Rings
<1>3. ASSUME NEW p \in Procs, Starts(p)
      PROVE  (\A r \in Procs : Ring(mem'[r])) /\ \A o \in Orbs : file'[o] # Torn => Ring(file'[o])
  <2>1. PICK o \in Orbs : Launch(p, o)
    BY <1>3 DEF Starts
  <2>2. Ring(WithFile(file[o]))
    BY RingZero DEF WithFile, Rings
  <2> QED
    BY <2>1, <2>2 DEF Launch, Rings
<1>4. ASSUME NEW p \in Procs, Record(p)
      PROVE  (\A r \in Procs : Ring(mem'[r])) /\ \A o \in Orbs : file'[o] # Torn => Ring(file'[o])
  <2>1. Ring(Recorded(mem[p], IF p = Web THEN "http" ELSE world.transport))
    BY RingRecorded, TransportIs DEF Rings
  <2>2. \A r \in Procs : Ring(mem'[r])
    BY <1>4, <2>1 DEF Record, Rings
  <2> QED
    BY <1>4, <2>2 DEF Record, Rings
<1>5. ASSUME NEW p \in Procs, Sync(p)
      PROVE  (\A r \in Procs : Ring(mem'[r])) /\ \A o \in Orbs : file'[o] # Torn => Ring(file'[o])
  BY <1>5 DEF Sync, Rings
<1> QED
  BY <1>1, <1>2, <1>3, <1>4, <1>5, DiskSteps

-----------------------------------------------------------------------------
(* Pages of s entries each hold n entries between them, the last not       *)
(* beginning after them.                                                   *)
LEMMA PagesHold ==
  ASSUME NEW n \in Nat, NEW s \in Nat \ {0}, NEW pages, pages = IF n = 0 THEN 1 ELSE (n + s - 1) \div s
  PROVE  /\ pages \in Nat /\ n <= pages * s
         /\ \A page \in 1 .. pages : (page - 1) * s \in Nat /\ (IF n = 0 THEN (page - 1) * s = 0 ELSE (page - 1) * s < n)
<1>1. \A a, b \in Nat : a <= b => a * s <= b * s
  OBVIOUS
<1>2. \A a \in Nat : (a + 1) * s = a * s + s /\ a * s \in Nat
  OBVIOUS
<1>3. CASE n = 0
  BY <1>2, <1>3
<1>4. CASE n # 0
  <2>1. n + s - 1 \in Nat /\ pages = (n + s - 1) \div s
    BY <1>4
  <2>2. pages \in Nat /\ pages * s <= n + s - 1 /\ n + s - 1 < pages * s + s
    BY <2>1
  <2>3. ASSUME NEW page \in 1 .. pages PROVE (page - 1) * s \in Nat /\ (page - 1) * s < n
    <3> DEFINE a == page - 1
    <3>1. a \in Nat /\ a + 1 <= pages
      BY <2>2
    <3> HIDE DEF a
    <3>2. (a + 1) * s <= pages * s /\ (a + 1) * s = a * s + s /\ a * s \in Nat /\ pages * s \in Nat
      BY <1>1, <1>2, <2>2, <3>1
    <3>3. a * s < n
      BY <2>2, <3>2
    <3> QED
      BY <3>2, <3>3 DEF a
  <2>4. n <= pages * s
    BY <1>2, <2>2
  <2> QED
    BY <1>4, <2>2, <2>3, <2>4
<1> QED
  BY <1>3, <1>4

LEMMA Reversed ==
  ASSUME NEW h, IsSequence(h)
  PROVE  /\ IsSequence(Reverse(h)) /\ Len(Reverse(h)) = Len(h)
         /\ \A i \in 1 .. Len(h) : Reverse(h)[i] = h[Len(h) - i + 1]
<1>1. Len(h) \in Nat /\ \A i \in 1 .. Len(h) : h[i] \in ToSet(h)
  BY SeqShape
<1>2. \A i \in 1 .. Len(h) : Len(h) - i + 1 \in 1 .. Len(h)
  BY <1>1
<1>3. Reverse(h) = [i \in 1 .. Len(h) |-> h[(Len(h) - i) + 1]]
  BY DEF Reverse
<1>4. Reverse(h) \in [1 .. Len(h) -> ToSet(h)]
  BY <1>1, <1>2, <1>3
<1>5. Reverse(h) \in Seq(ToSet(h)) /\ Len(Reverse(h)) = Len(h)
  BY <1>1, <1>4, LenProperties
<1> QED
  BY <1>3, <1>5, SeqIntro

(* A page of a history in order.                                           *)
LEMMA PageIs ==
  ASSUME NEW m \in Metrics, Ring(m), NEW size \in 1 .. RingMax, NEW page \in 1 .. TotalPages(m.history, size)
  PROVE  LET Left == Kept(m) - (page - 1) * size IN
         Page(m.history, page, size) =
           [i \in 1 .. (IF Left < size THEN Left ELSE size) |-> m.requests - (page - 1) * size - i + 1]
<1> DEFINE h == m.history
           r == m.requests
           n == Len(h)
           pages == TotalPages(h, size)
           start == (page - 1) * size
           left == n - start
           c == IF left < size THEN left ELSE size
           last == IF start + size < n THEN start + size ELSE n
           newest == Reverse(h)
           shown == SubSeq(newest, start + 1, last)
           meant == [i \in 1 .. c |-> r - start - i + 1]
<1>1. IsSequence(h) /\ n \in Nat /\ r \in Nat /\ n = Kept(m) /\ \A i \in 1 .. n : h[i] = r - n + i
  <2>1. h \in Seq(Nat) /\ r \in Nat
    BY DEF Metrics, Histories
  <2>2. IsSequence(h) /\ n \in Nat
    BY <2>1, SeqIntro, SeqShape
  <2> QED
    BY <2>1, <2>2 DEF Ring
<1>2. size \in Nat \ {0}
  BY ProcessConstants
<1>3. IsSequence(newest) /\ Len(newest) = n /\ \A i \in 1 .. n : newest[i] = h[n - i + 1]
  BY <1>1, Reversed
<1>4. pages = IF n = 0 THEN 1 ELSE (n + size - 1) \div size
  BY <1>1, SeqEmpty DEF TotalPages
<1>5. Page(h, page, size) = shown
  BY <1>3 DEF Page
<1> HIDE DEF h, r, n, pages, newest
<1>6. start \in Nat /\ (IF n = 0 THEN start = 0 ELSE start < n)
  <2>1. page \in 1 .. pages
    BY DEF pages, h
  <2> QED
    BY <1>1, <1>2, <1>4, <2>1, PagesHold
<1> HIDE DEF start
<1>7. c \in Nat /\ last \in Nat /\ last <= n /\ last = start + c
  BY <1>1, <1>2, <1>6
<1> HIDE DEF c, last
<1>8. IsSequence(shown) /\ Len(shown) = c /\ \A i \in 1 .. c : shown[i] = newest[start + i]
  <2>1. /\ IsSequence(shown) /\ Len(shown) = IF start + 1 <= last THEN last - (start + 1) + 1 ELSE 0
        /\ \A i \in 1 .. last - (start + 1) + 1 : shown[i] = newest[start + 1 + i - 1]
    <3>1. start + 1 \in Nat \ {0} /\ last <= Len(newest)
      BY <1>3, <1>6, <1>7
    <3> DEFINE first == start + 1
    <3>2. first \in Nat \ {0} /\ last \in Nat /\ last <= Len(newest) /\ IsSequence(newest)
      BY <1>3, <1>7, <3>1
    <3>3. shown = SubSeq(newest, first, last)
      OBVIOUS
    <3> HIDE DEF first, shown
    <3>4. /\ IsSequence(SubSeq(newest, first, last))
          /\ Len(SubSeq(newest, first, last)) = IF first <= last THEN last - first + 1 ELSE 0
          /\ \A i \in 1 .. last - first + 1 : SubSeq(newest, first, last)[i] = newest[first + i - 1]
      BY <3>2, SeqSub
    <3> QED
      BY <3>3, <3>4 DEF first
  <2>2. last - (start + 1) + 1 = c /\ \A i \in 1 .. c : start + 1 + i - 1 = start + i
    BY <1>6, <1>7
  <2>3. Len(shown) = c
    BY <1>6, <1>7, <2>1
  <2> HIDE DEF shown
  <2> QED
    BY <2>1, <2>2, <2>3
<1> HIDE DEF shown
<1>9. \A i \in 1 .. c : shown[i] = r - start - i + 1
  <2> SUFFICES ASSUME NEW i \in 1 .. c PROVE shown[i] = r - start - i + 1
    OBVIOUS
  <2>1. start + i \in 1 .. n
    BY <1>1, <1>6, <1>7
  <2>2. n - (start + i) + 1 \in 1 .. n
    BY <1>1, <2>1
  <2>3. newest[start + i] = r - n + (n - (start + i) + 1)
    BY <1>1, <1>3, <2>1, <2>2
  <2>4. r - n + (n - (start + i) + 1) = r - start - i + 1
    BY <1>1, <1>6, <1>7
  <2> QED
    BY <1>8, <2>3, <2>4
<1>10. IsSequence(meant) /\ Len(meant) = c /\ \A i \in 1 .. c : meant[i] = r - start - i + 1
  <2>1. meant \in [1 .. c -> Int]
    BY <1>1, <1>6, <1>7
  <2>2. meant \in Seq(Int) /\ Len(meant) = c
    BY <1>7, <2>1, LenProperties
  <2> QED
    BY <2>2, SeqIntro
<1>11. shown = meant
  <2> HIDE DEF meant
  <2> QED
    BY <1>8, <1>9, <1>10, SeqSame
<1>12. Page(h, page, size) = [i \in 1 .. (IF Kept(m) - (page - 1) * size < size THEN Kept(m) - (page - 1) * size ELSE size)
                                |-> m.requests - (page - 1) * size - i + 1]
  <2>1. [i \in 1 .. (IF Kept(m) - start < size THEN Kept(m) - start ELSE size) |-> r - start - i + 1] = meant
    BY <1>1 DEF c
  <2> QED
    BY <1>5, <1>11, <2>1 DEF start, r
<1> QED
  BY <1>12 DEF h

LEMMA RingsPages == ASSUME Typed, Rings PROVE PagesCover
<1> SUFFICES ASSUME NEW p \in Procs, NEW size \in 1 .. RingMax
             PROVE  LET m == mem[p]
                        pages == TotalPages(m.history, size)
                        Left(page) == Kept(m) - (page - 1) * size
                    IN /\ \A page \in 1 .. pages :
                            Page(m.history, page, size) =
                              [i \in 1 .. (IF Left(page) < size THEN Left(page) ELSE size)
                                 |-> m.requests - (page - 1) * size - i + 1]
                       /\ Left(pages + 1) <= 0
  BY DEF PagesCover
<1> DEFINE m == mem[p]
           h == m.history
           pages == TotalPages(h, size)
<1>1. m \in Metrics /\ Ring(m)
  BY DEF Typed, ProcessesTyped, Rings
<1> HIDE DEF m
<1>2. IsSequence(h) /\ Len(h) \in Nat /\ Len(h) = Kept(m)
  <2>1. h \in Seq(Nat)
    BY <1>1 DEF Metrics, Histories
  <2> QED
    BY <1>1, <2>1, SeqIntro, SeqShape DEF Ring
<1>3. size \in Nat \ {0} /\ pages = IF Len(h) = 0 THEN 1 ELSE (Len(h) + size - 1) \div size
  BY <1>2, ProcessConstants, SeqEmpty DEF TotalPages
<1> HIDE DEF h, pages
<1>4. pages \in Nat /\ Len(h) <= pages * size
  BY <1>2, <1>3, PagesHold
<1>5. Kept(m) - ((pages + 1) - 1) * size <= 0
  <2>1. (pages + 1) - 1 = pages /\ pages * size \in Int
    BY <1>3, <1>4
  <2> QED
    BY <1>2, <1>4, <2>1
<1>6. \A page \in 1 .. TotalPages(m.history, size) :
        Page(m.history, page, size) =
          [i \in 1 .. (IF Kept(m) - (page - 1) * size < size THEN Kept(m) - (page - 1) * size ELSE size)
             |-> m.requests - (page - 1) * size - i + 1]
  BY <1>1, PageIs
<1> QED
  BY <1>5, <1>6 DEF pages, h, m

(* What is shown counts what was recorded, and pages show what is kept     *)
(* (metrics.rs, record_search, sync_to_disk, get_qa_history).              *)
THEOREM MetricsRight == Spec => []MetricsKept
<1>1. Init => Disk /\ Rings
  BY InitDisk, InitRings
<1>2. Safe /\ Disk /\ Rings /\ [Next]_vars => Disk' /\ Rings'
  BY DiskStep, RingsStep DEF Safe
<1>3. Safe /\ Disk /\ Rings => MetricsKept
  <2> SUFFICES ASSUME Safe, Disk, Rings PROVE MetricsKept
    OBVIOUS
  <2>1. PagesCover
    BY RingsPages DEF Safe
  <2>2. ASSUME NEW o \in Orbs \ blurred PROVE Shown(o) = recorded[o] \/ (file[o] = Torn /\ ~WebServes(o))
    <3>1. Counted(o) /\ Written(o) /\ Web \in Procs
      BY DEF Disk, Procs
    <3>2. CASE file[o] # Torn
      BY <3>1, <3>2 DEF Written, Shown
    <3>3. CASE file[o] = Torn /\ WebServes(o)
      <4>1. At(Web, o)
        BY <3>3 DEF WebServes, At, Alive
      <4> QED
        BY <3>1, <3>3, <4>1 DEF Counted, Shown
    <3> QED
      BY <3>2, <3>3
  <2> QED
    BY <2>1, <2>2 DEF MetricsKept, ShownCounts
<1> QED
  BY <1>1, <1>2, <1>3, SafeHolds, PTL DEF Spec
-----------------------------------------------------------------------------
(* What a search has found is fused as it should be.                       *)
Dominant(search) == WellFused(search.rank, Hits(search), search.k)

LEMMA RankersAre ==
  ASSUME NEW pack, NEW m, NEW v
  PROVE  /\ IsFiniteSet(Rankers(pack, m, v))
         /\ ~Fuses(pack, m, v) => \E r : Rankers(pack, m, v) = {r}
<1>1. Rankers(pack, m, v) \subseteq {"bm25", "tfidf", "trigram", "flat", "hnsw", m}
  BY DEF Rankers, Lexical, Dense
<1>2. IsFiniteSet({"bm25", "tfidf", "trigram", "flat", "hnsw", m})
  <2>1. \A S, x : IsFiniteSet(S) => IsFiniteSet(S \cup {x})
    BY FS_AddElement
  <2>2. IsFiniteSet({} \cup {"bm25"} \cup {"tfidf"} \cup {"trigram"} \cup {"flat"} \cup {"hnsw"} \cup {m})
    BY <2>1, FS_EmptySet
  <2>3. {"bm25", "tfidf", "trigram", "flat", "hnsw", m}
        = {} \cup {"bm25"} \cup {"tfidf"} \cup {"trigram"} \cup {"flat"} \cup {"hnsw"} \cup {m}
    OBVIOUS
  <2> QED
    BY <2>2, <2>3
<1>3. ~Fuses(pack, m, v) => \E r : Rankers(pack, m, v) = {r}
  BY DEF Fuses, Rankers
<1> QED
  BY <1>1, <1>2, <1>3, FS_Subset

(* Whatever the rankers answer, if each answers as it may.                 *)
LEMMA SearchDominant ==
  ASSUME NEW pack, NEW m, NEW v, NEW k \in Nat, NEW rank, DOMAIN rank = Rankers(pack, m, v),
         \A r \in DOMAIN rank : rank[r] \in Rankings(r, k)
  PROVE  Dominant([rank |-> rank, k |-> k, fused |-> Fuses(pack, m, v)])
<1> DEFINE fused == Fuses(pack, m, v)
           search == [rank |-> rank, k |-> k, fused |-> fused]
<1>1. \A r \in DOMAIN rank : \E n \in 0 .. k : n \in 0 .. Cardinality(Chunks) /\ rank[r] \in RankingsOf(n)
  BY RankingsAre
<1> SUFFICES Dominant(search)
  OBVIOUS
<1>2. CASE fused
  <2>1. AreRankings(rank)
    <3>1. IsFiniteSet(DOMAIN rank)
      BY RankersAre
    <3>2. \A r \in DOMAIN rank : \E n \in 0 .. Cardinality(Chunks) : rank[r] \in RankingsOf(n)
      BY <1>1
    <3> QED
      BY <3>1, <3>2 DEF AreRankings
  <2>2. WellFused(rank, RrfFuse(rank, k), k)
    BY <2>1, FusionWell
  <2>3. /\ Hits(search) = RrfFuse(rank, k)
        /\ search.rank = rank /\ search.k = k
    BY <1>2 DEF Hits
  <2>4. Dominant(search) <=> WellFused(search.rank, Hits(search), search.k)
    BY DEF Dominant
  <2> HIDE DEF search
  <2> QED
    BY <2>2, <2>3, <2>4
<1>3. CASE ~fused
  <2>1. PICK r : DOMAIN rank = {r}
    BY <1>3, RankersAre
  <2>2. PICK n \in 0 .. k : rank[r] \in RankingsOf(n)
    BY <1>1, <2>1
  <2>3. WellFused(rank, CHOOSE l \in Range(rank) : TRUE, k)
    BY <2>1, <2>2, SingleWell
  <2>4. Hits(search) = CHOOSE l \in Range(rank) : TRUE
    BY <1>3 DEF Hits
  <2> QED
    BY <2>3, <2>4 DEF Dominant
<1> QED
  BY <1>2, <1>3

(* A search is found as Search says, and kept until it is recorded.        *)
FoundMoves(p) == found'[p] \in {found[p], None} \/ Dominant(found'[p])

LEMMA ServeFound ==
  ASSUME Typed, Carried, NEW p \in Procs, Serve(p)
  PROVE  \A r \in Procs : FoundMoves(r)
<1>1. CASE UNCHANGED found
  BY <1>1 DEF FoundMoves
<1>2. ASSUME busy[p].item.kind = "search", Search(p, busy[p].item), found' # found PROVE \A r \in Procs : FoundMoves(r)
  <2> DEFINE item == busy[p].item
             pack == Package(p)
  <2>1. item.topK \in Nat
    <3>1. PICK held \in Held(p) : held = <<busy[p].call, item>>
      BY DEF Serve, Held
    <3>2. held[2] = item /\ Wellformed(held[2])
      BY <3>1 DEF Carried
    <3> QED
      BY <1>2, <3>2 DEF Wellformed
  <2>2. PICK m, v, rank :
          /\ DOMAIN rank = Rankers(pack, m, v)
          /\ \A r \in DOMAIN rank : rank[r] \in Rankings(r, item.topK)
          /\ found' = [found EXCEPT ![p] = [rank |-> rank, k |-> item.topK, fused |-> Fuses(pack, m, v)]]
    <3>1. PICK prepared \in AutoFill(pack, item.method, item.vector, world.embedder) :
            \E rank \in [Rankers(pack, prepared.method, prepared.vector)
                        -> UNION {Rankings(r, item.topK) : r \in Rankers(pack, prepared.method, prepared.vector)}] :
              /\ found' = [found EXCEPT ![p] = [rank |-> rank, k |-> item.topK,
                                                fused |-> Fuses(pack, prepared.method, prepared.vector)]]
              /\ \A r \in DOMAIN rank : rank[r] \in Rankings(r, item.topK)
      BY <1>2 DEF Search
    <3> HIDE DEF item, pack
    <3> QED
      BY <3>1
  <2>3. Dominant([rank |-> rank, k |-> item.topK, fused |-> Fuses(pack, m, v)])
    BY <2>1, <2>2, SearchDominant
  <2> HIDE DEF item, pack
  <2>4. DOMAIN found = Procs
    BY DEF Typed, ProcessesTyped
  <2>5. Dominant(found'[p]) /\ \A r \in Procs \ {p} : found'[r] = found[r]
    BY <2>2, <2>3, <2>4
  <2> QED
    BY <2>5 DEF FoundMoves
<1> QED
  BY <1>1, <1>2 DEF Serve, CallTool

LEMMA FoundSteps ==
  ASSUME Typed, Carried, [Next]_vars
  PROVE  \A p \in Procs : FoundMoves(p)
<1> USE DEF Typed, ProcessesTyped
<1>1. CASE UNCHANGED found
  BY <1>1 DEF FoundMoves
<1>2. ASSUME NEW ps, Ended(ps) PROVE \A p \in Procs : FoundMoves(p)
  BY <1>2 DEF Ended, FoundMoves
<1>3. ASSUME NEW p \in Procs, found' = [found EXCEPT ![p] = None] PROVE \A r \in Procs : FoundMoves(r)
  BY <1>3 DEF FoundMoves
<1>4. ASSUME NEW q \in Requests, Ensure(q) PROVE \A p \in Procs : FoundMoves(p)
  <2>1. CASE UNCHANGED processes
    BY <1>1, <2>1 DEF processes
  <2>2. CASE Launch(Call(q), Head(todo[q]).to.orb)
    <3>1. \A p \in Procs : found'[p] \in {found[p], None}
      BY <2>2 DEF Launch
    <3> QED
      BY <3>1 DEF FoundMoves
  <2> QED
    BY <1>4, <2>1, <2>2 DEF Ensure
<1>5. ASSUME NEW q \in Requests, Started(q) \/ NotStarted(q) \/ Leave(q) \/ Write(q) PROVE \A p \in Procs : FoundMoves(p)
  BY <1>1, <1>2, <1>5, Zenon DEF Started, NotStarted, Leave, Write, processes
<1>6. ASSUME NEW p \in Procs, Working(p) PROVE \A r \in Procs : FoundMoves(r)
  <2>1. CASE Record(p)
    BY <1>3, <2>1 DEF Record
  <2>2. CASE Serve(p)
    BY <2>2, ServeFound
  <2>3. CASE Take(p) \/ Sync(p) \/ Deliver(p) \/ EndOfInput(p)
    BY <1>1, <1>2, <2>3 DEF Take, Sync, Deliver, EndOfInput
  <2> QED
    BY <1>6, <2>1, <2>2, <2>3 DEF Working
<1>7. ASSUME NEW p \in Procs, Die(p) PROVE \A r \in Procs : FoundMoves(r)
  BY <1>2, <1>7 DEF Die
<1>8. CASE InputEnds \/ Shutdown \/ Exit \/ \E o \in Orbs : Reap(o)
  BY <1>2, <1>8 DEF InputEnds, Shutdown, Exit, Reap
<1>9. CASE Ask \/ WriterWrites \/ CloseInput \/ KillGateway \/ UNCHANGED vars
  BY <1>1, <1>9 DEF Ask, WriterWrites, CloseInput, KillGateway, vars, processes
<1>10. ASSUME NEW q \in Requests, Arrive(q) \/ AnswerOwn(q) \/ TakeLock(q) \/ GiveUp(q) \/ Finish(q) \/ Send(q)
       PROVE  \A p \in Procs : FoundMoves(p)
  BY <1>1, <1>10 DEF Arrive, AnswerOwn, TakeLock, GiveUp, Finish, Send, processes
<1> QED
  BY <1>4, <1>5, <1>6, <1>7, <1>8, <1>9, <1>10 DEF Next, TaskStep

(* Fusion puts a chunk that every ranker prefers to another above it, and  *)
(* cuts the list only at its end (rrf_fuse, SearchRuntime::search):        *)
(* whatever the chunks, the rankings and top_k.                            *)
THEOREM DominanceHolds == Spec => []DominanceKept
<1>1. DominanceKept <=> \A p \in Procs : found[p] # None => Dominant(found[p])
  BY DEF DominanceKept, Dominant
<1>2. Init => DominanceKept
  BY DEF Init, DominanceKept
<1>3. Safe /\ DominanceKept /\ [Next]_vars => DominanceKept'
  <2> SUFFICES ASSUME Safe, DominanceKept, [Next]_vars PROVE DominanceKept'
    OBVIOUS
  <2>1. \A p \in Procs : FoundMoves(p)
    BY FoundSteps DEF Safe
  <2>2. \A p \in Procs : found'[p] # None => Dominant(found'[p])
    BY <1>1, <2>1 DEF FoundMoves
  <2> QED
    BY <2>2 DEF DominanceKept, Dominant, Hits
<1> QED
  BY <1>2, <1>3, SafeHolds, PTL DEF Spec
=============================================================================
