----------------------------- MODULE RankFusion -----------------------------
(***************************************************************************)
(* The rankings of one search and their reciprocal rank fusion             *)
(* (crates/mcporb-runtime-core). Of the scores only the order they put the *)
(* chunks in is kept, and any order is possible.                           *)
(***************************************************************************)
EXTENDS Integers, Sequences, FiniteSets, FiniteSetsExt, Functions

CONSTANT Chunks  \* bound: the chunks of an Orb, by their ids
ASSUME ChunksConstant == Chunks \in SUBSET Nat /\ IsFiniteSet(Chunks)

(* What a ranker may answer: no chunk twice, at most top_k of them. The    *)
(* flat store scores every chunk, the others those that match the query.   *)
RankingsOf(n) == {s \in [1 .. n -> Chunks] : IsInjective(s)}
Most(k) == Min({k, Cardinality(Chunks)})
Rankings(ranker, k) ==
  IF ranker = "flat" THEN RankingsOf(Most(k)) ELSE UNION {RankingsOf(n) : n \in 0 .. Most(k)}

(* rrf_fuse: 1 / (60 + position), in whole parts of Scale.                 *)
Scale == ProductSet({60 + i : i \in 1 .. Cardinality(Chunks)})

(* Mutant: the position is left out.                                       *)
SameContribution(i) == Scale \div 61

Contribution(i) == Scale \div (60 + i)

Position(list, c) == CHOOSE i \in DOMAIN list : list[i] = c

Fused(lists) == UNION {Range(l) : l \in Range(lists)}

Score(lists, c) ==
  MapThenSumSet(LAMBDA r : Contribution(Position(lists[r], c)),
                {r \in DOMAIN lists : c \in Range(lists[r])})

RrfFuse(lists, k) ==
  LET fused == Fused(lists)
      Before(c, d) == \/ Score(lists, c) > Score(lists, d)
                      \/ Score(lists, c) = Score(lists, d) /\ c < d
      all == CHOOSE s \in [1 .. Cardinality(fused) -> fused] :
               \A i, j \in DOMAIN s : i < j => Before(s[i], s[j])
  IN SubSeq(all, 1, Min({k, Len(all)}))

-----------------------------------------------------------------------------
(* A chunk is at least as high as another wherever that one is ranked, and *)
(* higher somewhere.                                                       *)
Dominates(lists, c, d) ==
  /\ c # d /\ d \in Fused(lists)
  /\ \A l \in Range(lists) :
       d \in Range(l) => c \in Range(l) /\ Position(l, c) < Position(l, d)

(* What a search promises of its hits, whatever the rankings.              *)
WellFused(lists, hits, k) ==
  /\ IsInjective(hits)
  /\ Range(hits) \subseteq Fused(lists)
  /\ Len(hits) = Min({k, Cardinality(Fused(lists))})
  /\ \A c, d \in Fused(lists) :
       Dominates(lists, c, d) /\ d \in Range(hits)
         => c \in Range(hits) /\ Position(hits, c) < Position(hits, d)
=============================================================================
