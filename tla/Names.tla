-------------------------------- MODULE Names --------------------------------
(***************************************************************************)
(* How an Orb's name becomes a slug (registry.rs), the slug a tool name    *)
(* and a resource URI (registry_reader.rs, router.rs), and how those are   *)
(* taken apart again. A text is a sequence of its characters; the words of *)
(* the protocol, "search_knowledge" and "documents", count as one each, as *)
(* does a document's number.                                               *)
(***************************************************************************)
EXTENDS Naturals, Sequences
LOCAL INSTANCE SequencesExt

CONSTANT SlugMax  \* bound in place of 46: the slug's share of a tool name's 64 characters

ASSUME NamesConstant == SlugMax \in Nat \ {0}

Lower == [c \in {"a", "b", "A", "B"} |-> IF c = "A" THEN "a" ELSE IF c = "B" THEN "b" ELSE c]

Nowhere == <<>>  \* the None of the functions that take a name apart

(* Mutant: an underscore may stay in a slug.                               *)
KeepsUnderscore(slug, c) == IF c \in DOMAIN Lower THEN Append(slug, Lower[c]) ELSE Append(slug, c)

SlugWith(slug, c) ==
  IF c \in DOMAIN Lower THEN Append(slug, Lower[c])
  ELSE IF slug # <<>> /\ Last(slug) = "-" THEN slug ELSE Append(slug, "-")

Trimmed(s) ==
  LET kept == {i \in DOMAIN s : s[i] # "-"} IN
  IF kept = {} THEN <<>>
  ELSE SubSeq(s, CHOOSE i \in kept : \A j \in kept : i <= j, CHOOSE i \in kept : \A j \in kept : j <= i)

Slugify(name) ==
  LET slug[i \in 0 .. Len(name)] == IF i = 0 THEN <<>> ELSE SlugWith(slug[i - 1], name[i])
  IN Trimmed(slug[Len(name)])

McpSlug(name) == SubSeq(Slugify(name), 1, IF Len(Slugify(name)) > SlugMax THEN SlugMax ELSE Len(Slugify(name)))

-----------------------------------------------------------------------------
SearchTool == <<"search_knowledge">>

BuildToolName(slug, tool) == slug \o <<"_", "_">> \o tool

(* split_once: at the first separator; <<slug, tool>>, or Nowhere.         *)
ParseToolName(name) ==
  LET cuts == {i \in 1 .. Len(name) - 1 : name[i] = "_" /\ name[i + 1] = "_"} IN
  IF cuts = {} THEN Nowhere
  ELSE LET i == CHOOSE i \in cuts : \A j \in cuts : i <= j
           slug == SubSeq(name, 1, i - 1)
           tool == SubSeq(name, i + 2, Len(name))
       IN IF <<>> \in {slug, tool} THEN Nowhere ELSE <<slug, tool>>

(* URIs are given without their "orb://".                                  *)
DocumentUri(slug, id) == slug \o <<"/", "documents", "/", id>>

SplitUri(uri) ==
  LET slashes == {i \in DOMAIN uri : uri[i] = "/"} IN
  IF slashes = {} THEN Nowhere
  ELSE LET i == CHOOSE i \in slashes : \A j \in slashes : i <= j
       IN IF i = 1 THEN Nowhere ELSE <<SubSeq(uri, 1, i - 1), SubSeq(uri, i, Len(uri))>>

WithoutSlashes(rest) ==
  LET kept == {i \in DOMAIN rest : rest[i] # "/"} IN
  IF kept = {} THEN <<>> ELSE SubSeq(rest, CHOOSE i \in kept : \A j \in kept : i <= j, Len(rest))

ToNativeUri(uri) == WithoutSlashes(SplitUri(uri)[2])

ToNamespacedUri(slug, native) == IF native = <<>> THEN native ELSE slug \o <<"/">> \o native
=============================================================================
