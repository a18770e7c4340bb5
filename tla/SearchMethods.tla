---------------------------- MODULE SearchMethods ----------------------------
(***************************************************************************)
(* Which search methods an Orb offers, and what becomes of a search: from  *)
(* the files of its package to the rankings that are fused. The gateway    *)
(* lists methods from the manifest it finds in registry.json, the runtime  *)
(* from the indexes it has loaded.                                         *)
(***************************************************************************)

(* A package: the optional index files in it, the capabilities its         *)
(* manifest enables, the embedding model it names, and whether its vectors *)
(* have the dimension of the runtime's own model, as those made with that  *)
(* model do.                                                               *)
Indexes == {"tfidf", "trigram", "flat", "hnsw"}
Capabilities == Indexes \cup {"bm25"}
Packages ==
  {p \in [files : SUBSET Indexes, declared : SUBSET Capabilities,
          model : {"ours", "other", "unnamed"}, fits : BOOLEAN] : p.model = "ours" => p.fits}

(* Mutant: an enabled index that is not there is left out.                 *)
NeverMissing(p) == {}

(* load_optional_index, load_orb_data_from_bytes, DenseRuntime::from_assets *)
Missing(p) == (p.declared \ {"bm25"}) \ p.files

Loads(p) == Missing(p) = {} /\ ("hnsw" \in p.files => "flat" \in p.files)

Lexical(p) == p.files \cap {"tfidf", "trigram"}

HasDense(p) == "flat" \in p.files

Dense(p) == IF "hnsw" \in p.files THEN "hnsw" ELSE "flat"

SupportsHybrid(p) == Lexical(p) # {} \/ HasDense(p)

AvailableMethods(p) ==
  {"auto", "bm25"} \cup Lexical(p)
    \cup (IF HasDense(p) THEN {"vector"} ELSE {})
    \cup (IF SupportsHybrid(p) THEN {"hybrid"} ELSE {})

-----------------------------------------------------------------------------
(* build_tools_from_manifest: what the gateway lists.                      *)
DeclaresDense(p) == p.declared \cap {"flat", "hnsw"} # {}

ListedMethods(p) ==
  {"auto"} \cup (p.declared \cap {"bm25", "tfidf", "trigram"})
    \cup (IF DeclaresDense(p) THEN {"vector", "hybrid"} ELSE {})

-----------------------------------------------------------------------------
(* auto_fill_query_vector: the outcomes there may be, each an error or the *)
(* method to run with a vector, which is "none", "fits" or "misfit".       *)
Prepared(m, v) == [error |-> "none", method |-> m, vector |-> v]
Unprepared(e) == [error |-> e, method |-> "none", vector |-> "none"]

NeedsVector(p, m) == m = "vector" \/ (m \in {"auto", "hybrid"} /\ DeclaresDense(p))

EmbedderNotReady(m) == Prepared(IF m = "vector" THEN "auto" ELSE m, "none")

AutoFill(p, m, own, embedder) ==
  IF embedder = "lite" \/ own # "none" \/ ~NeedsVector(p, m) THEN {Prepared(m, own)}
  ELSE IF embedder = "absent" THEN {EmbedderNotReady(m)}
  ELSE IF p.model = "other" THEN {Unprepared("model mismatch")}
  ELSE {Unprepared("embedder failure"), Prepared(m, IF p.fits THEN "fits" ELSE "misfit")}

-----------------------------------------------------------------------------
(* SearchRuntime::search: the rankers a method asks, and whether one of    *)
(* them, or the method itself, refuses.                                    *)
Rankers(p, m, v) ==
  CASE m = "auto"   -> {"bm25"} \cup Lexical(p) \cup (IF HasDense(p) /\ v # "none" THEN {Dense(p)} ELSE {})
    [] m = "hybrid" -> {"bm25"} \cup Lexical(p) \cup (IF HasDense(p) THEN {Dense(p)} ELSE {})
    [] m = "vector" -> {Dense(p)}
    [] OTHER        -> {m}

Unavailable(p, m, v) ==
  \/ m = "hybrid" /\ ~SupportsHybrid(p)
  \/ ~(Rankers(p, m, v) \cap {"tfidf", "trigram"} \subseteq p.files)
  \/ Rankers(p, m, v) \cap {"flat", "hnsw"} # {} /\ (~HasDense(p) \/ v # "fits")

(* Only auto with one list, and a method of one ranker, leave a list as is. *)
Fuses(p, m, v) == m = "hybrid" \/ (m = "auto" /\ Rankers(p, m, v) # {"bm25"})
=============================================================================
