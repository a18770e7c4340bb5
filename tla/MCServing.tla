------------------------------ MODULE MCServing ------------------------------
EXTENDS Serving, TLC
CONSTANTS a, b, r1, r2

Find(o, m) == [kind |-> "search", orb |-> o, method |-> m, vector |-> "none", topK |-> 1, long |-> FALSE]
Long(o) == [Find(o, "bm25") EXCEPT !.long = TRUE]
Read(o, d) == [kind |-> "read", orb |-> o, doc |-> d, long |-> FALSE]
Of(kind) == [kind |-> kind, orb |-> a]

Through(via, item) == item @@ [via |-> via, host |-> "loopback"]

Post(items) == [host |-> "loopback", token |-> TRUE, parses |-> TRUE, leaves |-> FALSE, items |-> items]
Garbled == [Post(<<>>) EXCEPT !.parses = FALSE]
Leaving(items) == [Post(items) EXCEPT !.leaves = TRUE]

Plain == [files |-> {}, declared |-> {"bm25"}, model |-> "ours", fits |-> TRUE]

World(front, ask) ==
  [listing |-> <<a>>, name |-> a :> <<"a">> @@ b :> <<"b">>, package |-> [o \in {a, b} |-> Plain],
   embedder |-> "ready", transport |-> "stdio", front |-> front, token |-> FALSE, breaks |-> FALSE,
   web |-> FALSE, terminal |-> TRUE, external |-> FALSE, webItem |-> Through("api", Find(a, "auto")), ask |-> ask]

(* Requests of every kind, in pairs that overlap, and in a batch.          *)
Stdio == {World("stdio", ask) : ask \in
  {r1 :> Post(<<Find(a, "auto")>>) @@ r2 :> Post(<<Find(a, "bm25")>>),
   r1 :> Post(<<Find(a, "auto"), Of("note"), Of("list")>>) @@ r2 :> Garbled,
   r1 :> Post(<<Of("note")>>) @@ r2 :> Post(<<>>),
   r1 :> Post(<<Of("tool"), Of("root"), Read(a, "0")>>) @@ r2 :> Post(<<Of("list")>>)}}
  \cup {[World("stdio", r1 :> Post(<<Find(a, "auto")>>) @@ r2 :> Post(<<Of("list")>>)) EXCEPT !.breaks = TRUE]}

(* Clients that leave, with a line cut or left behind, and other clients.  *)
Http == {World("http", ask) : ask \in
  {r1 :> Leaving(<<Long(a)>>) @@ r2 :> Post(<<Find(a, "auto"), Find(a, "bm25")>>),
   r1 :> Leaving(<<Find(a, "auto")>>) @@ r2 :> Post(<<Find(a, "auto")>>),
   r1 :> Garbled @@ r2 :> [Post(<<Of("list")>>) EXCEPT !.host = "other"]}}
  \cup {[World("http", r1 :> [Post(<<Of("list")>>) EXCEPT !.token = t] @@ r2 :> Post(<<Of("note")>>)) EXCEPT !.token = TRUE] : t \in BOOLEAN}

(* Packages of every kind, searched by every method.                       *)
Asked(o) == r1 :> Post(<<o>>)
Pack(files, declared, model, fits) ==
  [files |-> files, declared |-> declared \cup {"bm25"}, model |-> model, fits |-> fits]
PackagesTried ==
  {Pack({"tfidf", "trigram"}, {"tfidf"}, "ours", TRUE), Pack({"tfidf"}, {"tfidf", "trigram"}, "ours", TRUE),
   Pack({"hnsw"}, {}, "ours", TRUE), Pack({"flat"}, {}, "ours", TRUE),
   Pack({"flat", "hnsw"}, {"flat", "hnsw"}, "ours", TRUE), Pack({"flat"}, {"flat"}, "other", FALSE),
   Pack({"flat", "trigram"}, {"flat", "trigram"}, "unnamed", TRUE), Pack({"flat"}, {"flat"}, "unnamed", FALSE)}
Searching(p, e, m, v, k) ==
  [World("http", Asked([Find(a, m) EXCEPT !.vector = v, !.topK = k])) EXCEPT !.package = [o \in {a, b} |-> p], !.embedder = e]
Searches ==
  {Searching(p, "ready", m, "none", 1) : p \in PackagesTried, m \in {"bm25", "tfidf", "trigram", "fuzzy"}}
  \cup {Searching(p, e, m, v, 1) : p \in PackagesTried, e \in {"ready", "absent", "lite"},
                                   m \in {"auto", "vector", "hybrid"}, v \in {"none", "misfit"}}
  \cup {Searching(p, "ready", m, "none", 2) : m \in {"auto", "hybrid"},
           p \in {Pack({"tfidf", "trigram"}, {"tfidf"}, "ours", TRUE), Pack({"flat"}, {"flat"}, "ours", TRUE)}}

(* Names that make odd slugs, or the same ones.                            *)
Names2 == {a :> <<"A", "_", "_", "b">> @@ b :> <<"a", "!">>, a :> <<"!">> @@ b :> <<"-", "b">>,
           a :> <<"a", "b", "a", "b">> @@ b :> <<"a", "b", "a", "a">>}
Routes ==
  {[World("stdio", Asked(i)) EXCEPT !.name = n, !.listing = <<a, b>>] :
     n \in Names2, i \in {Find(a, "auto"), Find(b, "auto"), Read(a, "0"), Read(b, "9")}}

(* Metrics: a ring that overflows, and a web server beside the gateway.    *)
Counted ==
  {World("stdio", Asked(Find(a, "auto")) @@ r2 :> Post(<<Find(a, "auto"), Find(a, "auto")>>))}
  \cup {[World("stdio", Asked(Find(a, "auto"))) EXCEPT !.web = TRUE, !.terminal = t] : t \in BOOLEAN}
  \cup {[World("http", <<>>) EXCEPT !.web = TRUE, !.webItem = i, !.external = e] : e \in BOOLEAN, i \in
          {Through("mcp", Find(a, "auto")), Through("mcp", Read(a, "0") @@ [name |-> <<"documents", "/", "0">>]),
           Through("mcp", Of("tool")), Through("mcp", Of("list")), Through("mcp", Of("note")), Through("mcp", Of("other")),
           [Through("api", Find(a, "bm25")) EXCEPT !.host = "other"]}}

MCWorlds == Stdio \cup Http \cup Searches \cup Routes \cup Counted
=============================================================================
