----------------------------- MODULE OrbProcess -----------------------------
(***************************************************************************)
(* The runtime processes of the Orbs (crates/mcporb-runtime): children a   *)
(* gateway talks to over pipes, and a web server started by the app. Each  *)
(* answers one request at a time and writes its metrics, whole, to a file  *)
(* it may share with other processes of its Orb.                           *)
(***************************************************************************)
EXTENDS SearchMethods, RankFusion, Names
LOCAL INSTANCE SequencesExt

CONSTANTS
  Orbs,
  Requests,  \* bound: requests of the gateway's clients
  MaxItems,  \* bound: items in a batch
  Web,       \* the app's web server
  Documents, \* the numbers of the documents in an Orb
  RingMax,   \* MAX_QA_ENTRIES
  MaxWeb,    \* bound: searches in the web server
  MaxDeaths, \* bound: processes that die on their own, and kills of the gateway
  None

(* A child is named by the call it was started for, which is a request and *)
(* the number of its items that are left.                                  *)
ChildProcs == Requests \X (1 .. MaxItems)
Procs == ChildProcs \cup {Web}

ASSUME ProcessConstants ==
  /\ IsFiniteSet(Requests) /\ MaxItems \in Nat
  /\ Web \notin ChildProcs /\ None \notin Procs \cup Orbs \cup Requests
  /\ RingMax \in Nat \ {0} /\ MaxWeb \in Nat /\ MaxDeaths \in Nat

VARIABLES
  world,     \* what does not change: packages, names, embedder, front end, requests
  proc,      \* what each process is: "none", "starting", "up" or "ended"
  orbOf,     \* the Orb it serves
  pipe,      \* lines to its standard input: calls, and Junk
  busy,      \* what it is working on: call, item, stage and answer; or Idle
  found,     \* the last search it ran, until recorded; or None
  mem,       \* its metrics
  file,      \* the metrics file of each Orb, or Torn
  recorded,  \* searches recorded, by Orb
  blurred,   \* Orbs two processes of which were up at once, or one of which
             \* was killed as it wrote
  deaths, asked  \* bounds: deaths so far, web searches so far

processes == <<proc, orbOf, pipe, busy, found, mem, file, recorded, blurred>>

-----------------------------------------------------------------------------
(* Metrics::with_file, record_search, sync_to_disk. A question and its     *)
(* answer are known by the number the process gave them.                   *)
Torn == [torn |-> TRUE]
Junk == [junk |-> TRUE]
Idle == [stage |-> "idle"]
Zero == [requests |-> 0, searches |-> 0, stdio |-> 0, http |-> 0, history |-> <<>>]

(* Mutants: a process starts from nothing; the oldest entry never goes.    *)
FromNothing(content) == Zero
KeepsAll(m, transport) ==
  [m EXCEPT !.requests = @ + 1, !.searches = @ + 1, ![transport] = @ + 1,
            !.history = Append(@, m.requests + 1)]

WithFile(content) == IF content = Torn THEN Zero ELSE content

Recorded(m, transport) ==
  [m EXCEPT !.requests = @ + 1, !.searches = @ + 1, ![transport] = @ + 1,
            !.history = LET all == Append(@, m.requests + 1) IN
                        IF Len(all) > RingMax THEN Tail(all) ELSE all]

(* get_qa_history, read_qa_history: newest first.                          *)
TotalPages(history, size) == IF history = <<>> THEN 1 ELSE (Len(history) + size - 1) \div size

Page(history, page, size) ==
  LET start == (page - 1) * size
      newest == Reverse(history)
  IN SubSeq(newest, start + 1, IF start + size < Len(newest) THEN start + size ELSE Len(newest))

(* get_orb_metrics: the file, or while it does not parse the count of the  *)
(* app's own server, or nothing.                                           *)
WebServes(o) == proc[Web] = "up" /\ orbOf[Web] = o

Shown(o) ==
  IF file[o] # Torn THEN file[o].requests ELSE IF WebServes(o) THEN mem[Web].requests ELSE 0

-----------------------------------------------------------------------------
Alive(p) == proc[p] \in {"starting", "up"}

(* OrbState::new: the process has loaded its Orb and its metrics.          *)
Launch(p, o) ==
  /\ proc' = [proc EXCEPT ![p] = "starting"]
  /\ orbOf' = [orbOf EXCEPT ![p] = o]
  /\ mem' = [mem EXCEPT ![p] = WithFile(file[o])]
  /\ pipe' = [pipe EXCEPT ![p] = <<>>]
  /\ busy' = [busy EXCEPT ![p] = Idle] /\ found' = [found EXCEPT ![p] = None]
  /\ blurred' = blurred \cup (IF \E r \in Procs \ {p} : Alive(r) /\ orbOf[r] = o THEN {o} ELSE {})
  /\ UNCHANGED <<file, recorded>>

(* Processes that are killed, die or come to their end.                    *)
Ended(ps) ==
  /\ proc' = [p \in Procs |-> IF p \in ps /\ Alive(p) THEN "ended" ELSE proc[p]]
  /\ pipe' = [p \in Procs |-> IF p \in ps THEN <<>> ELSE pipe[p]]
  /\ busy' = [p \in Procs |-> IF p \in ps THEN Idle ELSE busy[p]]
  /\ found' = [p \in Procs |-> IF p \in ps THEN None ELSE found[p]]
  /\ mem' = [p \in Procs |-> IF p \in ps THEN Zero ELSE mem[p]]
  /\ blurred' = blurred \cup {orbOf[p] : p \in {r \in ps : busy[r] # Idle /\ busy[r].stage = "sync"}}
  /\ UNCHANGED <<orbOf, file, recorded>>

Die(p) ==
  /\ Alive(p) /\ deaths < MaxDeaths
  /\ deaths' = deaths + 1
  /\ Ended({p})

(* run_stdio_loop: one line after the other; a line that does not parse is *)
(* passed over.                                                            *)
Take(p) ==
  /\ proc[p] = "up" /\ busy[p] = Idle /\ pipe[p] # <<>>
  /\ pipe' = [pipe EXCEPT ![p] = Tail(@)]
  /\ busy' = IF Head(pipe[p]) = Junk THEN busy
             ELSE [busy EXCEPT ![p] = [call |-> Head(pipe[p]).call, item |-> Head(pipe[p]).item,
                                       stage |-> "serve", answer |-> "none"]]
  /\ UNCHANGED <<proc, orbOf, found, mem, file, recorded, blurred>>

(* The web server's two ways in: POST /api/search, which counts a search   *)
(* before it looks at it, and POST /mcp. Hosts are checked unless the      *)
(* server is bound to every address.                                       *)
ValidHost(item) == world.external \/ item.host = "loopback"

CountedFirst(m, item) == IF item.via = "api" THEN [m EXCEPT !.searches = @ + 1] ELSE m

Ask ==
  LET item == world.webItem IN
  /\ proc[Web] = "up" /\ busy[Web] = Idle /\ asked < MaxWeb
  /\ asked' = asked + 1
  /\ IF ValidHost(item)
     THEN /\ mem' = [mem EXCEPT ![Web] = CountedFirst(@, item)]
          /\ busy' = [busy EXCEPT ![Web] = [call |-> Web, item |-> item, stage |-> "serve", answer |-> "none"]]
     ELSE UNCHANGED <<mem, busy>>
  /\ UNCHANGED <<proc, orbOf, pipe, found, file, recorded, blurred>>

(* detect_startup: the app gives no mode. With a user interface and MCP    *)
(* both, main() ends with the first of the two, MCP with its input.        *)
StartupMode(terminal) == IF terminal THEN "GuiOnly" ELSE "AllGui"

InputEnds ==
  /\ proc[Web] = "up" /\ StartupMode(world.terminal) = "AllGui"
  /\ ~(busy[Web] # Idle /\ busy[Web].stage = "sync")
  /\ Ended({Web})

Answering(p, a) == busy' = [busy EXCEPT ![p].stage = "answer", ![p].answer = a]

Package(p) == world.package[orbOf[p]]

(* search_knowledge and post_search: the rankings the rankers give it.     *)
Search(p, item) ==
  LET pack == Package(p) IN
  IF item.method \notin AvailableMethods(pack)
  THEN Answering(p, "unsupported method") /\ UNCHANGED found
  ELSE \E prepared \in AutoFill(pack, item.method, item.vector, world.embedder) :
    LET m == prepared.method v == prepared.vector IN
    IF prepared.error # "none" THEN Answering(p, prepared.error) /\ UNCHANGED found
    ELSE IF Unavailable(pack, m, v) THEN Answering(p, "search failed") /\ UNCHANGED found
    ELSE /\ busy' = [busy EXCEPT ![p].stage = "record"]
         /\ \E rank \in [Rankers(pack, m, v) -> UNION {Rankings(r, item.topK) : r \in Rankers(pack, m, v)}] :
              /\ found' = [found EXCEPT ![p] = [rank |-> rank, k |-> item.topK, fused |-> Fuses(pack, m, v)]]
              /\ \A r \in DOMAIN rank : rank[r] \in Rankings(r, item.topK)

(* What the search answers with.                                           *)
Hits(search) == IF search.fused THEN RrfFuse(search.rank, search.k) ELSE CHOOSE l \in Range(search.rank) : TRUE

(* handle_resource_read                                                    *)
ReadResource(uri) ==
  IF Len(uri) # 3 \/ SubSeq(uri, 1, 2) # <<"documents", "/">> THEN "invalid uri"
  ELSE IF uri[3] \in Documents THEN "text" ELSE "document not found"

(* handle_tool_call of an Orb that is unlocked, and the method around it.  *)
CallTool(p, item) ==
  IF item.kind = "search" THEN Search(p, item)
  ELSE /\ Answering(p, IF item.kind = "tool" THEN "web ui url" ELSE "unknown tool")
       /\ UNCHANGED found

Serve(p) ==
  /\ proc[p] = "up" /\ busy[p] # Idle /\ busy[p].stage = "serve"
  /\ UNCHANGED <<proc, orbOf, pipe, mem, file, recorded, blurred>>
  /\ LET item == busy[p].item IN
     CASE item.kind = "read" -> Answering(p, ReadResource(item.name)) /\ UNCHANGED found
       [] item.kind = "list" -> Answering(p, "own") /\ UNCHANGED found
       [] item.kind = "note" -> Answering(p, "nothing") /\ UNCHANGED found
       [] OTHER              -> CallTool(p, item)

(* record_search; fs::write truncates the file before it writes.           *)
Record(p) ==
  /\ proc[p] = "up" /\ busy[p] # Idle /\ busy[p].stage = "record"
  /\ mem' = [mem EXCEPT ![p] = Recorded(@, IF p = Web THEN "http" ELSE world.transport)]
  /\ file' = [file EXCEPT ![orbOf[p]] = Torn]
  /\ recorded' = [recorded EXCEPT ![orbOf[p]] = @ + 1]
  /\ busy' = [busy EXCEPT ![p].stage = "sync"]
  /\ found' = [found EXCEPT ![p] = None]
  /\ UNCHANGED <<proc, orbOf, pipe, blurred>>

Sync(p) ==
  /\ proc[p] = "up" /\ busy[p] # Idle /\ busy[p].stage = "sync"
  /\ file' = [file EXCEPT ![orbOf[p]] = mem[p]]
  /\ Answering(p, "hits")
  /\ UNCHANGED <<proc, orbOf, pipe, found, mem, recorded, blurred>>
=============================================================================
