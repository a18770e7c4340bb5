------------------------------- MODULE Serving -------------------------------
(***************************************************************************)
(* A request on its way through the gateway: the front ends                *)
(* (mcporb-gateway-stdio, mcporb-gateway-http), the handler (handler.rs),  *)
(* the line written to a child, the child, and the response. Of the        *)
(* runtime manager only what a request passes is here; RuntimeManager has  *)
(* the rest of it.                                                         *)
(***************************************************************************)
EXTENDS OrbProcess
LOCAL INSTANCE SequencesExt

CONSTANTS
  Worlds,     \* bound: the worlds a run starts in
  ChannelCap  \* bound in place of 64: responses the stdio gateway's channel holds

ASSUME ServingConstants == ChannelCap \in Nat \ {0}

(* An item that is asked for is of some kind; a search has the vector its  *)
(* caller sent, if any, and the number of hits it wants.                   *)
Whole(item) ==
  /\ "kind" \in DOMAIN item
  /\ item.kind = "search" => /\ {"vector", "topK"} \subseteq DOMAIN item
                             /\ item.vector \in {"none", "fits", "misfit"} /\ item.topK \in Nat

(* In every world the Orbs have packages and names; the listing and what   *)
(* is asked are sequences, of Orbs and of items; a search or a read is of  *)
(* an Orb that is listed.                                                  *)
ASSUME WorldsGiven ==
  \A w \in Worlds :
    /\ w.package \in [Orbs -> Packages] /\ \A o \in Orbs : Len(w.name[o]) \in Nat
    /\ w.transport \in {"stdio", "http"} /\ Whole(w.webItem)
    /\ Len(w.listing) \in Nat /\ DOMAIN w.listing = 1 .. Len(w.listing)
    /\ w.listing # <<>> /\ \A i \in DOMAIN w.listing : w.listing[i] \in Orbs
    /\ \A q \in DOMAIN w.ask :
         LET items == w.ask[q].items IN
         /\ Len(items) \in 0 .. MaxItems /\ DOMAIN items = 1 .. Len(items)
         /\ \A i \in DOMAIN items :
              /\ Whole(items[i]) /\ DOMAIN items[i] \cap {"name", "to"} = {}
              /\ items[i].kind \in {"search", "read"} =>
                   "orb" \in DOMAIN items[i] /\ \E j \in DOMAIN w.listing : items[i].orb = w.listing[j]

VARIABLES
  gate,      \* the gateway: "serving", "draining" its responses, "exiting" or "down"
  loop,      \* the request the reading loop itself answers, or None
  channel,   \* requests whose responses wait for the writer task
  writer,    \* the writer task: "on", or "broken" once stdout is closed
  pc,        \* where the task of each request is
  todo,      \* the items of its batch it has not answered
  replies,   \* its answers so far
  got,       \* requests whose clients have their response
  lock,      \* the call that holds the write guard on the processes, or None
  child,     \* the process of each Orb that is in the map, or None
  target,    \* the process a call has written to
  half,      \* children with half a line in their pipe
  buffer,    \* lines in the gateway's buffer in front of a pipe
  cuts,      \* clients that left in the middle of a line
  lost       \* calls given up though their child lived

bounds == <<deaths, asked>>
frontEnd == <<gate, loop, channel, writer, got>>
tasks == <<pc, todo, replies, target>>
children == <<lock, child, half, buffer, cuts, lost>>
vars == <<world, processes, bounds, frontEnd, tasks, children>>

-----------------------------------------------------------------------------
(* registry_reader.rs, find_orb: the first Orb in the list with that slug. *)
Slug == [n \in {w.name[o] : w \in Worlds, o \in Orbs} |-> McpSlug(n)]
SlugOf(o) == Slug[world.name[o]]

OrbsWith(slug) == {i \in DOMAIN world.listing : SlugOf(world.listing[i]) = slug}
FindOrb(slug) ==
  IF OrbsWith(slug) = {} THEN None
  ELSE world.listing[CHOOSE i \in OrbsWith(slug) : \A j \in OrbsWith(slug) : i <= j]

(* A request's items: one, or those of a batch. Each names a tool or a     *)
(* document as tools/list and resources/list show it, or something else.   *)
NameFor(item) ==
  CASE item.kind = "search" -> BuildToolName(SlugOf(item.orb), SearchTool)
    [] item.kind = "tool"   -> BuildToolName(SlugOf(item.orb), <<"get_web_ui_url">>)
    [] item.kind = "read"   -> DocumentUri(SlugOf(item.orb), item.doc)
    [] item.kind = "root"   -> SlugOf(item.orb) \o <<"/">>
    [] OTHER                -> Nowhere

Reply(item, answer, orb, uri) == [item |-> item, answer |-> answer, orb |-> orb, uri |-> uri]

(* The Orb an item is for, or why it goes no further.                      *)
ToolTarget(item) ==
  LET parsed == ParseToolName(item.name) IN
  IF parsed = Nowhere THEN [orb |-> None, answer |-> "internal error"]
  ELSE IF parsed[2] # SearchTool THEN [orb |-> None, answer |-> "unknown tool"]
  ELSE IF FindOrb(parsed[1]) = None THEN [orb |-> None, answer |-> "internal error"]
  ELSE [orb |-> FindOrb(parsed[1]), answer |-> "none"]

ResourceTarget(item) ==
  LET parsed == SplitUri(item.name) IN
  IF parsed = Nowhere THEN [orb |-> None, answer |-> "internal error"]
  ELSE IF FindOrb(parsed[1]) = None THEN [orb |-> None, answer |-> "unknown orb"]
  ELSE IF WithoutSlashes(parsed[2]) = <<>> THEN [orb |-> None, answer |-> "not readable"]
  ELSE [orb |-> FindOrb(parsed[1]), answer |-> "none"]

TargetOf(item) ==
  CASE item.kind \in {"search", "tool"} -> ToolTarget(item)
    [] item.kind \in {"read", "root"}   -> ResourceTarget(item)
    [] OTHER                            -> [orb |-> None, answer |-> "own"]

(* An item as it arrives; where it goes depends on nothing that changes.   *)
With(item, field, value) == [f \in DOMAIN item \cup {field} |-> IF f = field THEN value ELSE item[f]]

Named(item) ==
  LET named == With(item, "name", NameFor(item)) IN With(named, "to", TargetOf(named))

-----------------------------------------------------------------------------
Init ==
  /\ world \in Worlds
  /\ proc = [p \in Procs |-> IF p = Web /\ world.web THEN "up" ELSE "none"]
  /\ orbOf = [p \in Procs |-> world.listing[1]]
  /\ pipe = [p \in Procs |-> <<>>]
  /\ busy = [p \in Procs |-> Idle] /\ found = [p \in Procs |-> None]
  /\ mem = [p \in Procs |-> Zero] /\ file = [o \in Orbs |-> Zero]
  /\ recorded = [o \in Orbs |-> 0] /\ blurred = {} /\ deaths = 0 /\ asked = 0
  /\ gate = "serving" /\ loop = None /\ channel = <<>> /\ writer = "on"
  /\ pc = [q \in Requests |-> IF q \in DOMAIN world.ask THEN "unsent" ELSE "none"]
  /\ todo = [q \in Requests |-> <<>>] /\ replies = [q \in Requests |-> <<>>]
  /\ got = {} /\ lock = None /\ child = [o \in Orbs |-> None]
  /\ target = [q \in Requests |-> None]
  /\ half = {} /\ buffer = [p \in Procs |-> <<>>] /\ cuts = 0 /\ lost = 0

Goto(q, l) == pc' = [pc EXCEPT ![q] = l]

(* An answer to the item in hand.                                          *)
Answered(q, answer, orb, uri) ==
  /\ replies' = [replies EXCEPT ![q] = Append(@, Reply(Head(todo[q]), answer, orb, uri))]
  /\ todo' = [todo EXCEPT ![q] = Tail(@)]
  /\ Goto(q, "handling")

-----------------------------------------------------------------------------
(* auth_middleware: who is let in.                                         *)
Admitted(ask) == ask.host = "loopback" /\ (world.token => ask.token)

Nobody == [kind |-> "none"]

(* A line on stdin, or a POST. What does not parse is answered by the      *)
(* reading loop, before it reads on; over HTTP by the framework.           *)
Arrive(q) ==
  LET ask == world.ask[q] IN
  /\ pc[q] = "unsent" /\ gate = "serving" /\ loop = None
  /\ IF world.front = "http" /\ ~Admitted(ask) THEN
       /\ replies' = [replies EXCEPT ![q] = <<Reply(Nobody, "not admitted", None, Nowhere)>>]
       /\ got' = got \cup {q} /\ Goto(q, "done") /\ UNCHANGED <<todo, loop>>
     ELSE IF ~ask.parses THEN
       /\ replies' = [replies EXCEPT ![q] = <<Reply(Nobody, "parse error", None, Nowhere)>>]
       /\ loop' = IF world.front = "stdio" THEN q ELSE None
       /\ got' = IF world.front = "stdio" THEN got ELSE got \cup {q}
       /\ Goto(q, IF world.front = "stdio" THEN "sending" ELSE "done")
       /\ UNCHANGED todo
     ELSE IF ask.items = <<>> THEN
       /\ replies' = [replies EXCEPT ![q] = <<Reply(Nobody, "empty batch", None, Nowhere)>>]
       /\ Goto(q, "handling") /\ UNCHANGED <<todo, loop, got>>
     ELSE
       /\ todo' = [todo EXCEPT ![q] = [i \in DOMAIN ask.items |-> Named(ask.items[i])]]
       /\ Goto(q, "handling") /\ UNCHANGED <<replies, loop, got>>
  /\ UNCHANGED <<world, processes, bounds, gate, channel, writer, target, children>>

AtItem(q) == pc[q] = "handling" /\ todo[q] # <<>>

Call(q) == <<q, Len(todo[q])>>

(* handle_single_request, for what the gateway answers itself.             *)
AnswerOwn(q) ==
  /\ AtItem(q) /\ Head(todo[q]).to.orb = None
  /\ IF Head(todo[q]).kind = "note"
     THEN todo' = [todo EXCEPT ![q] = Tail(@)] /\ UNCHANGED <<replies, pc>>
     ELSE Answered(q, Head(todo[q]).to.answer, None, Nowhere)
  /\ UNCHANGED <<world, processes, bounds, frontEnd, target, children>>

(* ensure_orb: a child is in the map, or one is started.                   *)
Ensure(q) ==
  LET o == Head(todo[q]).to.orb IN
  /\ AtItem(q) /\ o # None
  /\ IF child[o] # None
     THEN Goto(q, "queued") /\ UNCHANGED processes
     ELSE Launch(Call(q), o) /\ Goto(q, "starting")
  /\ UNCHANGED <<world, bounds, frontEnd, todo, replies, target, children>>

(* The child has answered initialize, and is dropped if another one has    *)
(* taken its place.                                                        *)
Started(q) ==
  LET p == Call(q) o == orbOf[p] IN
  /\ pc[q] = "starting" /\ proc[p] = "starting" /\ Loads(world.package[o]) /\ lock = None
  /\ IF child[o] = None
     THEN /\ child' = [child EXCEPT ![o] = p]
          /\ proc' = [proc EXCEPT ![p] = "up"]
          /\ UNCHANGED <<orbOf, pipe, busy, found, mem, file, recorded, blurred>>
     ELSE Ended({p}) /\ UNCHANGED child
  /\ Goto(q, "queued")
  /\ UNCHANGED <<world, bounds, frontEnd, todo, replies, target, lock, half, buffer, cuts, lost>>

(* It could not load its Orb, has died, or was too slow.                   *)
NotStarted(q) ==
  LET p == Call(q) o == orbOf[p] IN
  /\ pc[q] = "starting" /\ lock = None
  /\ ~Loads(world.package[o]) \/ proc[p] = "ended"
  /\ Ended({p})
  /\ IF child[o] = None
     THEN Answered(q, "unavailable", None, Nowhere)
     ELSE Goto(q, "queued") /\ UNCHANGED <<todo, replies>>
  /\ UNCHANGED <<world, bounds, frontEnd, target, children>>

-----------------------------------------------------------------------------
(* forward_request_inner: the write guard, the line, the answer.           *)
TakeLock(q) ==
  LET p == child[Head(todo[q]).to.orb] IN
  /\ pc[q] = "queued" /\ lock = None
  /\ IF p = None
     THEN Answered(q, "unavailable", None, Nowhere) /\ UNCHANGED <<lock, target>>
     ELSE /\ lock' = q /\ target' = [target EXCEPT ![q] = p] /\ Goto(q, "writing")
          /\ UNCHANGED <<todo, replies>>
  /\ UNCHANGED <<world, processes, bounds, frontEnd, child, half, buffer, cuts, lost>>

(* A document's URI goes out in the child's own form.                      *)
Forwarded(item) == IF item.kind = "read" THEN [item EXCEPT !.name = ToNativeUri(@)] ELSE item
Line(q) == [call |-> Call(q), item |-> Forwarded(Head(todo[q]))]

(* Mutant: half a line goes on spoiling the lines after it.                *)
NeverMended(p, lines) == half

(* A BufWriter's flush: what it holds goes first, and the first line is    *)
(* glued to the half a line in the pipe.                                   *)
Glued(p, lines) == IF p \in half THEN <<Junk>> \o Tail(lines) ELSE lines
Mended(p, lines) == half \ {p}

Write(q) ==
  LET p == target[q]
      lines == Append(buffer[p], Line(q))
  IN
  /\ pc[q] = "writing"
  /\ IF proc[p] = "up"
     THEN /\ pipe' = [pipe EXCEPT ![p] = @ \o Glued(p, lines)]
          /\ half' = Mended(p, lines) /\ buffer' = [buffer EXCEPT ![p] = <<>>]
          /\ Goto(q, "waiting") /\ UNCHANGED <<todo, replies>>
     ELSE Answered(q, "unavailable", None, Nowhere) /\ UNCHANGED <<pipe, half, buffer>>
  /\ lock' = None
  /\ UNCHANGED <<world, proc, orbOf, busy, found, mem, file, recorded, blurred, bounds, frontEnd, target,
                 child, cuts, lost>>

(* The child's answer, for the call that waits for it if one does; a       *)
(* child whose gateway is gone fails to write it.                          *)
Deliver(p) ==
  /\ proc[p] = "up" /\ busy[p] # Idle /\ busy[p].stage = "answer"
  /\ IF p # Web /\ gate = "down"
     THEN Ended({p}) /\ UNCHANGED tasks
     ELSE /\ busy' = [busy EXCEPT ![p] = Idle]
          /\ UNCHANGED <<proc, orbOf, pipe, found, mem, file, recorded, blurred, target>>
          /\ IF \E q \in Requests : pc[q] = "waiting" /\ target[q] = p /\ Call(q) = busy[p].call
             THEN LET q == busy[p].call[1]
                      slug == SplitUri(Head(todo[q]).name)[1]
                  IN Answered(q, busy[p].answer, orbOf[p],
                              IF busy[p].answer = "text"
                              THEN ToNamespacedUri(slug, busy[p].item.name) ELSE Nowhere)
             ELSE UNCHANGED <<pc, todo, replies>>
  /\ UNCHANGED <<world, bounds, frontEnd, children>>

(* The 60 s are over. A child is taken to answer within them whatever      *)
(* reaches it.                                                             *)
Coming(q) ==
  LET p == target[q] IN
  \/ \E line \in ToSet(pipe[p]) : line # Junk /\ line.call = Call(q)
  \/ busy[p] # Idle /\ busy[p].call = Call(q)

GiveUp(q) ==
  /\ pc[q] = "waiting" /\ ~Coming(q)
  /\ lost' = lost + (IF proc[target[q]] = "up" THEN 1 ELSE 0)
  /\ Answered(q, "unavailable", None, Nowhere)
  /\ UNCHANGED <<world, processes, bounds, frontEnd, target, lock, child, half, buffer, cuts>>

-----------------------------------------------------------------------------
(* An HTTP client goes away, and axum drops the handler where it awaits: a *)
(* child it was starting is killed; a line longer than the BufWriter may   *)
(* be cut, a shorter one stay in the buffer.                               *)
InFlight(q) == pc[q] \in {"handling", "starting", "queued", "writing", "waiting", "sending"}

CutLine(q) ==
  LET p == target[q] IN
  IF Head(todo[q]).long
  THEN /\ pipe' = [pipe EXCEPT ![p] = @ \o (IF buffer[p] = <<>> THEN <<>> ELSE Glued(p, buffer[p]))]
       /\ buffer' = [buffer EXCEPT ![p] = <<>>]
       /\ half' = half \cup {p} /\ cuts' = cuts + 1
  ELSE /\ buffer' = [buffer EXCEPT ![p] = Append(@, Line(q))] /\ UNCHANGED <<pipe, half, cuts>>

Leave(q) ==
  /\ InFlight(q) /\ world.front = "http" /\ world.ask[q].leaves
  /\ Goto(q, "left")
  /\ todo' = [todo EXCEPT ![q] = <<>>] /\ replies' = [replies EXCEPT ![q] = <<>>]
  /\ lock' = IF lock = q THEN None ELSE lock
  /\ \/ /\ pc[q] = "starting" /\ Ended({Call(q)}) /\ UNCHANGED <<half, buffer, cuts>>
     \/ /\ pc[q] # "starting" /\ UNCHANGED <<processes, half, buffer, cuts>>
     \/ /\ pc[q] = "writing" /\ proc[target[q]] = "up" /\ CutLine(q)
        /\ UNCHANGED <<proc, orbOf, busy, found, mem, file, recorded, blurred>>
  /\ UNCHANGED <<world, bounds, frontEnd, target, child, lost>>

(* handle_request has its responses, or none if all were notifications.    *)
Finish(q) ==
  /\ pc[q] = "handling" /\ todo[q] = <<>>
  /\ Goto(q, IF world.front = "stdio" /\ replies[q] # <<>> THEN "sending" ELSE "done")
  /\ got' = IF world.front = "http" THEN got \cup {q} ELSE got
  /\ UNCHANGED <<world, processes, bounds, gate, loop, channel, writer, todo, replies, target, children>>

(* Into the channel, unless the writer task has dropped its other end.     *)
Send(q) ==
  /\ pc[q] = "sending"
  /\ \/ writer = "broken" /\ UNCHANGED channel
     \/ writer = "on" /\ Len(channel) < ChannelCap /\ channel' = Append(channel, q)
  /\ loop' = IF loop = q THEN None ELSE loop
  /\ Goto(q, "done")
  /\ UNCHANGED <<world, processes, bounds, gate, writer, got, todo, replies, target, children>>

WriterWrites ==
  /\ writer = "on" /\ channel # <<>> /\ gate # "down"
  /\ \/ got' = got \cup {Head(channel)} /\ channel' = Tail(channel) /\ UNCHANGED writer
     \/ world.breaks /\ writer' = "broken" /\ channel' = <<>> /\ UNCHANGED got
  /\ UNCHANGED <<world, processes, bounds, gate, loop, tasks, children>>

-----------------------------------------------------------------------------
(* The stdio gateway's end: end of input, the writer done once every       *)
(* sender is gone, shutdown of the children in the map, main's return,     *)
(* which drops the tasks and with them (kill_on_drop) the other children.  *)
CloseInput ==
  /\ world.front = "stdio" /\ gate = "serving" /\ loop = None
  /\ gate' = "draining"
  /\ UNCHANGED <<world, processes, bounds, loop, channel, writer, got, tasks, children>>

(* Mutant: main does not wait for the writer.                              *)
NotAwaited == TRUE

WriterEnded == writer = "broken" \/ (channel = <<>> /\ \A q \in Requests : ~InFlight(q))

Unmapped == child' = [o \in Orbs |-> None]

Shutdown ==
  /\ gate = "draining" /\ WriterEnded /\ lock = None
  /\ Ended({child[o] : o \in Orbs} \ {None}) /\ Unmapped
  /\ gate' = "exiting"
  /\ UNCHANGED <<world, bounds, loop, channel, writer, got, tasks, lock, half, buffer, cuts, lost>>

Cut(l) == pc' = [q \in Requests |-> IF InFlight(q) \/ q \in ToSet(channel) THEN l ELSE pc[q]]

Exit ==
  /\ gate = "exiting"
  /\ gate' = "down" /\ lock' = None /\ Unmapped
  /\ Ended({p \in ChildProcs : Alive(p)})
  /\ Cut("dropped")
  /\ UNCHANGED <<world, bounds, loop, channel, writer, got, todo, replies, target, half, buffer, cuts, lost>>

(* A signal ends the gateway on the spot; its children are left.           *)
KillGateway ==
  /\ gate # "down" /\ deaths < MaxDeaths
  /\ deaths' = deaths + 1
  /\ gate' = "down" /\ lock' = None /\ Unmapped
  /\ Cut("killed")
  /\ UNCHANGED <<world, processes, asked, loop, channel, writer, got, todo, replies, target, half, buffer, cuts, lost>>

(* Mutant: the loop does not end with its input.                           *)
NeverAtEnd(p) == FALSE

AtEnd(p) == gate = "down" /\ pipe[p] = <<>> /\ busy[p] = Idle

EndOfInput(p) ==
  /\ p # Web /\ Alive(p) /\ AtEnd(p)
  /\ Ended({p})
  /\ UNCHANGED <<world, bounds, frontEnd, tasks, children>>

(* The reaper: a child nobody has used for long.                           *)
Reap(o) ==
  LET p == child[o] IN
  /\ p # None /\ lock = None /\ busy[p] = Idle /\ pipe[p] = <<>>
  /\ \A q \in Requests : ~(pc[q] = "waiting" /\ target[q] = p)
  /\ Ended({p})
  /\ child' = [child EXCEPT ![o] = None]
  /\ UNCHANGED <<world, bounds, frontEnd, tasks, lock, half, buffer, cuts, lost>>

-----------------------------------------------------------------------------
TaskStep(q) ==
  \/ AnswerOwn(q) \/ Ensure(q) \/ Started(q) \/ NotStarted(q) \/ TakeLock(q) \/ Write(q)
  \/ GiveUp(q) \/ Finish(q) \/ Send(q)

Working(p) ==
  \/ (Take(p) \/ Serve(p) \/ Record(p) \/ Sync(p)) /\ UNCHANGED <<world, bounds, frontEnd, tasks, children>>
  \/ Deliver(p)
  \/ EndOfInput(p)

Next ==
  \/ \E q \in Requests : Arrive(q) \/ TaskStep(q) \/ Leave(q)
  \/ \E p \in Procs : Working(p)
  \/ \E p \in Procs : Die(p) /\ UNCHANGED <<world, asked, frontEnd, tasks, children>>
  \/ Ask /\ UNCHANGED <<world, deaths, frontEnd, tasks, children>>
  \/ InputEnds /\ UNCHANGED <<world, bounds, frontEnd, tasks, children>>
  \/ WriterWrites \/ CloseInput \/ Shutdown \/ Exit \/ KillGateway
  \/ \E o \in Orbs : Reap(o)

(* tokio runs every task; its RwLock and its channel serve those who wait  *)
(* for them in turn.                                                       *)
Fairness ==
  /\ \A q \in Requests : SF_vars(TaskStep(q))
  /\ \A p \in ChildProcs : WF_vars(Working(p))
  /\ WF_vars(WriterWrites)

Spec == Init /\ [][Next]_vars /\ Fairness

-----------------------------------------------------------------------------
(* Every variable keeps to its kind of value.                              *)
TypeOK ==
  /\ world \in Worlds
  /\ proc \in [Procs -> {"none", "starting", "up", "ended"}]
  /\ orbOf \in [Procs -> Orbs] /\ blurred \subseteq Orbs
  /\ \A p \in Procs : /\ busy[p] # Idle => busy[p].stage \in {"serve", "record", "sync", "answer"}
                      /\ Len(mem[p].history) <= RingMax
  /\ gate \in {"serving", "draining", "exiting", "down"} /\ writer \in {"on", "broken"}
  /\ Len(channel) <= ChannelCap
  /\ lock \in Requests \cup {None} /\ child \in [Orbs -> ChildProcs \cup {None}]
  /\ half \subseteq Procs /\ got \subseteq Requests
  /\ \A q \in Requests : lock = q <=> pc[q] = "writing"

Answers == UNION {ToSet(replies[q]) : q \in Requests}

(* A search by a method the gateway lists for an Orb is never refused as   *)
(* unsupported, and fails only for want of a vector that fits: the caller  *)
(* sent another, the package names no model and was made with another, no  *)
(* embedder is loaded (hybrid), or none is compiled in.                    *)
VectorMissing(item, p) ==
  \/ item.vector = "misfit"
  \/ p.model = "unnamed" /\ ~p.fits
  \/ world.embedder = "absent" /\ item.method = "hybrid"
  \/ world.embedder = "lite" /\ HasDense(p)

ListedMethodsAnswer ==
  \A r \in Answers :
    r.orb # None /\ r.item.kind = "search" /\ r.item.method \in ListedMethods(world.package[r.orb]) =>
      /\ r.answer # "unsupported method"
      /\ r.answer = "search failed" => VectorMissing(r.item, world.package[r.orb])

(* What tools/list and resources/list name for an Orb reaches that Orb,    *)
(* and a document comes back under the name it was asked for by; unless    *)
(* the Orb's slug is empty, or cut to the same one as another's.           *)
OwnSlug(o) == SlugOf(o) # <<>> /\ \A p \in ToSet(world.listing) : SlugOf(p) = SlugOf(o) => p = o

ListedNamesRoute ==
  \A r \in Answers :
    r.item.kind \in {"search", "read"} /\ OwnSlug(r.item.orb) =>
      /\ r.orb = r.item.orb \/ r.answer = "unavailable"
      /\ r.answer = "text" => r.uri = r.item.name

(* Fusion puts a chunk that every ranker prefers to another above it, and  *)
(* cuts the list only at its end.                                          *)
DominanceKept == \A p \in Procs : found[p] # None => WellFused(found[p].rank, Hits(found[p]), found[p].k)

(* What the app shows counts every search of an Orb, over all its          *)
(* processes, as long as they take turns and none is killed as it writes   *)
(* (while a child writes, it may show nothing); and paging through a       *)
(* history shows its last entries once each, newest first.                 *)
ShownCounts ==
  \A o \in Orbs \ blurred : Shown(o) = recorded[o] \/ (file[o] = Torn /\ ~WebServes(o))

Kept(m) == IF m.requests < RingMax THEN m.requests ELSE RingMax

PagesCover ==
  \A p \in Procs, size \in 1 .. RingMax :
    LET m == mem[p]
        pages == TotalPages(m.history, size)
        Left(page) == Kept(m) - (page - 1) * size
    IN /\ \A page \in 1 .. pages :
            Page(m.history, page, size) =
              [i \in 1 .. (IF Left(page) < size THEN Left(page) ELSE size)
                 |-> m.requests - (page - 1) * size - i + 1]
       /\ Left(pages + 1) <= 0

MetricsKept == ShownCounts /\ PagesCover

(* A client that leaves in the middle of a line costs at most one call of  *)
(* the others its answer: no other call to a living child is given up.     *)
OneLostPerCut == lost <= cuts

(* Every request has its response in the end, end of input or not, unless  *)
(* its client left, stdout was closed or the gateway was killed.           *)
Excused(q) == pc[q] \in {"left", "killed"} \/ writer = "broken"

EveryRequestAnswered ==
  \A q \in Requests :
    pc[q] = "handling" \/ pc[q] = "sending" ~>
      q \in got \/ Excused(q) \/ (pc[q] = "done" /\ replies[q] = <<>>)

(* However the gateway ends, its children end too, also those shutdown()   *)
(* does not find: when main returns they are dropped, and were spawned     *)
(* with kill_on_drop (runtime_manager.rs:515), though the comment and the  *)
(* message of Drop (454-457) call them orphaned; and when the gateway is   *)
(* killed, with no drop run, their input ends.                             *)
NoChildOutlives == gate = "down" ~> \A p \in ChildProcs : ~Alive(p)
=============================================================================
