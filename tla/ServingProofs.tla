---------------------------- MODULE ServingProofs ----------------------------
(***************************************************************************)
(* Proofs about Serving, for any Orbs, requests, worlds and bounds.        *)
(***************************************************************************)
EXTENDS Serving, SequenceFacts
LOCAL INSTANCE SequencesExt

Labels == {"none", "unsent", "handling", "starting", "queued", "writing", "waiting", "sending", "done",
           "left", "dropped", "killed"}
Stages == {"serve", "record", "sync", "answer"}
Histories == {h \in Seq(Nat) : Len(h) <= RingMax}
Metrics == [requests : Nat, searches : Nat, stdio : Nat, http : Nat, history : Histories]

-----------------------------------------------------------------------------
(* The kinds of values of the variables, by module.                        *)
Work(p) ==
  busy[p] # Idle => DOMAIN busy[p] = {"call", "item", "stage", "answer"} /\ busy[p].stage \in Stages

ProcessesTyped ==
  /\ proc \in [Procs -> {"none", "starting", "up", "ended"}]
  /\ orbOf \in [Procs -> Orbs] /\ blurred \subseteq Orbs
  /\ DOMAIN pipe = Procs /\ DOMAIN busy = Procs /\ DOMAIN found = Procs
  /\ \A p \in Procs : IsSequence(pipe[p]) /\ Work(p)
  /\ mem \in [Procs -> Metrics] /\ file \in [Orbs -> Metrics \cup {Torn}] /\ recorded \in [Orbs -> Nat]

FrontTyped ==
  /\ gate \in {"serving", "draining", "exiting", "down"} /\ writer \in {"on", "broken"}
  /\ IsSequence(channel) /\ Len(channel) <= ChannelCap /\ ToSet(channel) \subseteq Requests
  /\ got \subseteq Requests

(* Every item that is left came with its request.                          *)
FromAsk(q) ==
  \A item \in ToSet(todo[q]) :
    q \in DOMAIN world.ask /\ \E i \in DOMAIN world.ask[q].items : item = Named(world.ask[q].items[i])

AtChild(q) == pc[q] \in {"starting", "queued", "writing", "waiting"}

TaskTyped(q) ==
  /\ IsSequence(todo[q]) /\ IsSequence(replies[q]) /\ Len(todo[q]) <= MaxItems /\ FromAsk(q)
  /\ pc[q] = "unsent" => q \in DOMAIN world.ask /\ todo[q] = <<>>
  /\ AtChild(q) => todo[q] # <<>> /\ Head(todo[q]).to.orb \in Orbs
  /\ pc[q] \in {"writing", "waiting"} => target[q] # None

TasksTyped ==
  /\ pc \in [Requests -> Labels] /\ DOMAIN todo = Requests /\ DOMAIN replies = Requests
  /\ target \in [Requests -> ChildProcs \cup {None}]
  /\ \A q \in Requests : TaskTyped(q)

GuardTyped == lock \in Requests \cup {None} /\ \A q \in Requests : lock = q <=> pc[q] = "writing"

ChildrenTyped ==
  /\ GuardTyped /\ child \in [Orbs -> ChildProcs \cup {None}]
  /\ half \subseteq Procs /\ DOMAIN buffer = Procs /\ \A p \in Procs : IsSequence(buffer[p])
  /\ cuts \in Nat /\ lost \in Nat

Typed == world \in Worlds /\ ProcessesTyped /\ FrontTyped /\ TasksTyped /\ ChildrenTyped

-----------------------------------------------------------------------------
(* find_orb finds an Orb or none.                                          *)
LEMMA FindOrbType ==
  ASSUME world \in Worlds, NEW slug
  PROVE  FindOrb(slug) \in Orbs \cup {None}
<1> DEFINE L == world.listing
<1>1. Len(L) \in Nat /\ DOMAIN L = 1 .. Len(L)
  BY WorldsGiven
<1>4. \A i \in DOMAIN L : L[i] \in Orbs
  BY WorldsGiven
<1>2. CASE OrbsWith(slug) = {}
  BY <1>2 DEF FindOrb
<1>3. CASE OrbsWith(slug) # {}
  <2>1. OrbsWith(slug) \subseteq DOMAIN L /\ OrbsWith(slug) \subseteq Nat
    BY <1>1 DEF OrbsWith
  <2>2. \E i \in OrbsWith(slug) : \A j \in OrbsWith(slug) : i <= j
    BY <2>1, <1>3, Least
  <2> DEFINE c == CHOOSE i \in OrbsWith(slug) : \A j \in OrbsWith(slug) : i <= j
  <2>3. c \in OrbsWith(slug)
    BY <2>2
  <2>4. FindOrb(slug) = L[c]
    BY <1>3, Zenon DEF FindOrb
  <2> HIDE DEF c
  <2>5. c \in DOMAIN L
    BY <2>1, <2>3
  <2> HIDE DEF L
  <2>6. L[c] \in Orbs
    BY <1>4, <2>5
  <2> QED
    BY <2>4, <2>6, Zenon
<1> QED
  BY <1>2, <1>3

(* What Named adds, and what it leaves.                                    *)
LEMMA NamedFacts ==
  ASSUME world \in Worlds, NEW q \in DOMAIN world.ask, NEW i \in DOMAIN world.ask[q].items
  PROVE  LET x == world.ask[q].items[i]
             named == With(x, "name", NameFor(x))
         IN /\ \A f \in DOMAIN x : Named(x)[f] = x[f] /\ named[f] = x[f]
            /\ Named(x).kind = x.kind /\ named.kind = x.kind
            /\ Named(x).name = NameFor(x) /\ named.name = NameFor(x)
            /\ Named(x).to = TargetOf(named)
            /\ Named(x).to.orb \in Orbs \cup {None}
            /\ DOMAIN Named(x) = DOMAIN x \cup {"name", "to"}
<1> DEFINE x == world.ask[q].items[i]
           named == With(x, "name", NameFor(x))
<1>1. "kind" \in DOMAIN x /\ "name" \notin DOMAIN x /\ "to" \notin DOMAIN x
  BY WorldsGiven DEF Whole
<1> HIDE DEF x
<1>2. /\ DOMAIN named = DOMAIN x \cup {"name"} /\ named.name = NameFor(x)
      /\ \A f \in DOMAIN x : named[f] = x[f]
  BY <1>1 DEF With
<1>3. Named(x) = With(named, "to", TargetOf(named))
  BY DEF Named
<1> HIDE DEF named
<1>4. /\ \A f \in DOMAIN named : Named(x)[f] = named[f]
      /\ Named(x).to = TargetOf(named)
      /\ DOMAIN Named(x) = DOMAIN x \cup {"name", "to"}
  BY <1>1, <1>2, <1>3 DEF With
<1>5. TargetOf(named).orb \in Orbs \cup {None}
  <2>1. \A s : FindOrb(s) \in Orbs \cup {None}
    BY FindOrbType
  <2>2. ToolTarget(named).orb \in Orbs \cup {None}
    BY <2>1 DEF ToolTarget
  <2>3. ResourceTarget(named).orb \in Orbs \cup {None}
    BY <2>1 DEF ResourceTarget
  <2> QED
    BY <2>2, <2>3 DEF TargetOf
<1> QED
  BY <1>1, <1>2, <1>4, <1>5, Zenon DEF x, named

-----------------------------------------------------------------------------
(* Typed holds at the start.                                               *)
LEMMA InitTyped == Init => Typed
<1> SUFFICES ASSUME Init PROVE Typed
  OBVIOUS
<1>1. world \in Worlds /\ world.listing[1] \in Orbs
  <2>1. world \in Worlds
    BY DEF Init
  <2>2. Len(world.listing) \in Nat /\ DOMAIN world.listing = 1 .. Len(world.listing) /\ world.listing # <<>>
    BY <2>1, WorldsGiven
  <2>3. Len(world.listing) # 0
    <3>1. SUFFICES ASSUME Len(world.listing) = 0 PROVE FALSE
      OBVIOUS
    <3> QED
      BY <2>1, <2>2, <3>1, WorldsGiven
  <2> QED
    BY <2>1, <2>2, <2>3, WorldsGiven
<1>2. Zero \in Metrics
  BY ProcessConstants, SeqNone DEF Zero, Metrics, Histories
<1>3. ProcessesTyped
  BY <1>1, <1>2, SeqNone DEF Init, ProcessesTyped, Work
<1>4. FrontTyped
  BY SeqNone, ServingConstants DEF Init, FrontTyped
<1>5. TasksTyped
  BY SeqNone, ProcessConstants DEF Init, TasksTyped, TaskTyped, Labels, FromAsk, AtChild
<1>6. ChildrenTyped
  BY SeqNone, ProcessConstants DEF Init, GuardTyped, ChildrenTyped
<1> QED
  BY <1>1, <1>3, <1>4, <1>5, <1>6 DEF Typed

(* The call in hand names a child.                                         *)
LEMMA CallTyped ==
  ASSUME Typed, NEW q \in Requests, todo[q] # <<>>
  PROVE  /\ Call(q) \in ChildProcs /\ Head(todo[q]) \in ToSet(todo[q])
         /\ Head(todo[q]).to.orb \in Orbs \cup {None}
<1>1. IsSequence(todo[q]) /\ Len(todo[q]) <= MaxItems /\ FromAsk(q)
  BY DEF Typed, TasksTyped, TaskTyped
<1>2. Head(todo[q]) \in ToSet(todo[q]) /\ Len(todo[q]) \in Nat \ {0}
  BY <1>1, SeqTail
<1>3. Call(q) \in ChildProcs
  BY <1>1, <1>2, ProcessConstants DEF Call, ChildProcs
<1>4. Head(todo[q]).to.orb \in Orbs \cup {None}
  BY <1>1, <1>2, NamedFacts DEF FromAsk, Typed
<1> QED
  BY <1>2, <1>3, <1>4

(* What starts and ends processes keeps their kinds of values.             *)
LEMMA LaunchTyped ==
  ASSUME ProcessesTyped, NEW p \in Procs, NEW o \in Orbs, Launch(p, o)
  PROVE  ProcessesTyped'
<1>1. Zero \in Metrics
  BY ProcessConstants, SeqNone DEF Zero, Metrics, Histories
<1> QED
  BY <1>1, SeqNone DEF ProcessesTyped, Launch, Work, WithFile

LEMMA EndedTyped ==
  ASSUME ProcessesTyped, NEW ps \in SUBSET Procs, Ended(ps)
  PROVE  ProcessesTyped'
<1>1. Zero \in Metrics
  BY ProcessConstants, SeqNone DEF Zero, Metrics, Histories
<1> QED
  BY <1>1, SeqNone DEF ProcessesTyped, Ended, Work, Alive

(* A recorded search leaves metrics metrics.                               *)
LEMMA RecordedTyped ==
  ASSUME NEW m \in Metrics, NEW t \in {"stdio", "http"}
  PROVE  Recorded(m, t) \in Metrics
<1> DEFINE all == Append(m.history, m.requests + 1)
<1>1. m.history \in Seq(Nat) /\ Len(m.history) <= RingMax /\ m.requests + 1 \in Nat
  BY DEF Metrics, Histories
<1>2. all \in Seq(Nat) /\ Len(all) = Len(m.history) + 1 /\ all # <<>>
  BY <1>1, AppendProperties
<1>3. Tail(all) \in Seq(Nat) /\ Len(Tail(all)) = Len(all) - 1
  BY <1>2, HeadTailProperties
<1> HIDE DEF all
<1> DEFINE history == IF Len(all) > RingMax THEN Tail(all) ELSE all
<1>4. history \in Histories
  BY <1>1, <1>2, <1>3, ProcessConstants, LenProperties DEF Histories
<1>5. Recorded(m, t) = [m EXCEPT !.requests = @ + 1, !.searches = @ + 1, ![t] = @ + 1, !.history = history]
  BY DEF Recorded, all
<1> HIDE DEF history
<1> DEFINE m1 == [m EXCEPT !.requests = m.requests + 1]
           m2 == [m1 EXCEPT !.searches = m1.searches + 1]
           m3 == [m2 EXCEPT ![t] = m2[t] + 1]
<1>6. m1 \in Metrics
  BY DEF Metrics
<1>7. m2 \in Metrics
  <2> HIDE DEF m1
  <2> QED
    BY <1>6 DEF Metrics
<1>8. m3 \in Metrics
  <2> HIDE DEF m2
  <2>1. CASE t = "stdio"
    BY <1>7, <2>1 DEF Metrics
  <2>2. CASE t = "http"
    BY <1>7, <2>2 DEF Metrics
  <2> QED
    BY <2>1, <2>2
<1>9. Recorded(m, t) = [m3 EXCEPT !.history = history]
  BY <1>5
<1>10. [m3 EXCEPT !.history = history] \in Metrics
  <2> HIDE DEF m3
  <2> QED
    BY <1>4, <1>8 DEF Metrics
<1> QED
  BY <1>9, <1>10

LEMMA AppendNotEmpty == ASSUME NEW s, NEW e, IsSequence(s) PROVE Append(s, e) # <<>>
<1>1. Len(Append(s, e)) = Len(s) + 1 /\ Len(s) \in Nat
  BY SeqAppend, SeqShape
<1> QED
  BY <1>1, SeqNone

(* A flush writes the lines it is given, the first of them perhaps as Junk. *)
LEMMA GluedFacts ==
  ASSUME NEW p, NEW lines, IsSequence(lines), lines # <<>>
  PROVE  IsSequence(Glued(p, lines)) /\ ToSet(Glued(p, lines)) \subseteq ToSet(lines) \cup {Junk}
<1>1. IsSequence(Tail(lines)) /\ ToSet(Tail(lines)) \subseteq ToSet(lines)
  BY SeqTail
<1>2. IsSequence(<<Junk>> \o Tail(lines)) /\ ToSet(<<Junk>> \o Tail(lines)) = {Junk} \cup ToSet(Tail(lines))
  BY <1>1, SeqOne, SeqConcat
<1> QED
  BY <1>1, <1>2 DEF Glued

LEMMA AnsweringTyped ==
  ASSUME DOMAIN busy = Procs, NEW p \in Procs, busy[p] # Idle, \A r \in Procs : Work(r), NEW a, Answering(p, a)
  PROVE  DOMAIN busy' = Procs /\ \A r \in Procs : Work(r)'
BY DEF Answering, Work, Stages

(* The steps of a process.                                                 *)
LEMMA ServeTyped ==
  ASSUME ProcessesTyped, NEW p \in Procs, Serve(p)
  PROVE  ProcessesTyped'
<1>1. DOMAIN busy = Procs /\ busy[p] # Idle /\ \A r \in Procs : Work(r)
  BY DEF Serve, ProcessesTyped
<1> DEFINE BusyTyped == DOMAIN busy' = Procs /\ DOMAIN found' = Procs /\ \A r \in Procs : Work(r)'
<1>2. ASSUME NEW a, Answering(p, a), UNCHANGED found PROVE BusyTyped
  BY <1>1, <1>2, AnsweringTyped DEF ProcessesTyped
<1>3. ASSUME NEW item, Search(p, item) PROVE BusyTyped
  <2>1. CASE \E a : Answering(p, a) /\ UNCHANGED found
    BY <2>1, <1>2
  <2>2. CASE /\ busy' = [busy EXCEPT ![p].stage = "record"]
             /\ \E s : found' = [found EXCEPT ![p] = s]
    BY <2>2, <1>1 DEF Work, Stages, ProcessesTyped
  <2> QED
    BY <1>3, <2>1, <2>2 DEF Search
<1>4. ASSUME NEW item, CallTool(p, item) PROVE BusyTyped
  BY <1>2, <1>3, <1>4 DEF CallTool
<1>5. BusyTyped
  BY <1>2, <1>4 DEF Serve
<1> QED
  BY <1>5 DEF Serve, ProcessesTyped

LEMMA WorkerTyped ==
  ASSUME world \in Worlds, ProcessesTyped, NEW p \in Procs, Take(p) \/ Serve(p) \/ Record(p) \/ Sync(p)
  PROVE  ProcessesTyped'
<1>1. CASE Take(p)
  <2>1. IsSequence(Tail(pipe[p]))
    BY <1>1, SeqTail DEF Take, ProcessesTyped
  <2> QED
    BY <1>1, <2>1 DEF Take, ProcessesTyped, Work, Stages
<1>2. CASE Serve(p)
  BY <1>2, ServeTyped
<1>3. CASE Record(p)
  <2>1. world.transport \in {"stdio", "http"}
    BY WorldsGiven
  <2> DEFINE t == IF p = Web THEN "http" ELSE world.transport
  <2>2. Recorded(mem[p], t) \in Metrics
    BY <2>1, RecordedTyped DEF ProcessesTyped
  <2>3. mem' = [mem EXCEPT ![p] = Recorded(mem[p], t)]
    BY <1>3 DEF Record
  <2> HIDE DEF t
  <2>4. mem' \in [Procs -> Metrics]
    BY <2>2, <2>3 DEF ProcessesTyped
  <2> QED
    BY <1>3, <2>4 DEF Record, ProcessesTyped, Work, Stages
<1>4. CASE Sync(p)
  <2>1. DOMAIN busy' = Procs /\ \A r \in Procs : Work(r)'
    BY <1>4, AnsweringTyped DEF Sync, ProcessesTyped
  <2> QED
    BY <1>4, <2>1 DEF Sync, ProcessesTyped
<1> QED
  BY <1>1, <1>2, <1>3, <1>4

LEMMA AskTyped == ASSUME ProcessesTyped, Ask PROVE ProcessesTyped'
<1>1. Web \in Procs
  BY DEF Procs
<1>2. \A m \in Metrics : \A item : CountedFirst(m, item) \in Metrics
  BY DEF CountedFirst, Metrics
<1> QED
  BY <1>1, <1>2 DEF Ask, ProcessesTyped, Work, Stages

-----------------------------------------------------------------------------
(* Every step keeps the processes' kinds of values.                        *)
LEMMA ProcessesStep ==
  ASSUME Typed, [Next]_vars
  PROVE  ProcessesTyped'
<1> USE DEF Typed
<1>0. ChildProcs \subseteq Procs
  BY DEF Procs
<1>1. CASE UNCHANGED processes
  BY <1>1 DEF processes, ProcessesTyped, Work
<1>2. ASSUME NEW q \in Requests, Ensure(q) PROVE ProcessesTyped'
  BY <1>0, <1>1, <1>2, CallTyped, LaunchTyped DEF Ensure, AtItem
<1>3. ASSUME NEW q \in Requests, Started(q) PROVE ProcessesTyped'
  <2>1. Call(q) \in ChildProcs
    BY <1>3, CallTyped DEF Started, TasksTyped, TaskTyped, AtChild
  <2> QED
    BY <1>0, <1>3, <2>1, EndedTyped DEF Started, ProcessesTyped, Work
<1>4. ASSUME NEW q \in Requests, NotStarted(q) PROVE ProcessesTyped'
  <2>1. Call(q) \in ChildProcs
    BY <1>4, CallTyped DEF NotStarted, TasksTyped, TaskTyped, AtChild
  <2> QED
    BY <1>0, <1>4, <2>1, EndedTyped DEF NotStarted
<1>5. ASSUME NEW q \in Requests, Write(q) PROVE ProcessesTyped'
  <2> DEFINE p == target[q]
             lines == Append(buffer[p], Line(q))
  <2>1. p \in Procs
    BY <1>0, <1>5 DEF Write, TasksTyped, TaskTyped
  <2>2. IsSequence(lines) /\ lines # <<>>
    BY <2>1, AppendNotEmpty, SeqAppend DEF ChildrenTyped
  <2>3. IsSequence(pipe[p] \o Glued(p, lines))
    BY <2>1, <2>2, GluedFacts, SeqConcat DEF ProcessesTyped
  <2> QED
    BY <1>5, <2>1, <2>3 DEF Write, ProcessesTyped, Work
<1>6. ASSUME NEW q \in Requests, Leave(q) PROVE ProcessesTyped'
  <2>1. CASE pc[q] = "starting" /\ Ended({Call(q)})
    <3>1. Call(q) \in ChildProcs
      BY <2>1, CallTyped DEF TasksTyped, TaskTyped, AtChild
    <3> QED
      BY <1>0, <2>1, <3>1, EndedTyped
  <2>2. CASE /\ pc[q] = "writing" /\ CutLine(q)
             /\ UNCHANGED <<proc, orbOf, busy, found, mem, file, recorded, blurred>>
    <3> DEFINE p == target[q]
    <3>1. p \in Procs /\ IsSequence(buffer[p])
      BY <1>0, <2>2 DEF TasksTyped, TaskTyped, ChildrenTyped
    <3>2. buffer[p] # <<>> => IsSequence(pipe[p] \o Glued(p, buffer[p]))
      BY <3>1, GluedFacts, SeqConcat DEF ProcessesTyped
    <3>3. IsSequence(pipe[p] \o <<>>)
      BY <3>1, SeqNone, SeqConcat DEF ProcessesTyped
    <3> QED
      BY <2>2, <3>1, <3>2, <3>3 DEF CutLine, ProcessesTyped, Work
  <2> QED
    BY <1>1, <1>6, <2>1, <2>2 DEF Leave
<1>7. ASSUME NEW p \in Procs, Working(p) PROVE ProcessesTyped'
  <2>1. CASE Deliver(p)
    BY <2>1, EndedTyped DEF Deliver, ProcessesTyped, Work
  <2> QED
    BY <1>7, <2>1, WorkerTyped, EndedTyped DEF Working, EndOfInput
<1>8. ASSUME NEW p \in Procs, Die(p) PROVE ProcessesTyped'
  BY <1>8, EndedTyped DEF Die
<1>9. CASE Ask
  BY <1>9, AskTyped
<1>10. CASE InputEnds
  BY <1>10, EndedTyped DEF InputEnds, Procs
<1>11. CASE Shutdown
  <2>1. {child[o] : o \in Orbs} \ {None} \in SUBSET Procs
    BY <1>0 DEF ChildrenTyped
  <2> QED
    BY <1>11, <2>1, EndedTyped DEF Shutdown
<1>12. CASE Exit
  BY <1>0, <1>12, EndedTyped DEF Exit
<1>13. ASSUME NEW o \in Orbs, Reap(o) PROVE ProcessesTyped'
  BY <1>0, <1>13, EndedTyped DEF Reap, ChildrenTyped
<1>14. ASSUME NEW q \in Requests, Arrive(q) \/ AnswerOwn(q) \/ TakeLock(q) \/ GiveUp(q) \/ Finish(q) \/ Send(q)
       PROVE  ProcessesTyped'
  BY <1>1, <1>14 DEF Arrive, AnswerOwn, TakeLock, GiveUp, Finish, Send
<1>15. CASE WriterWrites \/ CloseInput \/ KillGateway
  BY <1>1, <1>15 DEF WriterWrites, CloseInput, KillGateway
<1>16. CASE UNCHANGED vars
  BY <1>1, <1>16 DEF vars
<1> QED
  BY <1>2, <1>3, <1>4, <1>5, <1>6, <1>7, <1>8, <1>9, <1>10, <1>11, <1>12, <1>13, <1>14, <1>15, <1>16
     DEF Next, TaskStep

(* Every step keeps the front ends' kinds of values.                       *)
LEMMA FrontStep ==
  ASSUME Typed, [Next]_vars
  PROVE  FrontTyped'
<1> USE DEF Typed
<1>1. CASE UNCHANGED frontEnd
  BY <1>1 DEF frontEnd, FrontTyped
<1>2. ASSUME NEW q \in Requests, Arrive(q) PROVE FrontTyped'
  BY <1>2 DEF Arrive, FrontTyped
<1>3. ASSUME NEW q \in Requests, Finish(q) PROVE FrontTyped'
  BY <1>3 DEF Finish, FrontTyped
<1>4. ASSUME NEW q \in Requests, Send(q) PROVE FrontTyped'
  <2>1. /\ IsSequence(Append(channel, q)) /\ ToSet(Append(channel, q)) = ToSet(channel) \cup {q}
        /\ Len(Append(channel, q)) = Len(channel) + 1 /\ Len(channel) \in Nat
    BY SeqAppend, SeqShape DEF FrontTyped
  <2>2. CASE UNCHANGED channel
    BY <1>4, <2>2 DEF Send, FrontTyped
  <2>3. CASE Len(channel) < ChannelCap /\ channel' = Append(channel, q)
    BY <1>4, <2>1, <2>3, ServingConstants DEF Send, FrontTyped
  <2> QED
    BY <1>4, <2>2, <2>3 DEF Send
<1>5. CASE WriterWrites
  <2>1. /\ IsSequence(Tail(channel)) /\ ToSet(Tail(channel)) \subseteq ToSet(channel)
        /\ Head(channel) \in ToSet(channel) /\ Len(channel) \in Nat \ {0}
        /\ Len(Tail(channel)) = Len(channel) - 1
    BY <1>5, SeqTail DEF WriterWrites, FrontTyped
  <2>2. CASE got' = got \cup {Head(channel)} /\ channel' = Tail(channel) /\ UNCHANGED writer
    BY <1>5, <2>1, <2>2, ServingConstants DEF WriterWrites, FrontTyped
  <2>3. CASE writer' = "broken" /\ channel' = <<>> /\ UNCHANGED got
    BY <1>5, <2>3, SeqNone, ServingConstants DEF WriterWrites, FrontTyped
  <2> QED
    BY <1>5, <2>2, <2>3 DEF WriterWrites
<1>6. CASE CloseInput \/ Shutdown \/ Exit \/ KillGateway
  BY <1>6 DEF CloseInput, Shutdown, Exit, KillGateway, FrontTyped
<1>7. ASSUME NEW q \in Requests,
             AnswerOwn(q) \/ Ensure(q) \/ Started(q) \/ NotStarted(q) \/ TakeLock(q) \/ Write(q) \/ GiveUp(q) \/ Leave(q)
      PROVE  FrontTyped'
  BY <1>1, <1>7 DEF AnswerOwn, Ensure, Started, NotStarted, TakeLock, Write, GiveUp, Leave
<1>8. ASSUME NEW p \in Procs, Working(p) PROVE FrontTyped'
  BY <1>1, <1>8 DEF Working, Deliver, EndOfInput
<1>9. CASE UNCHANGED vars
  BY <1>1, <1>9 DEF vars
<1>10. ASSUME NEW o \in Orbs, Reap(o) PROVE FrontTyped'
  BY <1>1, <1>10 DEF Reap
<1> QED
  BY <1>1, <1>2, <1>3, <1>4, <1>5, <1>6, <1>7, <1>8, <1>9, <1>10 DEF Next, TaskStep

-----------------------------------------------------------------------------
(* Where items go does not change.                                         *)
LEMMA NamedSame == ASSUME world' = world, NEW x PROVE Named(x)' = Named(x)
BY DEF Named, With, NameFor, TargetOf, ToolTarget, ResourceTarget, FindOrb, OrbsWith, SlugOf

(* A task that does not move stays as it is.                               *)
LEMMA IdleTyped ==
  ASSUME NEW q \in Requests, TaskTyped(q), world' = world, pc'[q] = pc[q], todo'[q] = todo[q],
         replies'[q] = replies[q], target'[q] = target[q]
  PROVE  TaskTyped(q)'
BY NamedSame DEF TaskTyped, FromAsk, AtChild

(* An answer, and the items it leaves.                                     *)
LEMMA AnsweredTyped ==
  ASSUME Typed, NEW q \in Requests, todo[q] # <<>>, NEW a, NEW o, NEW u, Answered(q, a, o, u),
         world' = world, target' = target
  PROVE  TasksTyped'
<1>1. /\ IsSequence(Tail(todo[q])) /\ ToSet(Tail(todo[q])) \subseteq ToSet(todo[q])
      /\ Len(todo[q]) \in Nat /\ Len(Tail(todo[q])) = Len(todo[q]) - 1 /\ Len(todo[q]) <= MaxItems
  BY SeqTail DEF Typed, TasksTyped, TaskTyped
<1>2. Len(Tail(todo[q])) <= MaxItems
  BY <1>1, ProcessConstants
<1> DEFINE r == Reply(Head(todo[q]), a, o, u)
<1>3. IsSequence(Append(replies[q], r))
  BY SeqAppend DEF Typed, TasksTyped, TaskTyped
<1>4. /\ replies' = [replies EXCEPT ![q] = Append(replies[q], r)]
      /\ todo' = [todo EXCEPT ![q] = Tail(todo[q])] /\ pc' = [pc EXCEPT ![q] = "handling"]
  BY DEF Answered, Goto
<1> HIDE DEF r
<1>5. /\ pc' \in [Requests -> Labels] /\ DOMAIN todo' = Requests /\ DOMAIN replies' = Requests
      /\ pc'[q] = "handling" /\ todo'[q] = Tail(todo[q]) /\ replies'[q] = Append(replies[q], r)
      /\ \A x \in Requests \ {q} : pc'[x] = pc[x] /\ todo'[x] = todo[x] /\ replies'[x] = replies[x]
  BY <1>4 DEF Typed, TasksTyped, Labels
<1>6. FromAsk(q)'
  BY <1>1, <1>5, NamedSame DEF Typed, TasksTyped, TaskTyped, FromAsk
<1>7. TaskTyped(q)'
  BY <1>1, <1>2, <1>3, <1>5, <1>6 DEF TaskTyped, AtChild
<1>8. \A x \in Requests \ {q} : TaskTyped(x)'
  BY <1>5, IdleTyped DEF Typed, TasksTyped
<1> QED
  BY <1>5, <1>7, <1>8 DEF Typed, TasksTyped

(* The items of a request that has arrived.                                *)
LEMMA ArrivedTyped ==
  ASSUME Typed, NEW q \in Requests, Arrive(q)
  PROVE  TasksTyped'
<1> DEFINE ask == world.ask[q]
           items == [i \in DOMAIN ask.items |-> Named(ask.items[i])]
<1>1. q \in DOMAIN world.ask /\ todo[q] = <<>> /\ world \in Worlds /\ world' = world /\ target' = target
  BY DEF Arrive, Typed, TasksTyped, TaskTyped
<1>2. Len(ask.items) \in 0 .. MaxItems /\ DOMAIN ask.items = 1 .. Len(ask.items)
  BY <1>1, WorldsGiven
<1>3. /\ pc' \in [Requests -> Labels] /\ DOMAIN todo' = Requests /\ DOMAIN replies' = Requests
      /\ pc'[q] \in {"handling", "sending", "done"} /\ IsSequence(replies'[q])
      /\ \A x \in Requests \ {q} : pc'[x] = pc[x] /\ todo'[x] = todo[x] /\ replies'[x] = replies[x]
  <2>1. \A r : IsSequence(<<r>>)
    BY SeqOne
  <2>2. \E l \in {"handling", "sending", "done"} : pc' = [pc EXCEPT ![q] = l]
    BY DEF Arrive, Goto
  <2>3. replies' = replies \/ \E r : replies' = [replies EXCEPT ![q] = <<r>>]
    BY DEF Arrive
  <2>4. todo' = todo \/ \E s : todo' = [todo EXCEPT ![q] = s]
    BY DEF Arrive
  <2> QED
    BY <2>1, <2>2, <2>3, <2>4 DEF Typed, TasksTyped, TaskTyped, Labels
<1>4. TaskTyped(q)'
  <2>1. CASE todo' = todo
    BY <1>1, <1>3, <2>1, NamedSame DEF Typed, TasksTyped, TaskTyped, FromAsk, AtChild
  <2>2. CASE todo' = [todo EXCEPT ![q] = items]
    <3>1. items \in [1 .. Len(ask.items) -> {Named(ask.items[i]) : i \in DOMAIN ask.items}]
      BY <1>2
    <3>2. items \in Seq({Named(ask.items[i]) : i \in DOMAIN ask.items})
      BY <1>2, <3>1
    <3>3. Len(items) = Len(ask.items)
      BY <1>2, <3>1, <3>2, LenProperties
    <3> HIDE DEF items
    <3>4. IsSequence(items) /\ ToSet(items) \subseteq {Named(ask.items[i]) : i \in DOMAIN ask.items}
      BY <3>2, SeqIntro
    <3>5. todo'[q] = items
      BY <2>2 DEF Typed, TasksTyped
    <3>6. FromAsk(q)'
      BY <1>1, <3>4, <3>5, NamedSame DEF FromAsk
    <3> QED
      BY <1>2, <1>3, <3>3, <3>4, <3>5, <3>6, ProcessConstants DEF TaskTyped, AtChild
  <2> QED
    BY <2>1, <2>2 DEF Arrive
<1>5. \A x \in Requests \ {q} : TaskTyped(x)'
  BY <1>1, <1>3, IdleTyped DEF Typed, TasksTyped
<1> QED
  BY <1>1, <1>3, <1>4, <1>5 DEF Typed, TasksTyped

(* A task that moves to another place, with the items it has.              *)
LEMMA MoveTyped ==
  ASSUME Typed, world' = world, NEW q \in Requests, NEW l \in Labels \ {"unsent"}, Goto(q, l),
         UNCHANGED <<todo, replies>>, target' \in [Requests -> ChildProcs \cup {None}],
         \A x \in Requests \ {q} : target'[x] = target[x],
         l \in {"starting", "queued", "writing", "waiting"} => todo[q] # <<>> /\ Head(todo[q]).to.orb \in Orbs,
         l \in {"writing", "waiting"} => target'[q] # None
  PROVE  TasksTyped'
<1>1. pc' \in [Requests -> Labels] /\ pc'[q] = l /\ \A x \in Requests \ {q} : pc'[x] = pc[x]
  BY DEF Goto, Typed, TasksTyped
<1>2. TaskTyped(q)'
  BY <1>1, NamedSame DEF Typed, TasksTyped, TaskTyped, FromAsk, AtChild
<1>3. \A x \in Requests \ {q} : TaskTyped(x)'
  BY <1>1, IdleTyped DEF Typed, TasksTyped
<1> QED
  BY <1>1, <1>2, <1>3 DEF Typed, TasksTyped

(* The tasks that the end of the gateway cuts off.                         *)
LEMMA CutTyped ==
  ASSUME Typed, world' = world, NEW l \in {"dropped", "killed"}, Cut(l), UNCHANGED <<todo, replies, target>>
  PROVE  TasksTyped'
<1>1. \A q \in Requests : TaskTyped(q)'
  <2> SUFFICES ASSUME NEW q \in Requests PROVE TaskTyped(q)'
    OBVIOUS
  <2>1. pc'[q] = l \/ pc'[q] = pc[q]
    BY DEF Cut, Typed, TasksTyped
  <2>2. CASE pc'[q] = pc[q]
    BY <2>2, IdleTyped DEF Typed, TasksTyped
  <2>3. CASE pc'[q] = l
    BY <2>3, NamedSame DEF Typed, TasksTyped, TaskTyped, FromAsk, AtChild
  <2> QED
    BY <2>1, <2>2, <2>3
<1> QED
  BY <1>1 DEF Cut, Typed, TasksTyped, Labels

-----------------------------------------------------------------------------
(* No step changes the world.                                              *)
LEMMA WorldSame == ASSUME [Next]_vars PROVE world' = world
<1>1. ASSUME NEW q \in Requests, Arrive(q) \/ AnswerOwn(q) \/ Ensure(q) \/ Started(q) \/ NotStarted(q)
      PROVE  world' = world
  BY <1>1 DEF Arrive, AnswerOwn, Ensure, Started, NotStarted
<1>2. ASSUME NEW q \in Requests, TakeLock(q) \/ Write(q) \/ GiveUp(q) \/ Finish(q) \/ Send(q) \/ Leave(q)
      PROVE  world' = world
  BY <1>2 DEF TakeLock, Write, GiveUp, Finish, Send, Leave
<1>3. ASSUME NEW p \in Procs, Working(p) PROVE world' = world
  BY <1>3 DEF Working, Deliver, EndOfInput
<1>4. CASE WriterWrites \/ CloseInput \/ Shutdown \/ Exit \/ KillGateway \/ (\E o \in Orbs : Reap(o)) \/ UNCHANGED vars
  BY <1>4 DEF WriterWrites, CloseInput, Shutdown, Exit, KillGateway, Reap, vars
<1> QED
  BY <1>1, <1>2, <1>3, <1>4 DEF Next, TaskStep

(* Every step keeps the tasks' kinds of values.                            *)
LEMMA TasksStep ==
  ASSUME Typed, [Next]_vars
  PROVE  TasksTyped'
<1>0. /\ world' = world
      /\ \A q \in Requests : AtChild(q) => todo[q] # <<>> /\ Head(todo[q]).to.orb \in Orbs
      /\ target \in [Requests -> ChildProcs \cup {None}]
  <2>1. \A q \in Requests : TaskTyped(q)
    BY DEF Typed, TasksTyped
  <2>2. \A q \in Requests : AtChild(q) => todo[q] # <<>> /\ Head(todo[q]).to.orb \in Orbs
    BY <2>1 DEF TaskTyped
  <2> QED
    BY <2>2, WorldSame DEF Typed, TasksTyped
<1>1. CASE UNCHANGED tasks
  <2>1. \A q \in Requests : TaskTyped(q)'
    BY <1>0, <1>1, IdleTyped DEF tasks, Typed, TasksTyped
  <2> QED
    BY <1>1, <2>1 DEF tasks, Typed, TasksTyped
<1>2. ASSUME NEW q \in Requests, Arrive(q) PROVE TasksTyped'
  BY <1>2, ArrivedTyped
<1>3. ASSUME NEW q \in Requests, AnswerOwn(q) PROVE TasksTyped'
  <2>1. CASE todo' = [todo EXCEPT ![q] = Tail(@)] /\ UNCHANGED <<replies, pc>>
    <3>1. /\ IsSequence(Tail(todo[q])) /\ ToSet(Tail(todo[q])) \subseteq ToSet(todo[q])
          /\ Len(todo[q]) \in Nat /\ Len(Tail(todo[q])) = Len(todo[q]) - 1 /\ Len(todo[q]) <= MaxItems
      BY <1>3, SeqTail DEF AnswerOwn, AtItem, Typed, TasksTyped, TaskTyped
    <3>2. Len(Tail(todo[q])) <= MaxItems
      BY <3>1, ProcessConstants
    <3>3. FromAsk(q)'
      BY <1>0, <2>1, <3>1, NamedSame DEF Typed, TasksTyped, TaskTyped, FromAsk
    <3>4. TaskTyped(q)'
      BY <1>0, <1>3, <2>1, <3>1, <3>2, <3>3 DEF AnswerOwn, AtItem, Typed, TasksTyped, TaskTyped, AtChild
    <3>5. \A x \in Requests \ {q} : TaskTyped(x)'
      BY <1>0, <1>3, <2>1, IdleTyped DEF AnswerOwn, Typed, TasksTyped
    <3> QED
      BY <1>3, <2>1, <3>4, <3>5 DEF AnswerOwn, Typed, TasksTyped
  <2>2. CASE Answered(q, Head(todo[q]).to.answer, None, Nowhere)
    BY <1>0, <1>3, <2>2, AnsweredTyped DEF AnswerOwn, AtItem
  <2> QED
    BY <1>3, <2>1, <2>2 DEF AnswerOwn
<1>4. ASSUME NEW q \in Requests, Ensure(q) PROVE TasksTyped'
  <2>1. todo[q] # <<>> /\ Head(todo[q]).to.orb \in Orbs
    BY <1>4, CallTyped DEF Ensure, AtItem
  <2>2. ASSUME NEW l \in {"queued", "starting"}, Goto(q, l) PROVE TasksTyped'
    BY <1>0, <1>4, <2>1, <2>2, MoveTyped DEF Ensure, Labels
  <2> QED
    BY <1>4, <2>2 DEF Ensure
<1>5. ASSUME NEW q \in Requests, Started(q) PROVE TasksTyped'
  BY <1>0, <1>5, MoveTyped DEF Started, AtChild, Labels
<1>6. ASSUME NEW q \in Requests, NotStarted(q) PROVE TasksTyped'
  BY <1>0, <1>6, MoveTyped, AnsweredTyped DEF NotStarted, AtChild, Labels
<1>7. ASSUME NEW q \in Requests, TakeLock(q) PROVE TasksTyped'
  <2> DEFINE p == child[Head(todo[q]).to.orb]
  <2>1. todo[q] # <<>> /\ p \in ChildProcs \cup {None}
    BY <1>0, <1>7 DEF TakeLock, AtChild, Typed, ChildrenTyped
  <2>2. CASE p = None
    BY <1>0, <1>7, <2>1, <2>2, AnsweredTyped DEF TakeLock
  <2>3. CASE p # None
    <3>1. target' = [target EXCEPT ![q] = p] /\ Goto(q, "writing") /\ UNCHANGED <<todo, replies>>
      BY <1>7, <2>3 DEF TakeLock
    <3> HIDE DEF p
    <3> QED
      BY <1>0, <1>7, <2>1, <2>3, <3>1, MoveTyped DEF TakeLock, AtChild, Labels
  <2> QED
    BY <2>2, <2>3
<1>8. ASSUME NEW q \in Requests, Write(q) PROVE TasksTyped'
  <2>1. todo[q] # <<>> /\ target[q] # None /\ target' = target
    BY <1>0, <1>8 DEF Write, AtChild, Typed, TasksTyped, TaskTyped
  <2> QED
    BY <1>0, <1>8, <2>1, MoveTyped, AnsweredTyped DEF Write, AtChild, Labels
<1>9. ASSUME NEW q \in Requests, GiveUp(q) PROVE TasksTyped'
  BY <1>0, <1>9, AnsweredTyped DEF GiveUp, AtChild
<1>10. ASSUME NEW q \in Requests, Leave(q) PROVE TasksTyped'
  <2>1. /\ pc' = [pc EXCEPT ![q] = "left"] /\ todo' = [todo EXCEPT ![q] = <<>>]
        /\ replies' = [replies EXCEPT ![q] = <<>>] /\ target' = target
    BY <1>10 DEF Leave, Goto
  <2>2. TaskTyped(q)'
    BY <2>1, SeqNone, ProcessConstants DEF Typed, TasksTyped, TaskTyped, FromAsk, AtChild
  <2>3. \A x \in Requests \ {q} : TaskTyped(x)'
    BY <1>0, <2>1, IdleTyped DEF Typed, TasksTyped
  <2> QED
    BY <2>1, <2>2, <2>3 DEF Typed, TasksTyped, Labels
<1>11. ASSUME NEW q \in Requests, Finish(q) PROVE TasksTyped'
  BY <1>0, <1>11, MoveTyped DEF Finish, Labels
<1>12. ASSUME NEW q \in Requests, Send(q) PROVE TasksTyped'
  BY <1>0, <1>12, MoveTyped DEF Send, Labels
<1>13. ASSUME NEW p \in Procs, Deliver(p) PROVE TasksTyped'
  <2> DEFINE Waits == \E q \in Requests : pc[q] = "waiting" /\ target[q] = p /\ Call(q) = busy[p].call
  <2>1. CASE UNCHANGED tasks
    BY <1>1, <2>1
  <2>2. CASE /\ Waits
             /\ target' = target
             /\ \E a, o, u : Answered(busy[p].call[1], a, o, u)
    <3>1. PICK q \in Requests : pc[q] = "waiting" /\ target[q] = p /\ Call(q) = busy[p].call
      BY <2>2
    <3>2. busy[p].call[1] = q
      BY <3>1 DEF Call
    <3> QED
      BY <1>0, <2>2, <3>1, <3>2, AnsweredTyped DEF AtChild
  <2> QED
    BY <1>13, <2>1, <2>2 DEF Deliver, tasks
<1>14. CASE Exit \/ KillGateway
  BY <1>0, <1>14, CutTyped DEF Exit, KillGateway
<1>15. CASE WriterWrites \/ CloseInput \/ Shutdown \/ UNCHANGED vars
  BY <1>1, <1>15 DEF WriterWrites, CloseInput, Shutdown, vars
<1>16. ASSUME NEW o \in Orbs, Reap(o) PROVE TasksTyped'
  BY <1>1, <1>16 DEF Reap
<1>17. ASSUME NEW p \in Procs, EndOfInput(p) PROVE TasksTyped'
  BY <1>1, <1>17 DEF EndOfInput
<1> QED
  BY <1>1, <1>2, <1>3, <1>4, <1>5, <1>6, <1>7, <1>8, <1>9, <1>10, <1>11, <1>12, <1>13, <1>14, <1>15, <1>16, <1>17
     DEF Next, TaskStep, Working

(* The write guard, when a call that does not write moves on.              *)
LEMMA GuardKept ==
  ASSUME Typed, NEW q \in Requests, NEW l \in Labels \ {"writing"}, Goto(q, l),
         \/ lock' = lock /\ pc[q] # "writing"
         \/ lock' = None /\ lock = q
  PROVE  GuardTyped'
BY ProcessConstants DEF Goto, Typed, TasksTyped, ChildrenTyped, GuardTyped

LEMMA ChildrenSame ==
  ASSUME ChildrenTyped, GuardTyped', UNCHANGED <<child, half, buffer, cuts>>, lost' \in Nat
  PROVE  ChildrenTyped'
BY DEF ChildrenTyped

(* Every step keeps what the gateway knows of its children in kind, and    *)
(* the write guard with the call that writes.                              *)
LEMMA ChildrenStep ==
  ASSUME Typed, [Next]_vars
  PROVE  ChildrenTyped'
<1> USE DEF Typed
<1>0. None \notin Requests /\ ChildProcs \subseteq Procs /\ lost \in Nat
  BY ProcessConstants DEF Procs, ChildrenTyped
<1>1. ASSUME NEW q \in Requests, Goto(q, "handling"), lock' = lock, pc[q] # "writing" PROVE GuardTyped'
  BY <1>1, GuardKept DEF Labels
<1>3. ASSUME UNCHANGED <<lock, pc>> PROVE GuardTyped'
  BY <1>3 DEF ChildrenTyped, GuardTyped
<1>5. ASSUME NEW q \in Requests, Arrive(q) \/ Ensure(q) \/ Finish(q) \/ Send(q) PROVE ChildrenTyped'
  <2>1. \E l \in Labels \ {"writing"} : Goto(q, l)
    BY <1>5 DEF Arrive, Ensure, Finish, Send, Labels
  <2>2. lock' = lock /\ pc[q] # "writing" /\ UNCHANGED <<child, half, buffer, cuts, lost>>
    BY <1>5 DEF Arrive, Ensure, AtItem, Finish, Send, children
  <2> QED
    BY <1>0, <2>1, <2>2, GuardKept, ChildrenSame
<1>6. ASSUME NEW q \in Requests, AnswerOwn(q) PROVE ChildrenTyped'
  <2>1. UNCHANGED pc \/ Goto(q, "handling")
    BY <1>6 DEF AnswerOwn, Answered
  <2>2. lock' = lock /\ pc[q] # "writing" /\ UNCHANGED <<child, half, buffer, cuts, lost>>
    BY <1>6 DEF AnswerOwn, AtItem, children
  <2> QED
    BY <1>0, <1>1, <1>3, <2>1, <2>2, ChildrenSame
<1>7. ASSUME NEW q \in Requests, Started(q) PROVE ChildrenTyped'
  <2>1. GuardTyped'
    BY <1>7, GuardKept DEF Started, Labels
  <2>2. Call(q) \in ChildProcs
    BY <1>7, CallTyped DEF Started, TasksTyped, TaskTyped, AtChild
  <2>3. child' \in [Orbs -> ChildProcs \cup {None}]
    BY <1>7, <2>2 DEF Started, ChildrenTyped
  <2> QED
    BY <1>7, <2>1, <2>3 DEF Started, ChildrenTyped
<1>8. ASSUME NEW q \in Requests, NotStarted(q) PROVE ChildrenTyped'
  <2>1. \E l \in Labels \ {"writing"} : Goto(q, l)
    BY <1>8 DEF NotStarted, Answered, Labels
  <2>2. lock' = lock /\ pc[q] # "writing" /\ UNCHANGED <<child, half, buffer, cuts, lost>>
    BY <1>8 DEF NotStarted, children
  <2> QED
    BY <1>0, <2>1, <2>2, GuardKept, ChildrenSame
<1>9. ASSUME NEW q \in Requests, TakeLock(q) PROVE ChildrenTyped'
  <2>1. CASE Goto(q, "handling") /\ UNCHANGED lock
    <3>1. GuardTyped'
      BY <1>1, <1>9, <2>1 DEF TakeLock
    <3> QED
      BY <1>0, <1>9, <3>1, ChildrenSame DEF TakeLock
  <2>2. CASE lock' = q /\ Goto(q, "writing")
    <3>1. GuardTyped'
      BY <1>0, <1>9, <2>2 DEF TakeLock, Goto, TasksTyped, ChildrenTyped, GuardTyped
    <3> QED
      BY <1>0, <1>9, <3>1, ChildrenSame DEF TakeLock
  <2> QED
    BY <1>9, <2>1, <2>2 DEF TakeLock, Answered
<1>10. ASSUME NEW q \in Requests, Write(q) PROVE ChildrenTyped'
  <2>1. lock = q /\ lock' = None
    BY <1>10 DEF Write, ChildrenTyped, GuardTyped
  <2>2. \E l \in Labels \ {"writing"} : Goto(q, l)
    BY <1>10 DEF Write, Answered, Labels
  <2>3. GuardTyped'
    BY <2>1, <2>2, GuardKept
  <2>4. half' \subseteq Procs /\ DOMAIN buffer' = Procs /\ \A p \in Procs : IsSequence(buffer'[p])
    BY <1>10, SeqNone DEF Write, Mended, ChildrenTyped
  <2> QED
    BY <1>10, <2>3, <2>4 DEF Write, ChildrenTyped
<1>11. ASSUME NEW q \in Requests, GiveUp(q) PROVE ChildrenTyped'
  <2>1. lost' \in Nat
    BY <1>0, <1>11 DEF GiveUp
  <2>2. GuardTyped'
    BY <1>1, <1>11 DEF GiveUp, Answered
  <2> QED
    BY <1>11, <2>1, <2>2, ChildrenSame DEF GiveUp
<1>12. ASSUME NEW q \in Requests, Leave(q) PROVE ChildrenTyped'
  <2>1. GuardTyped'
    <3>1. Goto(q, "left") /\ "left" \in Labels \ {"writing"}
      BY <1>12 DEF Leave, Labels
    <3>2. lock = q <=> pc[q] = "writing"
      BY DEF ChildrenTyped, GuardTyped
    <3>3. lock' = IF lock = q THEN None ELSE lock
      BY <1>12 DEF Leave
    <3> QED
      BY <3>1, <3>2, <3>3, GuardKept
  <2>2. CASE UNCHANGED <<half, buffer, cuts>>
    BY <1>0, <1>12, <2>1, <2>2, ChildrenSame DEF Leave
  <2>3. CASE CutLine(q) /\ pc[q] = "writing"
    <3> DEFINE p == target[q]
    <3>1. p \in Procs
      BY <1>0, <2>3 DEF TasksTyped, TaskTyped
    <3>2. IsSequence(<<>>) /\ IsSequence(Append(buffer[p], Line(q)))
      BY <3>1, SeqNone, SeqAppend DEF ChildrenTyped
    <3>3. (half' = half \/ half' = half \cup {p}) /\ (cuts' = cuts \/ cuts' = cuts + 1)
      BY <2>3 DEF CutLine
    <3>4. \E lines : IsSequence(lines) /\ buffer' = [buffer EXCEPT ![p] = lines]
      BY <2>3, <3>2 DEF CutLine
    <3> HIDE DEF p
    <3> QED
      BY <1>12, <2>1, <3>1, <3>3, <3>4 DEF Leave, ChildrenTyped
  <2> QED
    BY <1>12, <2>2, <2>3 DEF Leave
<1>13. ASSUME NEW p \in Procs, Deliver(p) PROVE ChildrenTyped'
  <2>0. UNCHANGED <<lock, child, half, buffer, cuts, lost>>
    BY <1>13 DEF Deliver, children
  <2>1. CASE UNCHANGED pc
    BY <1>0, <2>0, <2>1, <1>3, ChildrenSame
  <2>2. CASE \E q \in Requests : pc[q] = "waiting" /\ Goto(q, "handling")
    BY <1>0, <1>1, <2>0, <2>2, ChildrenSame
  <2>3. ASSUME NEW q \in Requests, pc[q] = "waiting" /\ target[q] = p /\ Call(q) = busy[p].call PROVE busy[p].call[1] = q
    BY <2>3 DEF Call
  <2> QED
    BY <1>13, <2>1, <2>2, <2>3 DEF Deliver, Answered, tasks
<1>14. CASE Exit \/ KillGateway
  <2>1. \E l \in {"dropped", "killed"} : Cut(l)
    BY <1>14 DEF Exit, KillGateway
  <2>2. \A q \in Requests : pc'[q] # "writing"
    BY <2>1 DEF Cut, InFlight
  <2> QED
    BY <1>0, <1>14, <2>2 DEF Exit, KillGateway, Unmapped, ChildrenTyped, GuardTyped
<1>15. CASE Shutdown
  BY <1>15 DEF Shutdown, Unmapped, tasks, ChildrenTyped, GuardTyped
<1>16. ASSUME NEW o \in Orbs, Reap(o) PROVE ChildrenTyped'
  BY <1>16 DEF Reap, tasks, ChildrenTyped, GuardTyped
<1>17. CASE UNCHANGED <<tasks, children>>
  BY <1>17 DEF tasks, children, ChildrenTyped, GuardTyped
<1>18. ASSUME NEW p \in Procs, EndOfInput(p) PROVE ChildrenTyped'
  BY <1>17, <1>18 DEF EndOfInput
<1>19. CASE WriterWrites \/ CloseInput \/ UNCHANGED vars
  BY <1>17, <1>19 DEF WriterWrites, CloseInput, vars
<1> QED
  BY <1>5, <1>6, <1>7, <1>8, <1>9, <1>10, <1>11, <1>12, <1>13, <1>14, <1>15, <1>16, <1>17, <1>18, <1>19
     DEF Next, TaskStep, Working

-----------------------------------------------------------------------------
(* What every run of Serving keeps of the kinds of its values.             *)
LEMMA TypedStep == Typed /\ [Next]_vars => Typed'
<1> SUFFICES ASSUME Typed, [Next]_vars PROVE Typed'
  OBVIOUS
<1> QED
  BY WorldSame, ProcessesStep, FrontStep, TasksStep, ChildrenStep DEF Typed

LEMMA TypedHolds == Spec => []Typed
BY TypedStep, InitTyped, PTL DEF Spec

(* In every reachable state every variable has its kind of value, no       *)
(* process remembers more searches than the ring holds (Metrics), no more  *)
(* responses wait than the channel takes, and the write guard on the       *)
(* processes is with the one call that writes a line (runtime_manager.rs,  *)
(* forward_request_inner).                                                 *)
THEOREM TypeCorrect == Spec => []TypeOK
<1>1. Typed => TypeOK
  <2> SUFFICES ASSUME Typed PROVE TypeOK
    OBVIOUS
  <2>1. ASSUME NEW p \in Procs
        PROVE  /\ busy[p] # Idle => busy[p].stage \in {"serve", "record", "sync", "answer"}
               /\ Len(mem[p].history) <= RingMax
    <3>1. mem[p].history \in Histories
      BY DEF Typed, ProcessesTyped, Metrics
    <3> QED
      BY <3>1 DEF Typed, ProcessesTyped, Work, Stages, Histories
  <2> QED
    BY <2>1 DEF Typed, ProcessesTyped, FrontTyped, ChildrenTyped, GuardTyped, TypeOK
<1> QED
  BY <1>1, TypedHolds, PTL

-----------------------------------------------------------------------------
(* How a request's items go, and where its children are.                   *)

(* Items only get fewer once a request has arrived, and a task comes back  *)
(* to an item only with one fewer.                                         *)
TodoMoves(q) ==
  pc[q] # "unsent" =>
    /\ pc'[q] # "unsent" /\ Len(todo'[q]) <= Len(todo[q])
    /\ Len(todo'[q]) = Len(todo[q]) => todo'[q] = todo[q]
    /\ pc'[q] = "handling" /\ todo'[q] = todo[q] => pc[q] = "handling"

LEMMA TodoSteps ==
  ASSUME Typed, [Next]_vars
  PROVE  \A q \in Requests : TodoMoves(q)
<1> USE DEF Typed, TasksTyped
<1>1. \A q \in Requests : IsSequence(todo[q])
  BY DEF TaskTyped
<1>2. \A q \in Requests : Len(todo[q]) \in Nat
  BY <1>1, SeqShape
<1>3. ASSUME NEW q \in Requests, pc'[q] = pc[q], todo'[q] = todo[q] PROVE TodoMoves(q)
  BY <1>2, <1>3 DEF TodoMoves
<1>4. CASE UNCHANGED <<pc, todo>>
  BY <1>3, <1>4
<1>5. ASSUME NEW q \in Requests, NEW l \in Labels \ {"unsent"}, Goto(q, l), UNCHANGED todo, l = "handling" => pc[q] = "handling"
      PROVE  \A x \in Requests : TodoMoves(x)
  <2>1. TodoMoves(q)
    BY <1>2, <1>5 DEF Goto, TodoMoves
  <2>2. \A x \in Requests \ {q} : TodoMoves(x)
    BY <1>3, <1>5 DEF Goto
  <2> QED
    BY <2>1, <2>2
<1>6. ASSUME NEW q \in Requests, todo[q] # <<>>, todo' = [todo EXCEPT ![q] = Tail(@)],
             Goto(q, "handling") \/ UNCHANGED pc
      PROVE  \A x \in Requests : TodoMoves(x)
  <2>1. Len(Tail(todo[q])) = Len(todo[q]) - 1
    BY <1>1, <1>6, SeqTail
  <2>2. todo'[q] = Tail(todo[q]) /\ (pc'[q] = "handling" \/ pc'[q] = pc[q])
    BY <1>6 DEF Goto
  <2>4. Len(todo'[q]) = Len(todo[q]) - 1 /\ Len(todo[q]) \in Nat
    BY <1>2, <2>1, <2>2
  <2>5. Len(todo'[q]) # Len(todo[q]) /\ Len(todo'[q]) <= Len(todo[q]) /\ todo'[q] # todo[q]
    BY <2>4
  <2>6. TodoMoves(q)
    BY <2>2, <2>5, Zenon DEF TodoMoves
  <2>3. \A x \in Requests \ {q} : TodoMoves(x)
    BY <1>3, <1>6 DEF Goto
  <2> QED
    BY <2>3, <2>6
<1>7. ASSUME NEW q \in Requests, todo[q] # <<>>, NEW a, NEW o, NEW u, Answered(q, a, o, u)
      PROVE  \A x \in Requests : TodoMoves(x)
  BY <1>6, <1>7 DEF Answered
<1>8. ASSUME NEW q \in Requests, Arrive(q) PROVE \A x \in Requests : TodoMoves(x)
  <2>1. pc[q] = "unsent"
    BY <1>8 DEF Arrive
  <2>2. \A x \in Requests \ {q} : pc'[x] = pc[x] /\ todo'[x] = todo[x]
    BY <1>8 DEF Arrive, Goto
  <2> QED
    BY <1>3, <2>1, <2>2 DEF TodoMoves
<1>9. ASSUME NEW q \in Requests, AnswerOwn(q) PROVE \A x \in Requests : TodoMoves(x)
  BY <1>6, <1>7, <1>9 DEF AnswerOwn, AtItem
<1>10. ASSUME NEW q \in Requests, Ensure(q) \/ Started(q) \/ Send(q) PROVE \A x \in Requests : TodoMoves(x)
  <2>1. /\ UNCHANGED todo
        /\ Goto(q, "queued") \/ Goto(q, "starting") \/ Goto(q, "done")
    BY <1>10 DEF Ensure, Started, Send
  <2> QED
    BY <1>5, <2>1 DEF Labels
<1>11. ASSUME NEW q \in Requests, NotStarted(q) \/ TakeLock(q) \/ Write(q) \/ GiveUp(q) PROVE \A x \in Requests : TodoMoves(x)
  <2>1. todo[q] # <<>>
    BY <1>11 DEF NotStarted, TakeLock, Write, GiveUp, TaskTyped, AtChild
  <2>2. CASE Answered(q, "unavailable", None, Nowhere)
    BY <1>7, <2>1, <2>2
  <2>3. CASE UNCHANGED todo /\ (Goto(q, "queued") \/ Goto(q, "writing") \/ Goto(q, "waiting"))
    BY <1>5, <2>3 DEF Labels
  <2> QED
    BY <1>11, <2>2, <2>3 DEF NotStarted, TakeLock, Write, GiveUp
<1>12. ASSUME NEW q \in Requests, Finish(q) PROVE \A x \in Requests : TodoMoves(x)
  <2>1. UNCHANGED todo /\ (Goto(q, "sending") \/ Goto(q, "done"))
    BY <1>12 DEF Finish
  <2> QED
    BY <1>5, <2>1 DEF Labels
<1>13. ASSUME NEW q \in Requests, Leave(q) PROVE \A x \in Requests : TodoMoves(x)
  <2>1. pc' = [pc EXCEPT ![q] = "left"] /\ todo' = [todo EXCEPT ![q] = <<>>]
    BY <1>13 DEF Leave, Goto
  <2>2. TodoMoves(q)
    BY <1>1, <1>2, <2>1, SeqNone, SeqEmpty DEF TodoMoves
  <2> QED
    BY <1>3, <2>1, <2>2
<1>14. ASSUME NEW p \in Procs, Deliver(p) PROVE \A x \in Requests : TodoMoves(x)
  <2>1. ASSUME NEW q \in Requests, pc[q] = "waiting" /\ target[q] = p /\ Call(q) = busy[p].call
        PROVE  busy[p].call[1] = q /\ todo[q] # <<>>
    BY <2>1 DEF Call, TaskTyped, AtChild
  <2> QED
    BY <1>4, <1>7, <1>14, <2>1 DEF Deliver, tasks
<1>15. ASSUME NEW l \in {"dropped", "killed"}, Cut(l), UNCHANGED todo PROVE \A x \in Requests : TodoMoves(x)
  BY <1>2, <1>15 DEF Cut, TodoMoves
<1>16. CASE Exit \/ KillGateway
  BY <1>15, <1>16 DEF Exit, KillGateway
<1>17. CASE WriterWrites \/ CloseInput \/ Shutdown \/ UNCHANGED vars
  BY <1>4, <1>17 DEF WriterWrites, CloseInput, Shutdown, tasks, vars
<1>18. ASSUME NEW o \in Orbs, Reap(o) PROVE \A x \in Requests : TodoMoves(x)
  BY <1>4, <1>18 DEF Reap, tasks
<1>19. ASSUME NEW p \in Procs, EndOfInput(p) PROVE \A x \in Requests : TodoMoves(x)
  BY <1>4, <1>19 DEF EndOfInput, tasks
<1>20. CASE UNCHANGED tasks
  BY <1>4, <1>20 DEF tasks
<1> QED
  BY <1>8, <1>9, <1>10, <1>11, <1>12, <1>13, <1>14, <1>16, <1>17, <1>18, <1>19, <1>20 DEF Next, TaskStep, Working

-----------------------------------------------------------------------------
(* A child is started once, for the item its call has in hand; whoever is  *)
(* in the map or written to was started for the Orb it is taken for, and   *)
(* has loaded it.                                                          *)
StartedOnce ==
  \A q \in Requests, n \in 1 .. MaxItems :
    proc[<<q, n>>] # "none" =>
      pc[q] # "unsent" /\ Len(todo[q]) <= n /\ (Len(todo[q]) = n => pc[q] # "handling")

Starting ==
  \A q \in Requests :
    pc[q] = "starting" => proc[Call(q)] \in {"starting", "ended"} /\ orbOf[Call(q)] = Head(todo[q]).to.orb

Running == \A p \in ChildProcs : proc[p] = "up" => Loads(world.package[orbOf[p]])

Mapping(o) == child[o] # None => proc[child[o]] \in {"up", "ended"} /\ orbOf[child[o]] = o
Mapped == \A o \in Orbs : Mapping(o)

Aiming(q) ==
  /\ target[q] # None => proc[target[q]] \in {"up", "ended"}
  /\ pc[q] \in {"writing", "waiting"} => orbOf[target[q]] = Head(todo[q]).to.orb
Aimed == \A q \in Requests : Aiming(q)

Placed == StartedOnce /\ Starting /\ Running /\ Mapped /\ Aimed

LEMMA InitPlaced == Init => Placed
<1> SUFFICES ASSUME Init PROVE Placed
  OBVIOUS
<1>1. \A p \in ChildProcs : proc[p] = "none"
  BY ProcessConstants DEF Init, Procs
<1>2. \A q \in Requests, n \in 1 .. MaxItems : <<q, n>> \in ChildProcs
  BY DEF ChildProcs
<1> QED
  BY <1>1, <1>2 DEF Init, Placed, StartedOnce, Starting, Running, Mapped, Mapping, Aimed, Aiming

(* What a step may do to a child.                                          *)
ChildMoves(p) ==
  \/ proc'[p] = proc[p] /\ orbOf'[p] = orbOf[p]
  \/ proc[p] \in {"starting", "up"} /\ proc'[p] = "ended" /\ orbOf'[p] = orbOf[p]
  \/ /\ proc[p] = "starting" /\ proc'[p] = "up" /\ orbOf'[p] = orbOf[p] /\ Loads(world.package[orbOf[p]])
     /\ \E q \in Requests : p = Call(q) /\ pc[q] = "starting" /\ pc'[q] = "queued"
  \/ /\ proc[p] = "none" /\ proc'[p] = "starting"
     /\ \E q \in Requests : p = Call(q) /\ pc[q] = "handling" /\ pc'[q] = "starting"
                            /\ todo' = todo /\ todo[q] # <<>> /\ orbOf'[p] = Head(todo[q]).to.orb

LEMMA EndedMoves ==
  ASSUME ProcessesTyped, NEW ps, Ended(ps)
  PROVE  \A p \in Procs : ChildMoves(p)
BY DEF Ended, ProcessesTyped, ChildMoves, Alive

LEMMA ProcSteps ==
  ASSUME Typed, Placed, [Next]_vars
  PROVE  \A p \in ChildProcs : ChildMoves(p)
<1> USE DEF Typed
<1>0. ChildProcs \subseteq Procs
  BY DEF Procs
<1>1. CASE UNCHANGED <<proc, orbOf>>
  BY <1>1 DEF ChildMoves
<1>2. ASSUME NEW q \in Requests, Ensure(q) PROVE \A p \in ChildProcs : ChildMoves(p)
  <2>1. CASE UNCHANGED processes
    BY <1>1, <2>1 DEF processes
  <2>2. CASE Launch(Call(q), Head(todo[q]).to.orb) /\ Goto(q, "starting")
    <3>1. Call(q) \in ChildProcs /\ q \in Requests /\ Len(todo[q]) \in 1 .. MaxItems
      BY <1>2, CallTyped DEF Ensure, AtItem, Call, ChildProcs
    <3>2. pc[q] = "handling" /\ todo' = todo /\ todo[q] # <<>> /\ pc'[q] = "starting"
      BY <1>2, <2>2 DEF Ensure, AtItem, Goto, TasksTyped
    <3>3. proc[Call(q)] = "none"
      BY <3>1, <3>2 DEF Placed, StartedOnce, Call
    <3>4. ChildMoves(Call(q))
      BY <1>0, <2>2, <3>1, <3>2, <3>3 DEF Launch, ChildMoves, ProcessesTyped
    <3>5. \A p \in ChildProcs \ {Call(q)} : ChildMoves(p)
      BY <1>0, <2>2 DEF Launch, ChildMoves, ProcessesTyped
    <3> QED
      BY <3>4, <3>5
  <2> QED
    BY <1>2, <2>1, <2>2 DEF Ensure
<1>3. ASSUME NEW q \in Requests, Started(q) PROVE \A p \in ChildProcs : ChildMoves(p)
  <2>1. CASE Ended({Call(q)})
    BY <1>0, <2>1, EndedMoves
  <2>2. CASE proc' = [proc EXCEPT ![Call(q)] = "up"] /\ orbOf' = orbOf
    <3>1. pc[q] = "starting" /\ pc'[q] = "queued"
      BY <1>3 DEF Started, Goto, TasksTyped
    <3>2. proc[Call(q)] = "starting" /\ Loads(world.package[orbOf[Call(q)]])
      BY <1>3 DEF Started
    <3>3. ChildMoves(Call(q))
      BY <2>2, <3>1, <3>2 DEF ChildMoves, ProcessesTyped
    <3>4. \A p \in ChildProcs \ {Call(q)} : ChildMoves(p)
      BY <1>0, <2>2 DEF ChildMoves, ProcessesTyped
    <3> QED
      BY <3>3, <3>4
  <2> QED
    BY <1>3, <2>1, <2>2 DEF Started
<1>4. ASSUME NEW q \in Requests, NotStarted(q) PROVE \A p \in ChildProcs : ChildMoves(p)
  BY <1>0, <1>4, EndedMoves DEF NotStarted
<1>5. ASSUME NEW q \in Requests, Leave(q) PROVE \A p \in ChildProcs : ChildMoves(p)
  BY <1>0, <1>1, <1>5, EndedMoves DEF Leave, processes
<1>6. ASSUME NEW p \in Procs, Working(p) PROVE \A r \in ChildProcs : ChildMoves(r)
  BY <1>0, <1>1, <1>6, EndedMoves DEF Working, Take, Serve, Record, Sync, Deliver, EndOfInput
<1>7. ASSUME NEW p \in Procs, Die(p) PROVE \A r \in ChildProcs : ChildMoves(r)
  BY <1>0, <1>7, EndedMoves DEF Die
<1>8. CASE InputEnds \/ Shutdown \/ Exit \/ \E o \in Orbs : Reap(o)
  BY <1>0, <1>8, EndedMoves DEF InputEnds, Shutdown, Exit, Reap
<1>9. CASE Ask \/ WriterWrites \/ CloseInput \/ KillGateway \/ UNCHANGED vars
  BY <1>1, <1>9 DEF Ask, WriterWrites, CloseInput, KillGateway, vars, processes
<1>10. ASSUME NEW q \in Requests,
              Arrive(q) \/ AnswerOwn(q) \/ TakeLock(q) \/ Write(q) \/ GiveUp(q) \/ Finish(q) \/ Send(q)
       PROVE  \A p \in ChildProcs : ChildMoves(p)
  BY <1>1, <1>10 DEF Arrive, AnswerOwn, TakeLock, Write, GiveUp, Finish, Send, processes
<1> QED
  BY <1>2, <1>3, <1>4, <1>5, <1>6, <1>7, <1>8, <1>9, <1>10 DEF Next, TaskStep

(* How a task comes to a place where it has to do with a child.            *)
Arrivals(q) ==
  /\ AtChild(q)' => todo'[q] = todo[q]
  /\ pc'[q] = "starting" => \/ pc[q] = "starting"
                            \/ pc[q] = "handling" /\ todo[q] # <<>> /\ Launch(Call(q), Head(todo[q]).to.orb)
  /\ \/ target'[q] = target[q]
     \/ todo[q] # <<>> /\ target'[q] = child[Head(todo[q]).to.orb] /\ target'[q] # None /\ AtChild(q) /\ UNCHANGED proc
  /\ pc'[q] \in {"writing", "waiting"} /\ target'[q] = target[q] =>
       \/ pc[q] \in {"writing", "waiting"}
       \/ target'[q] = child[Head(todo[q]).to.orb] /\ target'[q] # None /\ AtChild(q) /\ UNCHANGED proc

LEMMA ArrivalSteps ==
  ASSUME Typed, [Next]_vars
  PROVE  \A q \in Requests : Arrivals(q)
<1> USE DEF Typed, TasksTyped
<1>1. ASSUME NEW q \in Requests, pc'[q] = pc[q], todo'[q] = todo[q], target'[q] = target[q] PROVE Arrivals(q)
  BY <1>1 DEF Arrivals
<1>2. ASSUME NEW q \in Requests, pc'[q] \in Labels \ {"starting", "queued", "writing", "waiting"}, target'[q] = target[q]
      PROVE  Arrivals(q)
  BY <1>2 DEF Arrivals, AtChild
<1>3. CASE UNCHANGED tasks
  BY <1>1, <1>3 DEF tasks
<1>4. ASSUME NEW q \in Requests, NEW a, NEW o, NEW u, Answered(q, a, o, u), UNCHANGED target
      PROVE  \A x \in Requests : Arrivals(x)
  <2>1. pc'[q] = "handling" /\ "handling" \in Labels \ {"starting", "queued", "writing", "waiting"}
    BY <1>4 DEF Answered, Goto, Labels
  <2>2. \A x \in Requests \ {q} : pc'[x] = pc[x] /\ todo'[x] = todo[x] /\ target'[x] = target[x]
    BY <1>4 DEF Answered, Goto
  <2> QED
    BY <1>1, <1>2, <1>4, <2>1, <2>2
<1>5. ASSUME NEW q \in Requests, Arrive(q) \/ AnswerOwn(q) \/ Finish(q) \/ Send(q) \/ Leave(q)
      PROVE  \A x \in Requests : Arrivals(x)
  <2>1. pc'[q] \in Labels \ {"starting", "queued", "writing", "waiting"} /\ target' = target
    BY <1>5 DEF Arrive, AnswerOwn, AtItem, Answered, Finish, Send, Leave, Goto, Labels, tasks
  <2>2. \A x \in Requests \ {q} : pc'[x] = pc[x] /\ todo'[x] = todo[x]
    BY <1>5 DEF Arrive, AnswerOwn, Answered, Finish, Send, Leave, Goto
  <2> QED
    BY <1>1, <1>2, <2>1, <2>2
<1>6. ASSUME NEW q \in Requests, Ensure(q) \/ Started(q) \/ NotStarted(q) \/ TakeLock(q) \/ Write(q) \/ GiveUp(q)
      PROVE  \A x \in Requests : Arrivals(x)
  <2>1. \A x \in Requests \ {q} : pc'[x] = pc[x] /\ todo'[x] = todo[x] /\ target'[x] = target[x]
    BY <1>6 DEF Ensure, Started, NotStarted, TakeLock, Write, GiveUp, Answered, Goto
  <2>2. Arrivals(q)
    <3>1. CASE Ensure(q)
      BY <3>1 DEF Ensure, AtItem, Goto, Arrivals, AtChild
    <3>2. CASE Started(q)
      BY <3>2 DEF Started, Goto, Arrivals, AtChild
    <3>3. CASE NotStarted(q)
      BY <1>4, <3>3 DEF NotStarted, Goto, Arrivals, AtChild
    <3>4. CASE TakeLock(q)
      <4>1. CASE Answered(q, "unavailable", None, Nowhere) /\ UNCHANGED target
        BY <1>4, <4>1
      <4>2. CASE /\ target' = [target EXCEPT ![q] = child[Head(todo[q]).to.orb]] /\ Goto(q, "writing")
                 /\ UNCHANGED todo /\ child[Head(todo[q]).to.orb] # None
        BY <3>4, <4>2 DEF TakeLock, TaskTyped, processes, Goto, Arrivals, AtChild
      <4> QED
        BY <3>4, <4>1, <4>2 DEF TakeLock
    <3>5. CASE Write(q)
      BY <1>4, <3>5 DEF Write, Goto, Arrivals, AtChild
    <3>6. CASE GiveUp(q)
      BY <1>4, <3>6 DEF GiveUp
    <3> QED
      BY <1>6, <3>1, <3>2, <3>3, <3>4, <3>5, <3>6
  <2> QED
    BY <1>1, <2>1, <2>2
<1>7. ASSUME NEW p \in Procs, Working(p) PROVE \A x \in Requests : Arrivals(x)
  <2>1. ASSUME NEW q \in Requests, pc[q] = "waiting" /\ target[q] = p /\ Call(q) = busy[p].call
        PROVE  busy[p].call[1] = q
    BY <2>1 DEF Call
  <2> QED
    BY <1>3, <1>4, <1>7, <2>1 DEF Working, Deliver, EndOfInput, tasks
<1>8. ASSUME NEW l \in {"dropped", "killed"}, Cut(l), UNCHANGED <<todo, target>> PROVE \A x \in Requests : Arrivals(x)
  <2>1. \A x \in Requests : pc'[x] = l \/ pc'[x] = pc[x]
    BY <1>8 DEF Cut
  <2> QED
    BY <1>1, <1>2, <1>8, <2>1 DEF Labels
<1>9. CASE Exit \/ KillGateway
  BY <1>8, <1>9 DEF Exit, KillGateway
<1>10. CASE WriterWrites \/ CloseInput \/ Shutdown \/ (\E o \in Orbs : Reap(o)) \/ UNCHANGED vars
  BY <1>3, <1>10 DEF WriterWrites, CloseInput, Shutdown, Reap, vars
<1> QED
  BY <1>3, <1>5, <1>6, <1>7, <1>9, <1>10 DEF Next, TaskStep

(* Which steps change the map.                                             *)
LEMMA ChildChanges ==
  ASSUME [Next]_vars
  PROVE  \/ UNCHANGED child \/ Unmapped
         \/ \E o \in Orbs : child' = [child EXCEPT ![o] = None]
         \/ \E q \in Requests : Started(q)
<1>1. ASSUME NEW q \in Requests, Arrive(q) \/ AnswerOwn(q) \/ NotStarted(q) \/ TakeLock(q) \/ Write(q)
      PROVE  UNCHANGED child
  BY <1>1 DEF Arrive, AnswerOwn, NotStarted, TakeLock, Write, children
<1>2. ASSUME NEW q \in Requests, GiveUp(q) \/ Finish(q) \/ Send(q) \/ Leave(q)
      PROVE  UNCHANGED child
  BY <1>2 DEF GiveUp, Finish, Send, Leave, children
<1>3. ASSUME NEW q \in Requests, Ensure(q)
      PROVE  UNCHANGED child
  BY <1>3 DEF Ensure, children
<1>4. ASSUME NEW p \in Procs, Working(p) PROVE UNCHANGED child
  BY <1>4 DEF Working, Deliver, EndOfInput, children
<1>5. CASE WriterWrites \/ CloseInput \/ KillGateway \/ UNCHANGED vars
  BY <1>5 DEF WriterWrites, CloseInput, KillGateway, children, vars
<1>6. CASE Shutdown \/ Exit
  BY <1>6 DEF Shutdown, Exit
<1>7. ASSUME NEW o \in Orbs, Reap(o) PROVE child' = [child EXCEPT ![o] = None]
  BY <1>7 DEF Reap
<1> QED
  BY <1>1, <1>2, <1>3, <1>4, <1>5, <1>6, <1>7 DEF Next, TaskStep, children

(* Every step keeps the children in their places.                          *)
LEMMA PlacedStep ==
  ASSUME Typed, Placed, [Next]_vars
  PROVE  Placed'
<1> USE DEF Typed, Placed
<1>0. /\ \A p \in ChildProcs : ChildMoves(p)
      /\ \A q \in Requests : TodoMoves(q) /\ Arrivals(q)
      /\ world' = world
  BY WorldSame, ProcSteps, TodoSteps, ArrivalSteps
<1>1. StartedOnce'
  <2> SUFFICES ASSUME NEW q \in Requests, NEW n \in 1 .. MaxItems, proc'[<<q, n>>] # "none"
               PROVE  pc'[q] # "unsent" /\ Len(todo'[q]) <= n /\ (Len(todo'[q]) = n => pc'[q] # "handling")
    BY DEF StartedOnce
  <2>0. /\ <<q, n>> \in ChildProcs /\ n \in Nat
        /\ Len(todo[q]) \in Nat /\ Len(todo'[q]) \in Nat
    <3>1. IsSequence(todo[q]) /\ IsSequence(todo'[q])
      BY TasksStep DEF TasksTyped, TaskTyped
    <3> QED
      BY <3>1, SeqShape DEF ChildProcs
  <2>1. CASE proc[<<q, n>>] # "none"
    <3>1. pc[q] # "unsent" /\ Len(todo[q]) <= n /\ (Len(todo[q]) = n => pc[q] # "handling")
      BY <2>1 DEF StartedOnce
    <3>2. /\ pc'[q] # "unsent" /\ Len(todo'[q]) <= Len(todo[q])
          /\ Len(todo'[q]) = Len(todo[q]) => todo'[q] = todo[q]
          /\ pc'[q] = "handling" /\ todo'[q] = todo[q] => pc[q] = "handling"
      BY <1>0, <3>1 DEF TodoMoves
    <3> QED
      BY <2>0, <3>1, <3>2
  <2>2. CASE proc[<<q, n>>] = "none"
    <3>1. PICK x \in Requests : <<q, n>> = Call(x) /\ pc'[x] = "starting" /\ todo' = todo
      BY <1>0, <2>0, <2>2 DEF ChildMoves
    <3> QED
      BY <2>0, <3>1 DEF Call
  <2> QED
    BY <2>1, <2>2
<1>2. Starting'
  <2> SUFFICES ASSUME NEW q \in Requests, pc'[q] = "starting"
               PROVE  proc'[Call(q)'] \in {"starting", "ended"} /\ orbOf'[Call(q)'] = Head(todo'[q]).to.orb
    BY DEF Starting
  <2>1. todo'[q] = todo[q] /\ Call(q)' = Call(q)
    BY <1>0 DEF Arrivals, AtChild, Call
  <2>2. CASE pc[q] = "starting"
    <3>1. Call(q) \in ChildProcs
      BY <2>2, CallTyped DEF TasksTyped, TaskTyped, AtChild
    <3>2. proc[Call(q)] \in {"starting", "ended"} /\ orbOf[Call(q)] = Head(todo[q]).to.orb
      BY <2>2 DEF Starting
    <3>3. proc'[Call(q)] # "up"
      <4> SUFFICES ASSUME proc'[Call(q)] = "up" PROVE FALSE
        OBVIOUS
      <4>1. PICK x \in Requests : Call(q) = Call(x) /\ pc'[x] = "queued"
        BY <1>0, <3>1, <3>2 DEF ChildMoves
      <4>2. x = q
        BY <4>1 DEF Call
      <4> QED
        BY <4>1, <4>2
    <3> QED
      BY <1>0, <2>1, <3>1, <3>2, <3>3 DEF ChildMoves
  <2>3. CASE pc[q] = "handling" /\ todo[q] # <<>> /\ Launch(Call(q), Head(todo[q]).to.orb)
    BY <2>1, <2>3, CallTyped DEF Launch, ProcessesTyped, Procs
  <2> QED
    BY <1>0, <2>2, <2>3 DEF Arrivals
<1>3. Running'
  BY <1>0 DEF Running, ChildMoves
<1>4. Mapped'
  <2>1. ASSUME NEW o \in Orbs, child'[o] = child[o] PROVE Mapping(o)'
    BY <1>0, <2>1 DEF Mapped, Mapping, ChildMoves, ChildrenTyped
  <2>2. CASE UNCHANGED child
    BY <2>1, <2>2 DEF Mapped, Mapping
  <2>3. CASE Unmapped
    BY <2>3 DEF Mapped, Mapping, Unmapped
  <2>4. ASSUME NEW o \in Orbs, child' = [child EXCEPT ![o] = None] PROVE Mapped'
    BY <2>1, <2>4 DEF Mapped, Mapping, ChildrenTyped
  <2>5. ASSUME NEW q \in Requests, Started(q) PROVE Mapped'
    <3>1. CASE UNCHANGED child
      BY <2>2, <3>1
    <3>2. CASE /\ child' = [child EXCEPT ![orbOf[Call(q)]] = Call(q)]
               /\ proc' = [proc EXCEPT ![Call(q)] = "up"] /\ orbOf' = orbOf
      <4>1. todo[q] # <<>>
        BY <2>5 DEF Started, TasksTyped, TaskTyped, AtChild
      <4>2. Call(q) \in Procs /\ orbOf[Call(q)] \in Orbs
        BY <4>1, CallTyped DEF Procs, ProcessesTyped
      <4>3. ASSUME NEW o \in Orbs, o = orbOf[Call(q)] PROVE Mapping(o)'
        BY <4>3, <3>2, <4>2 DEF Mapping, ChildrenTyped, ProcessesTyped
      <4>4. \A o \in Orbs \ {orbOf[Call(q)]} : Mapping(o)'
        BY <2>1, <3>2 DEF ChildrenTyped
      <4> QED
        BY <4>3, <4>4 DEF Mapped, Mapping
    <3> QED
      BY <2>5, <3>1, <3>2 DEF Started
  <2> QED
    BY <2>2, <2>3, <2>4, <2>5, ChildChanges
<1>5. Aimed'
  <2> SUFFICES ASSUME NEW q \in Requests PROVE Aiming(q)'
    BY DEF Aimed, Aiming
  <2> DEFINE o == Head(todo[q]).to.orb
  <2>1. \A p \in ChildProcs : proc[p] \in {"up", "ended"} => proc'[p] \in {"up", "ended"} /\ orbOf'[p] = orbOf[p]
    BY <1>0 DEF ChildMoves
  <2>2. AtChild(q) => o \in Orbs
    BY DEF TasksTyped, TaskTyped
  <2>3. target[q] # None => target[q] \in ChildProcs
    BY DEF TasksTyped
  <2>4. o \in Orbs => child[o] \in ChildProcs \cup {None}
    BY DEF ChildrenTyped
  <2>5. \/ target'[q] = target[q]
        \/ target'[q] = child[o] /\ target'[q] # None /\ AtChild(q)
    BY <1>0 DEF Arrivals
  <2>6. target'[q] # None => target'[q] \in ChildProcs /\ proc[target'[q]] \in {"up", "ended"}
    BY <2>2, <2>3, <2>4, <2>5 DEF Aimed, Aiming, Mapped, Mapping
  <2>7. ASSUME pc'[q] \in {"writing", "waiting"} PROVE orbOf[target'[q]] = o /\ todo'[q] = todo[q] /\ target'[q] # None
    <3>1. todo'[q] = todo[q]
      BY <1>0, <2>7 DEF Arrivals, AtChild
    <3>2. CASE pc[q] \in {"writing", "waiting"} /\ target'[q] = target[q]
      BY <3>1, <3>2 DEF Aimed, Aiming, TasksTyped, TaskTyped
    <3>3. CASE target'[q] = child[o] /\ target'[q] # None /\ AtChild(q)
      BY <2>2, <3>1, <3>3 DEF Mapped, Mapping
    <3> QED
      BY <1>0, <2>5, <2>7, <3>2, <3>3 DEF Arrivals
  <2> QED
    BY <2>1, <2>6, <2>7 DEF Aiming
<1> QED
  BY <1>1, <1>2, <1>3, <1>4, <1>5
=============================================================================
