---------------------------- MODULE RuntimeManager ----------------------------
(***************************************************************************)
(* The gateway's RuntimeManager (crates/mcporb-gateway-core): handler      *)
(* tasks that spawn, share and talk to one child process per Orb, beside   *)
(* two background tasks that reload the registry and recycle idle          *)
(* children.                                                               *)
(*                                                                         *)
(* A call is one handler task serving one tools/call or resources/read.    *)
(* A call spawns at most one child, so the child it spawns has its name:   *)
(* child[c] is the process that call c started.                            *)
(*                                                                         *)
(* Steps are cut at the code's await points: between two of them other     *)
(* tasks, the children and the program that saves registry.json may run.   *)
(***************************************************************************)
EXTENDS Naturals, Sequences, FiniteSets

CONSTANTS
  Calls,           \* handler tasks, and the children they may spawn
  Slugs,           \* mcp_slugs, the keys of the process map
  Registries,      \* contents registry.json may have: sequences of slugs
  ViaStdin,        \* slugs of Orbs whose ZIP the child gets on its stdin
  KillSlugs,       \* slugs a program embedding the manager passes to kill()
  RequestTimeout,  \* ticks a call waits for its answer (60 s in the code)
  IdleTimeout,     \* ticks of disuse after which a child is recycled
  PipeLines,       \* request lines a child's stdin takes before a write blocks
  Tasks,           \* the background tasks the gateway binary starts
  EventCap,        \* capacity of the watcher's channel (16 in the code)
  None             \* no holder, no answer, no target; a truncated registry.json

Tags == {"absent", "idle", "failed"}

ASSUME ConstantsOK ==
  /\ Registries \subseteq Seq(Slugs)
  /\ ViaStdin \subseteq Slugs
  /\ KillSlugs \subseteq Slugs
  /\ Tasks \subseteq {"watcher", "reaper"}
  /\ RequestTimeout \in Nat
  /\ IdleTimeout \in Nat
  /\ PipeLines \in Nat \ {0}
  /\ EventCap \in Nat \ {0}

(* The values that stand for "nothing" are not among the things they stand *)
(* in for.                                                                 *)
ASSUME NamesDistinct ==
  /\ None \notin Calls \cup Registries \cup Tasks
  /\ Calls \cap (Tags \cup Tasks) = {}

VARIABLES
  file,     \* registry.json: a registry, or None while a save has truncated it
  events,   \* change notifications queued for the watcher
  listed,   \* RuntimeManager.orbs
  status,   \* RuntimeManager.processes: a tag, or the running child
  lock,     \* who holds the write lock on processes across an await
  pc,       \* where each call is
  slug,     \* the Orb each call is for
  target,   \* the child each call wrote its request to
  reqId,    \* the JSON-RPC id it used there
  waited,   \* ticks spent waiting for the answer
  mail,     \* the oneshot slot: None, or the call whose question was answered
  tpc,      \* where each background task is
  snap,     \* the registry each background task has read
  child,    \* "none", "starting", "up" or "dead"
  stdin,    \* request lines a child has not read
  stdout,   \* response lines the child's reader task has not read
  pending,  \* OrbProcess.pending_requests, as a set of lines
  nextId,   \* OrbProcess.next_id
  age,      \* ticks since OrbProcess.last_used
  stopped   \* shutdown() has run

registryVars == <<file, events>>
mapVars == <<listed, status, lock>>
callVars == <<pc, slug, target, reqId, waited, mail>>
taskVars == <<tpc, snap>>
procVars == <<child, stdin, stdout, pending, nextId, age>>
vars == <<registryVars, mapVars, callVars, taskVars, procVars, stopped>>

(* A request line, and the response line to it: the id, and the call whose *)
(* question it carries or answers.                                         *)
Lines == [id : Nat, call : Calls]

Ended == {"answered", "refused", "panicked"}
CallPCs == {"lookup", "ensure", "spawn", "zip", "init", "commitOk", "commitErr",
            "forward", "write", "writing", "flushed", "waiting"} \cup Ended
TaskPCs == {"idle", "swap", "swapped", "report", "reap", "dead"}

TypeOK ==
  /\ file \in Registries \cup {None}
  /\ events \in 0..EventCap
  /\ listed \in Seq(Slugs)
  /\ status \in [Slugs -> Tags \cup Calls]
  /\ lock \in Calls \cup Tasks \cup {None}
  /\ pc \in [Calls -> CallPCs]
  /\ slug \in [Calls -> Slugs]
  /\ target \in [Calls -> Calls \cup {None}]
  /\ reqId \in [Calls -> Nat]
  /\ waited \in [Calls -> 0..RequestTimeout]
  /\ mail \in [Calls -> Calls \cup {None}]
  /\ tpc \in [Tasks -> TaskPCs]
  /\ snap \in [Tasks -> Seq(Slugs)]
  /\ child \in [Calls -> {"none", "starting", "up", "dead"}]
  /\ stdin \in [Calls -> SUBSET Lines]
  /\ stdout \in [Calls -> SUBSET Lines]
  /\ pending \in [Calls -> SUBSET Lines]
  /\ nextId \in [Calls -> Nat \ {0}]
  /\ age \in [Calls -> 0..(IdleTimeout + 1)]
  /\ stopped \in BOOLEAN

-----------------------------------------------------------------------------
Entries(orbs, s) == {i \in DOMAIN orbs : orbs[i] = s}
IsListed(orbs, s) == Entries(orbs, s) # {}
IsRunning(s) == status[s] \in Calls
Alive(p) == child[p] \in {"starting", "up"}

(* The write guard on orbs lives from the swap to the end of the refresh;  *)
(* orbs.try_read() fails while it does.                                    *)
OrbsLocked == \E t \in Tasks : tpc[t] = "swapped"

(* Children that exit, are killed, or are dropped with their OrbProcess    *)
(* (kill_on_drop). What they have not read is lost; what they have written *)
(* can still be read.                                                      *)
Die(K) ==
  /\ child' = [p \in Calls |-> IF p \in K THEN "dead" ELSE child[p]]
  /\ stdin' = [p \in Calls |-> IF p \in K THEN {} ELSE stdin[p]]

Goto(c, label) == pc' = [pc EXCEPT ![c] = label]

(* Callers may take the lock, for reading or for writing.                  *)
LockFree == lock = None

Init ==
  /\ file \in Registries
  /\ events = 0
  /\ listed = file
  /\ status = [s \in Slugs |-> IF IsListed(listed, s) THEN "idle" ELSE "absent"]
  /\ lock = None
  /\ pc = [c \in Calls |-> "lookup"]
  /\ slug \in [Calls -> Slugs]
  /\ target = [c \in Calls |-> None]
  /\ reqId = [c \in Calls |-> 0]
  /\ waited = [c \in Calls |-> 0]
  /\ mail = [c \in Calls |-> None]
  /\ tpc = [t \in Tasks |-> "idle"]
  /\ snap = [t \in Tasks |-> <<>>]
  /\ child = [c \in Calls |-> "none"]
  /\ stdin = [c \in Calls |-> {}]
  /\ stdout = [c \in Calls |-> {}]
  /\ pending = [c \in Calls |-> {}]
  /\ nextId = [c \in Calls |-> 1]
  /\ age = [c \in Calls |-> 0]
  /\ stopped = FALSE

-----------------------------------------------------------------------------
(* find_orb / has_orb / list_orbs, before the request is forwarded. Their  *)
(* try_read().unwrap() takes the handler task down while a refresh holds   *)
(* the write guard on orbs.                                                *)
Lookup(c) ==
  /\ pc[c] = "lookup"
  /\ Goto(c, IF OrbsLocked THEN "panicked"
             ELSE IF IsListed(listed, slug[c]) THEN "ensure" ELSE "refused")
  /\ UNCHANGED <<registryVars, mapVars, slug, target, reqId, waited, mail,
                 taskVars, procVars, stopped>>

(* ensure_orb, the check under the read lock.                              *)
Ensure(c) ==
  /\ pc[c] = "ensure"
  /\ LockFree
  /\ Goto(c, CASE IsRunning(slug[c]) -> "forward"
               [] status[slug[c]] = "absent" -> "refused"
               [] OTHER -> "spawn")
  /\ UNCHANGED <<registryVars, mapVars, slug, target, reqId, waited, mail,
                 taskVars, procVars, stopped>>

(* ensure_orb finds the Orb again, the lock released; again try_read()     *)
(* may panic, and the Orb may be gone.                                     *)
SpawnAbort(c) ==
  /\ pc[c] = "spawn"
  /\ OrbsLocked \/ ~IsListed(listed, slug[c])
  /\ Goto(c, IF OrbsLocked THEN "panicked" ELSE "refused")
  /\ UNCHANGED <<registryVars, mapVars, slug, target, reqId, waited, mail,
                 taskVars, procVars, stopped>>

(* spawn_orb_process: the child is started. It is sent initialize at once, *)
(* unless its ZIP has to go down its stdin before (macOS, a library        *)
(* outside the sandbox's container). Or it cannot be started, or its ZIP   *)
(* cannot be read.                                                         *)
Spawn(c) ==
  /\ pc[c] = "spawn"
  /\ ~OrbsLocked
  /\ IsListed(listed, slug[c])
  /\ \/ /\ child' = [child EXCEPT ![c] = "starting"]
        /\ Goto(c, IF slug[c] \in ViaStdin THEN "zip" ELSE "init")
     \/ /\ Goto(c, "commitErr")
        /\ UNCHANGED child
  /\ UNCHANGED <<registryVars, mapVars, slug, target, reqId, waited, mail,
                 taskVars, stdin, stdout, pending, nextId, age, stopped>>

(* write_all of the length, the ZIP and initialize: no timer runs yet, and *)
(* the child reads when it likes. A child that dies breaks the pipe.       *)
ZipTaken(c) ==
  /\ pc[c] = "zip"
  /\ child[c] = "starting"
  /\ Goto(c, "init")
  /\ UNCHANGED <<registryVars, mapVars, slug, target, reqId, waited, mail,
                 taskVars, procVars, stopped>>

ZipFailed(c) ==
  /\ pc[c] = "zip"
  /\ child[c] = "dead"
  /\ Goto(c, "commitErr")
  /\ UNCHANGED <<registryVars, mapVars, slug, target, reqId, waited, mail,
                 taskVars, procVars, stopped>>

(* The child answers initialize in time; next_id is 1, last_used is now.   *)
InitAnswered(c) ==
  /\ pc[c] = "init"
  /\ child[c] = "starting"
  /\ child' = [child EXCEPT ![c] = "up"]
  /\ age' = [age EXCEPT ![c] = 0]
  /\ Goto(c, "commitOk")
  /\ UNCHANGED <<registryVars, mapVars, slug, target, reqId, waited, mail,
                 taskVars, stdin, stdout, pending, nextId, stopped>>

(* Mutant: a child whose handshake failed is forgotten, not killed.        *)
InitFailedLeaks(c) ==
  /\ pc[c] = "init"
  /\ Goto(c, "commitErr")
  /\ UNCHANGED <<registryVars, mapVars, slug, target, reqId, waited, mail,
                 taskVars, procVars, stopped>>

(* Mutant: the wait for the answer to initialize has no timeout.           *)
InitFailedIfDead(c) ==
  /\ pc[c] = "init"
  /\ child[c] = "dead"
  /\ Goto(c, "commitErr")
  /\ UNCHANGED <<registryVars, mapVars, slug, target, reqId, waited, mail,
                 taskVars, procVars, stopped>>

(* The ten seconds pass, or a write fails: the child is dropped.           *)
InitFailed(c) ==
  /\ pc[c] = "init"
  /\ Die({c})
  /\ Goto(c, "commitErr")
  /\ UNCHANGED <<registryVars, mapVars, slug, target, reqId, waited, mail,
                 taskVars, stdout, pending, nextId, age, stopped>>

(* The check ensure_orb repeats after the spawn; mutant: it does not.      *)
NeverOvertaken(c) == FALSE
Overtaken(c) == IsRunning(slug[c])

(* ensure_orb, after the spawn, under the write lock: another task may     *)
(* have registered a child, and then this one is dropped. The entry is     *)
(* written even if a refresh has removed the Orb in between.               *)
CommitSpawned(c) ==
  /\ pc[c] = "commitOk"
  /\ LockFree
  /\ IF Overtaken(c)
       THEN /\ Die({c})
            /\ UNCHANGED status
       ELSE /\ status' = [status EXCEPT ![slug[c]] = c]
            /\ UNCHANGED <<child, stdin>>
  /\ Goto(c, "forward")
  /\ UNCHANGED <<registryVars, listed, lock, slug, target, reqId, waited, mail,
                 taskVars, stdout, pending, nextId, age, stopped>>

CommitFailed(c) ==
  /\ pc[c] = "commitErr"
  /\ LockFree
  /\ IF IsRunning(slug[c])
       THEN /\ Goto(c, "forward")
            /\ UNCHANGED status
       ELSE /\ status' = [status EXCEPT ![slug[c]] = "failed"]
            /\ Goto(c, "refused")
  /\ UNCHANGED <<registryVars, listed, lock, slug, target, reqId, waited, mail,
                 taskVars, procVars, stopped>>

(* forward_request looks the entry up once more under the read lock.       *)
Forward(c) ==
  /\ pc[c] = "forward"
  /\ LockFree
  /\ Goto(c, IF IsRunning(slug[c]) THEN "write" ELSE "refused")
  /\ UNCHANGED <<registryVars, mapVars, slug, target, reqId, waited, mail,
                 taskVars, procVars, stopped>>

(* next_id counts up; mutant: it does not.                                 *)
TakeIdAgain(p) == UNCHANGED nextId
TakeId(p) == nextId' = [nextId EXCEPT ![p] = @ + 1]

(* forward_request_inner takes the write lock, looks the entry up for the  *)
(* third time, takes an id and starts to write.                            *)
BeginWrite(c) ==
  /\ pc[c] = "write"
  /\ LockFree
  /\ IF IsRunning(slug[c])
       THEN LET p == status[slug[c]] IN
            /\ lock' = c
            /\ target' = [target EXCEPT ![c] = p]
            /\ reqId' = [reqId EXCEPT ![c] = nextId[p]]
            /\ TakeId(p)
            /\ Goto(c, "writing")
       ELSE /\ Goto(c, "refused")
            /\ UNCHANGED <<lock, target, reqId, nextId>>
  /\ UNCHANGED <<registryVars, listed, status, slug, waited, mail, taskVars,
                 child, stdin, stdout, pending, age, stopped>>

Line(c) == [id |-> reqId[c], call |-> c]

(* The line is in the child's stdin; the write lock is still held, and the *)
(* waiter is not registered yet. A full pipe keeps the call here.          *)
Flush(c) ==
  /\ pc[c] = "writing"
  /\ child[target[c]] = "up"
  /\ Cardinality(stdin[target[c]]) < PipeLines
  /\ stdin' = [stdin EXCEPT ![target[c]] = @ \cup {Line(c)}]
  /\ Goto(c, "flushed")
  /\ UNCHANGED <<registryVars, mapVars, slug, target, reqId, waited, mail,
                 taskVars, child, stdout, pending, nextId, age, stopped>>

(* Broken pipe: the error returns, the guard is dropped; the entry stays.  *)
FlushFailed(c) ==
  /\ pc[c] = "writing"
  /\ child[target[c]] = "dead"
  /\ lock' = None
  /\ Goto(c, "refused")
  /\ UNCHANGED <<registryVars, listed, status, slug, target, reqId, waited, mail,
                 taskVars, procVars, stopped>>

(* pending_requests is a map: inserting replaces the entry of that id.     *)
Insert(waiting, line) == {l \in waiting : l.id # line.id} \cup {line}

(* last_used is set; mutant: only the spawn sets it.                       *)
TouchNot(p) == UNCHANGED age
Touch(p) == age' = [age EXCEPT ![p] = 0]

(* last_used and the waiter are set, the guard is dropped, the wait begins.*)
Register(c) ==
  /\ pc[c] = "flushed"
  /\ Touch(target[c])
  /\ pending' = [pending EXCEPT ![target[c]] = Insert(@, Line(c))]
  /\ lock' = None
  /\ Goto(c, "waiting")
  /\ UNCHANGED <<registryVars, listed, status, slug, target, reqId, waited, mail,
                 taskVars, child, stdin, stdout, nextId, stopped>>

Receive(c) ==
  /\ pc[c] = "waiting"
  /\ mail[c] # None
  /\ Goto(c, "answered")
  /\ waited' = [waited EXCEPT ![c] = 0]
  /\ UNCHANGED <<registryVars, mapVars, slug, target, reqId, mail,
                 taskVars, procVars, stopped>>

(* tokio::time::timeout polls the answer before the timer. The entry of    *)
(* the call stays in pending_requests.                                     *)
TimedOut(c) ==
  /\ pc[c] = "waiting"
  /\ mail[c] = None
  /\ waited[c] = RequestTimeout
  /\ Goto(c, "refused")
  /\ waited' = [waited EXCEPT ![c] = 0]
  /\ UNCHANGED <<registryVars, mapVars, slug, target, reqId, mail,
                 taskVars, procVars, stopped>>

(* The reader task of p keeps pending_requests until it has read its       *)
(* stdout to the end; the manager does while p is in the map.              *)
WaitersDropped(p) ==
  /\ \A s \in Slugs : status[s] # p
  /\ child[p] = "dead"
  /\ stdout[p] = {}

(* The sender goes with the map that holds it: the oneshot is closed.      *)
Disconnected(c) ==
  /\ pc[c] = "waiting"
  /\ mail[c] = None
  /\ WaitersDropped(target[c])
  /\ Goto(c, "refused")
  /\ waited' = [waited EXCEPT ![c] = 0]
  /\ UNCHANGED <<registryVars, mapVars, slug, target, reqId, mail,
                 taskVars, procVars, stopped>>

-----------------------------------------------------------------------------
(* The child (mcporb-runtime --stdio-only): it answers the lines it reads. *)
(* It may be slow, stop answering, or exit.                                *)
ChildAnswers(p) ==
  /\ child[p] = "up"
  /\ \E line \in stdin[p] :
       /\ stdin' = [stdin EXCEPT ![p] = @ \ {line}]
       /\ stdout' = [stdout EXCEPT ![p] = @ \cup {line}]
  /\ UNCHANGED <<registryVars, mapVars, callVars, taskVars, child, pending,
                 nextId, age, stopped>>

ChildExits(p) ==
  /\ Alive(p)
  /\ Die({p})
  /\ UNCHANGED <<registryVars, mapVars, callVars, taskVars, stdout,
                 pending, nextId, age, stopped>>

(* The reader task: a response goes to the waiter registered under its id, *)
(* which may have given up; with no such waiter it is logged and dropped.  *)
Route(p) ==
  \E line \in stdout[p] :
    LET waiters == {l \in pending[p] : l.id = line.id} IN
    /\ stdout' = [stdout EXCEPT ![p] = @ \ {line}]
    /\ pending' = [pending EXCEPT ![p] = @ \ waiters]
    /\ mail' = [c \in Calls |->
                  IF pc[c] = "waiting" /\ \E w \in waiters : w.call = c
                    THEN line.call ELSE mail[c]]
    /\ UNCHANGED <<registryVars, mapVars, pc, slug, target, reqId, waited,
                   taskVars, child, stdin, nextId, age, stopped>>

-----------------------------------------------------------------------------
(* registry.json is saved with fs::write: truncated, then written; each    *)
(* change queues an event for the watcher unless its channel is full.      *)
(* Mutant: a channel without a capacity.                                   *)
NotifyUnbounded == events' = events + 1
Notify == events' = IF "watcher" \in Tasks /\ events < EventCap THEN events + 1 ELSE events

SaveTruncates ==
  /\ file # None
  /\ file' = None
  /\ Notify
  /\ UNCHANGED <<mapVars, callVars, taskVars, procVars, stopped>>

SaveWrites ==
  /\ file = None
  /\ file' \in Registries
  /\ Notify
  /\ UNCHANGED <<mapVars, callVars, taskVars, procVars, stopped>>

(* refresh_registry reads the registry before it takes any lock. A file    *)
(* that does not parse is an empty registry.                               *)
ReadRegistry(t) ==
  /\ snap' = [snap EXCEPT ![t] = IF file = None THEN <<>> ELSE file]
  /\ tpc' = [tpc EXCEPT ![t] = "swap"]

WatcherWakes ==
  /\ "watcher" \in Tasks
  /\ tpc["watcher"] = "idle"
  /\ events > 0
  /\ events' = events - 1
  /\ ReadRegistry("watcher")
  /\ UNCHANGED <<file, mapVars, callVars, procVars, stopped>>

ReaperWakes ==
  /\ "reaper" \in Tasks
  /\ tpc["reaper"] = "idle"
  /\ ReadRegistry("reaper")
  /\ UNCHANGED <<registryVars, mapVars, callVars, procVars, stopped>>

(* Mutants of the merge: Orbs that are new get no entry; children are not  *)
(* carried over.                                                           *)
MergedOldOnly(orbs, s) == IF IsListed(orbs, s) THEN status[s] ELSE "absent"
MergedAfresh(orbs, s) == IF IsListed(orbs, s) THEN "idle" ELSE "absent"

(* The entry of a slug after the merge loop: an entry listed once is       *)
(* carried over; a slug listed twice finds its entry gone the second time  *)
(* and is inserted as idle over it.                                        *)
Merged(orbs, s) ==
  CASE Cardinality(Entries(orbs, s)) = 0 -> "absent"
    [] Cardinality(Entries(orbs, s)) = 1 /\ status[s] # "absent" -> status[s]
    [] OTHER -> "idle"

(* The new list replaces the old one; mutant: only the process map does.   *)
SetOrbsNot(t) == UNCHANGED listed
SetOrbs(t) == listed' = snap[t]

(* refresh_registry under both locks: what is not carried over is dropped, *)
(* its child with it.                                                      *)
Swap(t) ==
  /\ tpc[t] = "swap"
  /\ LockFree
  /\ lock' = t
  /\ SetOrbs(t)
  /\ snap' = [snap EXCEPT ![t] = <<>>]
  /\ status' = [s \in Slugs |-> Merged(snap[t], s)]
  /\ Die({p \in Calls : \E s \in Slugs :
                              status[s] = p /\ status'[s] # p})
  /\ tpc' = [tpc EXCEPT ![t] = "swapped"]
  /\ UNCHANGED <<registryVars, callVars, stdout, pending, nextId, age, stopped>>

(* The guards are dropped: the watcher goes on to report, the reaper to    *)
(* reap.                                                                   *)
Release(t) ==
  /\ tpc[t] = "swapped"
  /\ lock' = None
  /\ tpc' = [tpc EXCEPT ![t] = IF t = "watcher" THEN "report" ELSE "reap"]
  /\ UNCHANGED <<registryVars, listed, status, callVars, snap, procVars, stopped>>

(* The watcher task logs list_orbs().len(): it panics, and ends, while the *)
(* reaper's refresh holds the guard on orbs.                               *)
WatcherReports ==
  /\ "watcher" \in Tasks
  /\ tpc["watcher"] = "report"
  /\ tpc' = [tpc EXCEPT !["watcher"] = IF OrbsLocked THEN "dead" ELSE "idle"]
  /\ UNCHANGED <<registryVars, mapVars, callVars, snap, procVars, stopped>>

(* start_reaper, after its refresh, under the write lock.                  *)
IdleChildren == {p \in Calls : age[p] > IdleTimeout /\ \E s \in Slugs : status[s] = p}

Reap ==
  /\ "reaper" \in Tasks
  /\ tpc["reaper"] = "reap"
  /\ LockFree
  /\ Die(IdleChildren)
  /\ status' = [s \in Slugs |-> IF status[s] \in IdleChildren THEN "idle" ELSE status[s]]
  /\ tpc' = [tpc EXCEPT !["reaper"] = "idle"]
  /\ UNCHANGED <<registryVars, listed, lock, callVars, snap, stdout,
                 pending, nextId, age, stopped>>

(* kill(): inserts Idle, for a slug nobody knows too.                      *)
Kill(s) ==
  /\ LockFree
  /\ Die({status[s]})
  /\ status' = [status EXCEPT ![s] = "idle"]
  /\ UNCHANGED <<registryVars, listed, lock, callVars, taskVars, stdout,
                 pending, nextId, age, stopped>>

(* The children shutdown() kills; mutant: those of the listed Orbs only.   *)
ListedChildren == {p \in Calls : \E s \in Slugs : IsListed(listed, s) /\ status[s] = p}
MapChildren == {p \in Calls : \E s \in Slugs : status[s] = p}

(* shutdown(), once the transport has answered every call.                 *)
Shutdown ==
  /\ ~stopped
  /\ \A c \in Calls : pc[c] \in Ended
  /\ LockFree
  /\ Die(MapChildren)
  /\ status' = [s \in Slugs |-> IF status[s] = "absent" THEN "absent" ELSE "idle"]
  /\ stopped' = TRUE
  /\ UNCHANGED <<registryVars, listed, lock, callVars, taskVars, stdout,
                 pending, nextId, age>>

(* Time passes for everyone. Timers fire on time: a call whose 60 seconds  *)
(* are over has timed out before the next tick.                            *)
Tick ==
  /\ \A c \in Calls : pc[c] = "waiting" /\ mail[c] = None => waited[c] < RequestTimeout
  /\ waited' = [c \in Calls |-> IF pc[c] = "waiting" /\ waited[c] < RequestTimeout
                                  THEN waited[c] + 1 ELSE waited[c]]
  /\ age' = [p \in Calls |-> IF age[p] <= IdleTimeout /\ \E s \in Slugs : status[s] = p
                               THEN age[p] + 1 ELSE age[p]]
  /\ UNCHANGED <<registryVars, mapVars, pc, slug, target, reqId, mail, taskVars,
                 child, stdin, stdout, pending, nextId, stopped>>

-----------------------------------------------------------------------------
(* What a call may do next without the lock, and with it.                  *)
CallStep(c) ==
  \/ Lookup(c) \/ SpawnAbort(c) \/ Spawn(c) \/ ZipFailed(c) \/ InitFailed(c)
  \/ Flush(c) \/ FlushFailed(c) \/ Register(c)
  \/ Receive(c) \/ TimedOut(c) \/ Disconnected(c)

CallLocks(c) ==
  \/ Ensure(c) \/ CommitSpawned(c) \/ CommitFailed(c) \/ Forward(c) \/ BeginWrite(c)

Next ==
  \/ \E c \in Calls : CallStep(c) \/ CallLocks(c)
  \/ \E p \in Calls : ZipTaken(p) \/ InitAnswered(p)
  \/ \E p \in Calls : ChildAnswers(p) \/ ChildExits(p) \/ Route(p)
  \/ SaveTruncates \/ SaveWrites
  \/ WatcherWakes \/ ReaperWakes
  \/ \E t \in Tasks : Swap(t) \/ Release(t)
  \/ WatcherReports \/ Reap
  \/ \E s \in KillSlugs : Kill(s)
  \/ Shutdown
  \/ Tick

Spec == Init /\ [][Next]_vars

(* Tasks run whenever they can; tokio's RwLock serves its waiters in turn, *)
(* so whoever waits for it gets it in the end; time passes; a save of the  *)
(* registry that has begun completes. Children promise nothing.            *)
Fairness ==
  /\ \A c \in Calls : WF_vars(CallStep(c)) /\ SF_vars(CallLocks(c))
  /\ \A p \in Calls : WF_vars(Route(p))
  /\ \A t \in Tasks : SF_vars(Swap(t)) /\ WF_vars(Release(t))
  /\ WF_vars(WatcherWakes) /\ WF_vars(WatcherReports)
  /\ WF_vars(ReaperWakes) /\ SF_vars(Reap)
  /\ WF_vars(SaveWrites)
  /\ WF_vars(Tick)

FairSpec == Spec /\ Fairness

-----------------------------------------------------------------------------
(* An answered call holds the answer to its own question, given by a child *)
(* that was started for its own Orb, however calls, children and late      *)
(* answers interleave (forward_request_inner and the reader task).         *)
AnswersMatch ==
  \A c \in Calls : pc[c] = "answered" =>
    /\ mail[c] = c
    /\ target[c] \in Calls
    /\ slug[target[c]] = slug[c]

(* No child lives outside the manager: it is the running entry of its Orb  *)
(* in the process map, or held by the call that is still spawning it. The  *)
(* loser of a double spawn, a child dropped by a refresh and a recycled    *)
(* one are all dead.                                                       *)
NoStrayChild ==
  \A p \in Calls : Alive(p) =>
    \/ pc[p] \in {"zip", "init", "commitOk"}
    \/ status[slug[p]] = p

(* Every Orb in the list has an entry in the process map, so that a listed *)
(* Orb is never refused as unknown by ensure_orb.                          *)
ListedHaveStatus == \A s \in Slugs : IsListed(listed, s) => status[s] # "absent"

(* shutdown() leaves no child, not even of an Orb that was uninstalled     *)
(* while a call was spawning it.                                           *)
NoChildAfterShutdown == stopped => \A p \in Calls : ~Alive(p)

(* The reaper never kills a child that still owes a call its answer:       *)
(* last_used is set when a request is written, and the call gives up       *)
(* before the child counts as idle. Holds when the idle timeout is not     *)
(* shorter than the request timeout.                                       *)
ReaperSparesWaiting ==
  [][Reap => \A c \in Calls :
       pc[c] = "waiting" /\ mail[c] = None /\ child[target[c]] = "up"
         => child'[target[c]] = "up"]_vars

(* A refresh does not restart an Orb that stays in the list: its child,    *)
(* with the requests in flight, is carried over (refresh_registry). Two    *)
(* installed versions of one Orb share a slug, and are restarted.          *)
RefreshKeepsRunning ==
  [][\A t \in Tasks : Swap(t) => \A s \in Slugs :
       IsRunning(s) /\ Cardinality(Entries(listed', s)) = 1
         => status'[s] = status[s]]_vars

(* What the gateway promises its clients, stated without locks, pipes or   *)
(* background tasks (OrbPool), is what it does.                            *)
Arriving == {"lookup", "ensure", "spawn", "zip", "init", "commitOk", "commitErr"}

StageAt(label) ==
  CASE label \in Arriving -> "arriving"
    [] label = "answered" -> "answered"
    [] label \in {"refused", "panicked"} -> "refused"
    [] OTHER -> "admitted"

Serving == [s \in Slugs |-> IF IsRunning(s) THEN status[s] ELSE None]
Stage == [c \in Calls |-> StageAt(pc[c])]
Reply == [c \in Calls |-> IF pc[c] = "answered" THEN mail[c] ELSE None]

Pool == INSTANCE OrbPool WITH asked <- slug, serving <- Serving, stage <- Stage, reply <- Reply

ImplementsPool == Pool!Spec

(* A call writes to a child that lives and does not read: the ZIP it is to *)
(* start with, or a request into a pipe that is full.                      *)
HeldUp(c) ==
  \/ pc[c] = "zip" /\ child[c] = "starting"
  \/ pc[c] = "writing" /\ child[target[c]] = "up" /\ Cardinality(stdin[target[c]]) >= PipeLines

(* Every call ends, although children may hang for ever: the waits for     *)
(* their answers are bounded and the write lock is given back. Only a      *)
(* write is not bounded (spawn_orb_process, forward_request_inner): the    *)
(* call ends unless it writes for ever to a child that does not read, or   *)
(* one that holds the lock does.                                           *)
EveryCallEnds ==
  \A c \in Calls :
    \/ <>(pc[c] \in Ended)
    \/ <>[]HeldUp(c)
    \/ <>[](lock \in Calls /\ HeldUp(lock))

(* When the registry stops changing, the list becomes equal to it, and the *)
(* children of Orbs no longer in it are gone, those included whose spawn   *)
(* overlapped the removal; unless a call writes for ever to a child that   *)
(* does not read.                                                          *)
RegistryApplied ==
  \A r \in Registries : <>[](file = r) =>
    \/ <>[](listed = r /\ \A p \in Calls : Alive(p) => IsListed(r, slug[p]))
    \/ <>[](\E c \in Calls : HeldUp(c))

(* The reader routes each response to its waiter (runtime_manager.rs:48):  *)
(* a call that has written its request and not given up gets the answer.   *)
EveryAnswerRouted ==
  [][\A p \in Calls : \A line \in stdout[p] \ stdout'[p] :
       pc[line.call] \in {"flushed", "waiting"} => mail'[line.call] # None]_vars

(* Every request gets a response, an error response at worst               *)
(* (handler.rs:44): no handler task dies under a call.                     *)
NoCallPanics == \A c \in Calls : pc[c] # "panicked"

(* The gateway's view of the registry is always consistent                 *)
(* (registry_reader.rs:4): a child is not killed by a refresh while its    *)
(* Orb is in every registry ever saved.                                    *)
InstalledOrbsKept ==
  [][\A t \in Tasks : Swap(t) => \A s \in Slugs :
       IsRunning(s) /\ (\A r \in Registries : IsListed(r, s)) => status'[s] = status[s]]_vars
=============================================================================
