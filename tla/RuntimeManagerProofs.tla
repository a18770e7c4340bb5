------------------------- MODULE RuntimeManagerProofs -------------------------
(***************************************************************************)
(* Proofs about RuntimeManager, for any number of calls, Orbs and          *)
(* registries: its types; its safety properties, from two inductive        *)
(* invariants, Routing (ids, pipes and waiters) and Ownership (children    *)
(* and the process map); and that it implements OrbPool.                   *)
(***************************************************************************)
EXTENDS RuntimeManager, FiniteSetTheorems, TLAPS

(* Updating a function at one point, inside its domain or not, keeps its   *)
(* type when the new value has it: status, pending, child and the like.    *)
LEMMA UpdateType ==
  ASSUME NEW S, NEW T, NEW f \in [S -> T], NEW x, NEW v, x \in S => v \in T
  PROVE  [f EXCEPT ![x] = v] \in [S -> T]
OBVIOUS

(* The initial states have their types.                                    *)
LEMMA TypeInit == Init => TypeOK
<1> SUFFICES ASSUME Init PROVE TypeOK
  OBVIOUS
<1> USE ConstantsOK DEF ConstantsOK, Init
<1>1. /\ file \in Registries \cup {None}
      /\ events \in 0..EventCap
      /\ listed \in Seq(Slugs)
      /\ status \in [Slugs -> Tags \cup Calls]
      /\ lock \in Calls \cup Tasks \cup {None}
  BY DEF Tags
<1>2. /\ pc \in [Calls -> CallPCs]
      /\ slug \in [Calls -> Slugs]
      /\ target \in [Calls -> Calls \cup {None}]
      /\ reqId \in [Calls -> Nat]
      /\ waited \in [Calls -> 0..RequestTimeout]
      /\ mail \in [Calls -> Calls \cup {None}]
  BY DEF CallPCs
<1>3. /\ tpc \in [Tasks -> TaskPCs]
      /\ snap \in [Tasks -> Seq(Slugs)]
  BY DEF TaskPCs
<1>4. /\ child \in [Calls -> {"none", "starting", "up", "dead"}]
      /\ stdin \in [Calls -> SUBSET Lines]
      /\ stdout \in [Calls -> SUBSET Lines]
      /\ pending \in [Calls -> SUBSET Lines]
      /\ nextId \in [Calls -> Nat \ {0}]
  OBVIOUS
<1>5. age \in [Calls -> 0..(IdleTimeout + 1)]
  OBVIOUS
<1>6. stopped \in BOOLEAN
  OBVIOUS
<1> HIDE DEF ConstantsOK, Init
<1> QED
  BY <1>1, <1>2, <1>3, <1>4, <1>5, <1>6 DEF TypeOK

(* Going on and ending children, as the steps below do them.               *)
LEMMA GotoType ==
  ASSUME TypeOK, NEW c, NEW label \in CallPCs, Goto(c, label)
  PROVE  pc' \in [Calls -> CallPCs]
<1>1. pc \in [Calls -> CallPCs]
  BY DEF TypeOK
<1> QED
  BY <1>1, UpdateType DEF Goto

LEMMA DieType ==
  ASSUME TypeOK, NEW K, Die(K)
  PROVE  /\ child' \in [Calls -> {"none", "starting", "up", "dead"}]
         /\ stdin' \in [Calls -> SUBSET Lines]
<1>1. /\ child \in [Calls -> {"none", "starting", "up", "dead"}]
      /\ stdin \in [Calls -> SUBSET Lines]
  BY DEF TypeOK
<1> QED
  BY <1>1 DEF Die

LEMMA Labels ==
  /\ {"lookup", "ensure", "spawn", "zip", "init", "commitOk", "commitErr", "forward", "write",
      "writing", "flushed", "waiting", "answered", "refused", "panicked"} \subseteq CallPCs
  /\ {"absent", "idle", "failed"} \subseteq Tags
BY DEF CallPCs, Ended, Tags

(* The steps a call takes without the lock keep every type.                *)
LEMMA TypeCallStep ==
  ASSUME TypeOK, NEW c \in Calls, CallStep(c)
  PROVE  TypeOK'
<1> USE DEF registryVars, mapVars, taskVars, procVars
<1>0. \A label \in CallPCs : Goto(c, label) => pc' \in [Calls -> CallPCs]
  BY GotoType
<1>1. CASE Lookup(c)
  <2>1. pc' \in [Calls -> CallPCs]
    BY <1>0, <1>1, Labels DEF Lookup
  <2> QED
    BY <1>1, <2>1 DEF Lookup, TypeOK
<1>2. CASE SpawnAbort(c)
  <2>1. pc' \in [Calls -> CallPCs]
    BY <1>0, <1>2, Labels DEF SpawnAbort
  <2> QED
    BY <1>2, <2>1 DEF SpawnAbort, TypeOK
<1>3. CASE Spawn(c)
  <2>1. pc' \in [Calls -> CallPCs]
    BY <1>0, <1>3, Labels DEF Spawn
  <2>2. child' \in [Calls -> {"none", "starting", "up", "dead"}]
    BY <1>3, UpdateType DEF Spawn, TypeOK
  <2> QED
    BY <1>3, <2>1, <2>2 DEF Spawn, TypeOK
<1>5. CASE InitFailed(c)
  <2>1. pc' \in [Calls -> CallPCs]
    BY <1>0, <1>5, Labels DEF InitFailed
  <2>2. /\ child' \in [Calls -> {"none", "starting", "up", "dead"}]
        /\ stdin' \in [Calls -> SUBSET Lines]
    BY <1>5, DieType DEF InitFailed
  <2> QED
    BY <1>5, <2>1, <2>2 DEF InitFailed, TypeOK
<1>6. CASE Flush(c)
  <2>1. stdin' \in [Calls -> SUBSET Lines]
    <3>1. Line(c) \in Lines
      BY DEF TypeOK, Line, Lines
    <3>2. target[c] \in Calls => stdin[target[c]] \cup {Line(c)} \in SUBSET Lines
      BY <3>1 DEF TypeOK
    <3> QED
      BY <1>6, <3>2, UpdateType DEF Flush, TypeOK
  <2>2. pc' \in [Calls -> CallPCs]
    BY <1>0, <1>6, Labels DEF Flush
  <2> QED
    BY <1>6, <2>1, <2>2 DEF Flush, TypeOK
<1>7. CASE FlushFailed(c)
  <2>1. pc' \in [Calls -> CallPCs]
    BY <1>0, <1>7, Labels DEF FlushFailed
  <2> QED
    BY <1>7, <2>1 DEF FlushFailed, TypeOK
<1>8. CASE Register(c)
  <2>1. pending' \in [Calls -> SUBSET Lines]
    <3>1. Line(c) \in Lines
      BY DEF TypeOK, Line, Lines
    <3>2. target[c] \in Calls => Insert(pending[target[c]], Line(c)) \in SUBSET Lines
      BY <3>1 DEF Insert, TypeOK
    <3> QED
      BY <1>8, <3>2, UpdateType DEF Register, TypeOK
  <2>2. age' \in [Calls -> 0..(IdleTimeout + 1)]
    <3>1. 0 \in 0..(IdleTimeout + 1)
      BY ConstantsOK DEF ConstantsOK
    <3> QED
      BY <1>8, <3>1, UpdateType DEF Register, Touch, TypeOK
  <2>3. pc' \in [Calls -> CallPCs]
    BY <1>0, <1>8, Labels DEF Register
  <2> QED
    BY <1>8, <2>1, <2>2, <2>3 DEF Register, TypeOK
<1>9. CASE Receive(c)
  <2>1. waited' \in [Calls -> 0..RequestTimeout]
    <3>1. 0 \in 0..RequestTimeout
      BY ConstantsOK DEF ConstantsOK
    <3> QED
      BY <1>9, <3>1, UpdateType DEF Receive, TypeOK
  <2>2. pc' \in [Calls -> CallPCs]
    BY <1>0, <1>9, Labels DEF Receive
  <2> QED
    BY <1>9, <2>1, <2>2 DEF Receive, TypeOK
<1>10. CASE TimedOut(c)
  <2>1. waited' \in [Calls -> 0..RequestTimeout]
    <3>1. 0 \in 0..RequestTimeout
      BY ConstantsOK DEF ConstantsOK
    <3> QED
      BY <1>10, <3>1, UpdateType DEF TimedOut, TypeOK
  <2>2. pc' \in [Calls -> CallPCs]
    BY <1>0, <1>10, Labels DEF TimedOut
  <2> QED
    BY <1>10, <2>1, <2>2 DEF TimedOut, TypeOK
<1>11. CASE Disconnected(c)
  <2>1. waited' \in [Calls -> 0..RequestTimeout]
    <3>1. 0 \in 0..RequestTimeout
      BY ConstantsOK DEF ConstantsOK
    <3> QED
      BY <1>11, <3>1, UpdateType DEF Disconnected, TypeOK
  <2>2. pc' \in [Calls -> CallPCs]
    BY <1>0, <1>11, Labels DEF Disconnected
  <2> QED
    BY <1>11, <2>1, <2>2 DEF Disconnected, TypeOK
<1>12. CASE ZipFailed(c)
  <2>1. pc' \in [Calls -> CallPCs]
    BY <1>0, <1>12, Labels DEF ZipFailed
  <2> QED
    BY <1>12, <2>1 DEF ZipFailed, TypeOK
<1> QED
  BY <1>1, <1>2, <1>3, <1>5, <1>6, <1>7, <1>8, <1>9, <1>10, <1>11, <1>12 DEF CallStep

(* The steps a call takes with the lock keep every type.                   *)
LEMMA TypeCallLocks ==
  ASSUME TypeOK, NEW c \in Calls, CallLocks(c)
  PROVE  TypeOK'
<1> USE DEF registryVars, mapVars, taskVars, procVars
<1>0. \A label \in CallPCs : Goto(c, label) => pc' \in [Calls -> CallPCs]
  BY GotoType
<1>1. CASE Ensure(c)
  <2>1. pc' \in [Calls -> CallPCs]
    BY <1>0, <1>1, Labels DEF Ensure
  <2> QED
    BY <1>1, <2>1 DEF Ensure, TypeOK
<1>2. CASE CommitSpawned(c)
  <2>1. pc' \in [Calls -> CallPCs]
    BY <1>0, <1>2, Labels DEF CommitSpawned
  <2>2. CASE Overtaken(c)
    <3>1. /\ child' \in [Calls -> {"none", "starting", "up", "dead"}]
          /\ stdin' \in [Calls -> SUBSET Lines]
      BY <1>2, <2>2, DieType DEF CommitSpawned
    <3> QED
      BY <1>2, <2>1, <2>2, <3>1 DEF CommitSpawned, TypeOK
  <2>3. CASE ~Overtaken(c)
    <3>1. status' \in [Slugs -> Tags \cup Calls]
      BY <1>2, <2>3, UpdateType DEF CommitSpawned, TypeOK
    <3> QED
      BY <1>2, <2>1, <2>3, <3>1 DEF CommitSpawned, TypeOK
  <2> QED
    BY <2>2, <2>3
<1>3. CASE CommitFailed(c)
  <2>1. pc' \in [Calls -> CallPCs]
    BY <1>0, <1>3, Labels DEF CommitFailed
  <2>2. status' \in [Slugs -> Tags \cup Calls]
    BY <1>3, Labels, UpdateType DEF CommitFailed, TypeOK
  <2> QED
    BY <1>3, <2>1, <2>2 DEF CommitFailed, TypeOK
<1>4. CASE Forward(c)
  <2>1. pc' \in [Calls -> CallPCs]
    BY <1>0, <1>4, Labels DEF Forward
  <2> QED
    BY <1>4, <2>1 DEF Forward, TypeOK
<1>5. CASE BeginWrite(c)
  <2>1. pc' \in [Calls -> CallPCs]
    BY <1>0, <1>5, Labels DEF BeginWrite
  <2>2. CASE IsRunning(slug[c])
    <3> DEFINE p == status[slug[c]]
    <3>1. p \in Calls
      BY <2>2 DEF IsRunning
    <3>2. nextId[p] \in Nat \ {0} /\ nextId[p] + 1 \in Nat \ {0}
      <4>1. nextId \in [Calls -> Nat \ {0}]
        BY DEF TypeOK
      <4> QED
        BY <3>1, <4>1
    <3>3. /\ lock' = c
          /\ target' = [target EXCEPT ![c] = p]
          /\ reqId' = [reqId EXCEPT ![c] = nextId[p]]
          /\ nextId' = [nextId EXCEPT ![p] = nextId[p] + 1]
      BY <1>5, <2>2 DEF BeginWrite, TakeId
    <3> HIDE DEF p
    <3>4. nextId' \in [Calls -> Nat \ {0}] /\ reqId' \in [Calls -> Nat]
      BY <3>1, <3>2, <3>3, UpdateType DEF TypeOK
    <3>5. target' \in [Calls -> Calls \cup {None}]
      BY <3>1, <3>3, UpdateType DEF TypeOK
    <3>6. lock' \in Calls \cup Tasks \cup {None}
      BY <3>3
    <3> QED
      BY <1>5, <2>1, <3>4, <3>5, <3>6 DEF BeginWrite, TypeOK
  <2>3. CASE ~IsRunning(slug[c])
    BY <1>5, <2>1, <2>3 DEF BeginWrite, TypeOK
  <2> QED
    BY <2>2, <2>3
<1> QED
  BY <1>1, <1>2, <1>3, <1>4, <1>5 DEF CallLocks

(* A child that starts, reading its ZIP and answering initialize, keeps    *)
(* every type.                                                             *)
LEMMA TypeStartStep ==
  ASSUME TypeOK, NEW c \in Calls, ZipTaken(c) \/ InitAnswered(c)
  PROVE  TypeOK'
<1> USE DEF registryVars, mapVars, taskVars, procVars
<1>0. \A label \in CallPCs : Goto(c, label) => pc' \in [Calls -> CallPCs]
  BY GotoType
<1>1. CASE ZipTaken(c)
  <2>1. pc' \in [Calls -> CallPCs]
    BY <1>0, <1>1, Labels DEF ZipTaken
  <2> QED
    BY <1>1, <2>1 DEF ZipTaken, TypeOK
<1>4. CASE InitAnswered(c)
  <2>1. pc' \in [Calls -> CallPCs]
    BY <1>0, <1>4, Labels DEF InitAnswered
  <2>2. child' \in [Calls -> {"none", "starting", "up", "dead"}]
    BY <1>4, UpdateType DEF InitAnswered, TypeOK
  <2>3. age' \in [Calls -> 0..(IdleTimeout + 1)]
    <3>1. 0 \in 0..(IdleTimeout + 1)
      BY ConstantsOK DEF ConstantsOK
    <3> QED
      BY <1>4, <3>1, UpdateType DEF InitAnswered, TypeOK
  <2> QED
    BY <1>4, <2>1, <2>2, <2>3 DEF InitAnswered, TypeOK
<1> QED
  BY <1>1, <1>4

(* The steps of children and their reader tasks keep every type.           *)
LEMMA TypeChildStep ==
  ASSUME TypeOK, NEW p \in Calls, ChildAnswers(p) \/ ChildExits(p) \/ Route(p)
  PROVE  TypeOK'
<1> USE ConstantsOK DEF ConstantsOK, TypeOK, Lines
<1>1. CASE ChildAnswers(p)
  <2>1. PICK line \in stdin[p] :
          /\ stdin' = [stdin EXCEPT ![p] = stdin[p] \ {line}]
          /\ stdout' = [stdout EXCEPT ![p] = stdout[p] \cup {line}]
    BY <1>1 DEF ChildAnswers
  <2>2. /\ stdin[p] \ {line} \in SUBSET Lines
        /\ stdout[p] \cup {line} \in SUBSET Lines
    BY <2>1
  <2>3. /\ stdin' \in [Calls -> SUBSET Lines]
        /\ stdout' \in [Calls -> SUBSET Lines]
    BY <2>1, <2>2, UpdateType
  <2> QED
    BY <1>1, <2>3 DEF ChildAnswers, registryVars, mapVars, callVars, taskVars
<1>2. CASE ChildExits(p)
  <2>1. Die({p})
    BY <1>2 DEF ChildExits
  <2>2. /\ child' \in [Calls -> {"none", "starting", "up", "dead"}]
        /\ stdin' \in [Calls -> SUBSET Lines]
    BY <2>1, DieType
  <2> QED
    BY <1>2, <2>2 DEF ChildExits, registryVars, mapVars, callVars, taskVars
<1>3. CASE Route(p)
  <2>1. PICK line \in stdout[p] :
          /\ stdout' = [stdout EXCEPT ![p] = @ \ {line}]
          /\ pending' = [pending EXCEPT ![p] = @ \ {l \in pending[p] : l.id = line.id}]
          /\ mail' = [c \in Calls |->
                        IF pc[c] = "waiting" /\ \E w \in {l \in pending[p] : l.id = line.id} : w.call = c
                          THEN line.call ELSE mail[c]]
    BY <1>3 DEF Route
  <2>2. line.call \in Calls
    BY <2>1
  <2>3. /\ stdout' \in [Calls -> SUBSET Lines]
        /\ pending' \in [Calls -> SUBSET Lines]
    BY <2>1, UpdateType
  <2>4. mail' \in [Calls -> Calls \cup {None}]
    <3>1. \A c \in Calls : mail[c] \in Calls \cup {None}
      OBVIOUS
    <3> HIDE DEF TypeOK
    <3> QED
      BY <2>1, <2>2, <3>1
  <2> HIDE DEF ConstantsOK, Lines
  <2>5. UNCHANGED <<registryVars, mapVars, taskVars, pc, slug, target, reqId, waited, child, stdin, nextId,
                    age, stopped>>
    BY <1>3 DEF Route
  <2> QED
    BY <2>3, <2>4, <2>5 DEF registryVars, mapVars, taskVars
<1> QED
  BY <1>1, <1>2, <1>3

(* The steps of the background tasks, of saves and of time keep every type.*)
LEMMA TypeTaskStep ==
  ASSUME TypeOK,
         \/ SaveTruncates \/ SaveWrites \/ WatcherWakes \/ ReaperWakes
         \/ \E t \in Tasks : Swap(t) \/ Release(t)
         \/ WatcherReports \/ Reap \/ (\E s \in KillSlugs : Kill(s)) \/ Shutdown \/ Tick
  PROVE  TypeOK'
<1> USE DEF registryVars, mapVars, callVars, taskVars, procVars
<1>1. CASE SaveTruncates \/ SaveWrites
  <2>1. file' \in Registries \cup {None}
    BY <1>1 DEF SaveTruncates, SaveWrites
  <2>2. events' \in 0..EventCap
    <3>1. \A n \in 0..EventCap : n < EventCap => n + 1 \in 0..EventCap
      BY ConstantsOK DEF ConstantsOK
    <3>2. events \in 0..EventCap
      BY DEF TypeOK
    <3> QED
      BY <1>1, <3>1, <3>2 DEF SaveTruncates, SaveWrites, Notify
  <2>3. UNCHANGED <<mapVars, callVars, taskVars, procVars, stopped>>
    BY <1>1 DEF SaveTruncates, SaveWrites
  <2> QED
    BY <2>1, <2>2, <2>3 DEF TypeOK
<1>2. CASE WatcherWakes \/ ReaperWakes
  <2>1. (IF file = None THEN <<>> ELSE file) \in Seq(Slugs)
    BY ConstantsOK DEF ConstantsOK, TypeOK
  <2>2. PICK t \in Tasks : ReadRegistry(t)
    BY <1>2 DEF WatcherWakes, ReaperWakes
  <2>3. /\ snap' \in [Tasks -> Seq(Slugs)]
        /\ tpc' \in [Tasks -> TaskPCs]
    BY <2>1, <2>2, UpdateType DEF ReadRegistry, TypeOK, TaskPCs
  <2>4. events' \in 0..EventCap
    BY <1>2, ConstantsOK DEF WatcherWakes, ReaperWakes, ConstantsOK, TypeOK
  <2> QED
    BY <1>2, <2>3, <2>4 DEF WatcherWakes, ReaperWakes, TypeOK
<1>3. ASSUME NEW t \in Tasks, Swap(t)
      PROVE  TypeOK'
  <2>1. \A s \in Slugs : Merged(snap[t], s) \in Tags \cup Calls
    <3>1. \A s \in Slugs : status[s] \in Tags \cup Calls
      BY DEF TypeOK
    <3> QED
      BY <3>1, Labels DEF Merged
  <2>2. status' \in [Slugs -> Tags \cup Calls]
    BY <1>3, <2>1 DEF Swap
  <2>3. listed' \in Seq(Slugs)
    BY <1>3 DEF Swap, SetOrbs, TypeOK
  <2>4. snap' \in [Tasks -> Seq(Slugs)]
    <3>1. <<>> \in Seq(Slugs)
      OBVIOUS
    <3> QED
      BY <1>3, <3>1, UpdateType DEF Swap, TypeOK
  <2>5. tpc' \in [Tasks -> TaskPCs]
    BY <1>3, UpdateType DEF Swap, TypeOK, TaskPCs
  <2>6. /\ child' \in [Calls -> {"none", "starting", "up", "dead"}]
        /\ stdin' \in [Calls -> SUBSET Lines]
    BY <1>3, DieType DEF Swap
  <2> QED
    BY <1>3, <2>2, <2>3, <2>4, <2>5, <2>6 DEF Swap, TypeOK
<1>4. ASSUME NEW t \in Tasks, Release(t)
      PROVE  TypeOK'
  <2>1. tpc' \in [Tasks -> TaskPCs]
    BY <1>4, UpdateType DEF Release, TypeOK, TaskPCs
  <2> QED
    BY <1>4, <2>1 DEF Release, TypeOK
<1>5. CASE WatcherReports
  <2>1. tpc' \in [Tasks -> TaskPCs]
    BY <1>5, UpdateType DEF WatcherReports, TypeOK, TaskPCs
  <2> QED
    BY <1>5, <2>1 DEF WatcherReports, TypeOK
<1>6. CASE Reap
  <2>1. tpc' \in [Tasks -> TaskPCs]
    BY <1>6, UpdateType DEF Reap, TypeOK, TaskPCs
  <2>2. status' \in [Slugs -> Tags \cup Calls]
    BY <1>6, Labels DEF Reap, TypeOK
  <2>3. /\ child' \in [Calls -> {"none", "starting", "up", "dead"}]
        /\ stdin' \in [Calls -> SUBSET Lines]
    BY <1>6, DieType DEF Reap
  <2> QED
    BY <1>6, <2>1, <2>2, <2>3 DEF Reap, TypeOK
<1>7. ASSUME NEW s \in KillSlugs, Kill(s)
      PROVE  TypeOK'
  <2>1. status' \in [Slugs -> Tags \cup Calls]
    BY <1>7, Labels, UpdateType DEF Kill, TypeOK
  <2>2. /\ child' \in [Calls -> {"none", "starting", "up", "dead"}]
        /\ stdin' \in [Calls -> SUBSET Lines]
    BY <1>7, DieType DEF Kill
  <2> QED
    BY <1>7, <2>1, <2>2 DEF Kill, TypeOK
<1>8. CASE Shutdown
  <2>1. status' \in [Slugs -> Tags \cup Calls]
    BY <1>8, Labels DEF Shutdown, TypeOK
  <2>2. /\ child' \in [Calls -> {"none", "starting", "up", "dead"}]
        /\ stdin' \in [Calls -> SUBSET Lines]
    BY <1>8, DieType DEF Shutdown
  <2> QED
    BY <1>8, <2>1, <2>2 DEF Shutdown, TypeOK
<1>9. CASE Tick
  <2>1. waited' \in [Calls -> 0..RequestTimeout]
    <3>1. \A c \in Calls : waited[c] \in 0..RequestTimeout
      BY DEF TypeOK
    <3>2. \A n \in 0..RequestTimeout : n < RequestTimeout => n + 1 \in 0..RequestTimeout
      BY ConstantsOK DEF ConstantsOK
    <3> QED
      BY <1>9, <3>1, <3>2 DEF Tick
  <2>2. age' \in [Calls -> 0..(IdleTimeout + 1)]
    <3>1. \A p \in Calls : age[p] \in 0..(IdleTimeout + 1)
      BY DEF TypeOK
    <3>2. \A n \in 0..(IdleTimeout + 1) : n <= IdleTimeout => n + 1 \in 0..(IdleTimeout + 1)
      BY ConstantsOK DEF ConstantsOK
    <3> QED
      BY <1>9, <3>1, <3>2 DEF Tick
  <2> QED
    BY <1>9, <2>1, <2>2 DEF Tick, TypeOK
<1> QED
  BY <1>1, <1>2, <1>3, <1>4, <1>5, <1>6, <1>7, <1>8, <1>9

(* TypeOK is inductive.                                                    *)
LEMMA TypeStep ==
  ASSUME TypeOK, Next
  PROVE  TypeOK'
BY TypeCallStep, TypeCallLocks, TypeStartStep, TypeChildStep, TypeTaskStep DEF Next

(* Every variable keeps its type, through every interleaving of calls,     *)
(* children, refreshes, saves and timers.                                  *)
THEOREM TypeCorrect == Spec => []TypeOK
<1>1. TypeOK /\ [Next]_vars => TypeOK'
  <2>1. CASE UNCHANGED vars
    BY <2>1 DEF TypeOK, vars, registryVars, mapVars, callVars, taskVars, procVars
  <2> QED
    BY <2>1, TypeStep
<1> QED
  BY TypeInit, <1>1, PTL DEF Spec

-----------------------------------------------------------------------------
(* The child a call wrote to was started for the same Orb, and has handed  *)
(* out the id the call used.                                               *)
TargetOK ==
  /\ \A c \in Calls : target[c] \in Calls =>
       /\ pc[c] \in {"writing", "flushed", "waiting"} \cup Ended
       /\ slug[target[c]] = slug[c]
       /\ reqId[c] < nextId[target[c]]
  /\ \A c \in Calls : pc[c] \in {"writing", "flushed", "waiting", "answered"} =>
       target[c] \in Calls

(* No child sees one id from two calls.                                    *)
IdsDistinct ==
  \A c, d \in Calls :
    target[c] \in Calls /\ target[c] = target[d] /\ reqId[c] = reqId[d] => c = d

(* A line in a pipe of p, or waited for at p, carries the id its call used *)
(* with p.                                                                 *)
LinesOK ==
  \A p \in Calls : \A l \in stdin[p] \cup stdout[p] \cup pending[p] :
    target[l.call] = p /\ reqId[l.call] = l.id

(* A call is only ever sent its own answer, and ends answered with one.    *)
MailOK == \A c \in Calls : mail[c] \in {None, c} /\ (pc[c] = "answered" => mail[c] # None)

(* The running entry of an Orb was started for that Orb, by a call that is *)
(* past its spawn.                                                         *)
EntriesOK ==
  \A s \in Slugs : IsRunning(s) => slug[status[s]] = s /\ pc[status[s]] \notin Arriving

(* A call that has not spawned has no child.                               *)
Unspawned == \A c \in Calls : pc[c] \in {"lookup", "ensure", "spawn"} => child[c] = "none"

(* After shutdown nothing runs and nobody calls.                           *)
AllEnded == stopped => (\A c \in Calls : pc[c] \in Ended) /\ (\A s \in Slugs : ~IsRunning(s))

Routing == TypeOK /\ EntriesOK /\ TargetOK /\ IdsDistinct /\ LinesOK /\ MailOK

Ownership == TypeOK /\ EntriesOK /\ Unspawned /\ NoStrayChild /\ AllEnded /\ ListedHaveStatus

(* A call has waited at least as long as its child has been unused.        *)
WaitersFresh ==
  /\ \A c \in Calls : pc[c] # "waiting" => waited[c] = 0
  /\ \A c \in Calls : pc[c] = "waiting" /\ mail[c] = None => age[target[c]] <= waited[c]

-----------------------------------------------------------------------------
(* No step changes which Orb a call is for, no call arrives twice, and one *)
(* that has ended stays so.                                                *)
LEMMA CallsMoveOn ==
  ASSUME TypeOK, Next
  PROVE  /\ slug' = slug
         /\ \A c \in Calls : pc'[c] \in Arriving => pc[c] \in Arriving
         /\ \A c \in Calls : pc[c] \in Ended => pc'[c] = pc[c]
<1> USE DEF Arriving, Ended
<1>1. ASSUME NEW c \in Calls, CallStep(c)
      PROVE  slug' = slug /\ \E x \in CallPCs : pc' = [pc EXCEPT ![c] = x]
                                 /\ (x \in Arriving => pc[c] \in Arriving)
                                 /\ pc[c] \notin Ended
  BY <1>1 DEF CallStep, Lookup, SpawnAbort, Spawn, ZipFailed, InitFailed, Flush,
     FlushFailed, Register, Receive, TimedOut, Disconnected, Goto, CallPCs
<1>2. ASSUME NEW c \in Calls, CallLocks(c)
      PROVE  slug' = slug /\ \E x \in CallPCs : pc' = [pc EXCEPT ![c] = x]
                                 /\ (x \in Arriving => pc[c] \in Arriving)
                                 /\ pc[c] \notin Ended
  BY <1>2 DEF CallLocks, Ensure, CommitSpawned, CommitFailed, Forward, BeginWrite, Goto, CallPCs
<1>3. ASSUME NEW p \in Calls, ChildAnswers(p) \/ ChildExits(p) \/ Route(p)
      PROVE  UNCHANGED <<slug, pc>>
  BY <1>3 DEF ChildAnswers, ChildExits, Route, callVars
<1>6. ASSUME NEW p \in Calls, ZipTaken(p) \/ InitAnswered(p)
      PROVE  /\ slug' = slug /\ pc[p] \in {"zip", "init"}
             /\ \E x \in {"init", "commitOk"} : pc' = [pc EXCEPT ![p] = x]
  BY <1>6 DEF ZipTaken, InitAnswered, Goto
<1>4. ASSUME \/ SaveTruncates \/ SaveWrites \/ WatcherWakes \/ ReaperWakes
             \/ \E t \in Tasks : Swap(t) \/ Release(t)
             \/ WatcherReports \/ Reap \/ (\E s \in KillSlugs : Kill(s)) \/ Shutdown \/ Tick
      PROVE  UNCHANGED <<slug, pc>>
  BY <1>4 DEF SaveTruncates, SaveWrites, WatcherWakes, ReaperWakes, Swap, Release,
     WatcherReports, Reap, Kill, Shutdown, Tick, callVars
<1>5. CASE \E c \in Calls : CallStep(c) \/ CallLocks(c)
  BY <1>1, <1>2, <1>5 DEF TypeOK
<1>7. CASE \E p \in Calls : ZipTaken(p) \/ InitAnswered(p)
  BY <1>6, <1>7 DEF TypeOK
<1> HIDE DEF Arriving
<1> QED
  BY <1>3, <1>4, <1>5, <1>7 DEF Next

(* The running entry of an Orb only ever becomes the child of the call     *)
(* that commits its spawn (CommitSpawned); every other step keeps it or    *)
(* takes it away.                                                          *)
LEMMA EntriesMove ==
  ASSUME TypeOK, Next, NEW s \in Slugs, status'[s] \in Calls
  PROVE  \/ status'[s] = status[s]
         \/ /\ slug[status'[s]] = s
            /\ pc[status'[s]] = "commitOk" /\ pc'[status'[s]] \notin Arriving
<1> USE ConstantsOK, NamesDistinct DEF TypeOK, ConstantsOK, NamesDistinct, Tags
<1>1. ASSUME NEW c \in Calls, CallStep(c)
      PROVE  status' = status
  BY <1>1 DEF CallStep, Lookup, SpawnAbort, Spawn, ZipFailed, InitFailed, Flush,
     FlushFailed, Register, Receive, TimedOut, Disconnected, mapVars
<1>2. ASSUME NEW c \in Calls, CommitSpawned(c)
      PROVE  \/ status'[s] = status[s]
             \/ /\ slug[status'[s]] = s
                /\ pc[status'[s]] = "commitOk" /\ pc'[status'[s]] \notin Arriving
  BY <1>2 DEF CommitSpawned, Arriving, Goto
<1>3. ASSUME NEW c \in Calls, CommitFailed(c)
      PROVE  status'[s] = status[s]
  BY <1>3 DEF CommitFailed
<1>4. ASSUME NEW c \in Calls, Ensure(c) \/ Forward(c) \/ BeginWrite(c)
      PROVE  status' = status
  BY <1>4 DEF Ensure, Forward, BeginWrite, mapVars
<1>5. ASSUME NEW p \in Calls, ZipTaken(p) \/ InitAnswered(p) \/ ChildAnswers(p) \/ ChildExits(p) \/ Route(p)
      PROVE  status' = status
  BY <1>5 DEF ZipTaken, InitAnswered, ChildAnswers, ChildExits, Route, mapVars
<1>6. ASSUME NEW t \in Tasks, Swap(t)
      PROVE  status'[s] = status[s]
  BY <1>6 DEF Swap, Merged
<1>7. ASSUME \/ SaveTruncates \/ SaveWrites \/ WatcherWakes \/ ReaperWakes
             \/ \E t \in Tasks : Release(t)
             \/ WatcherReports \/ Tick
      PROVE  status' = status
  BY <1>7 DEF SaveTruncates, SaveWrites, WatcherWakes, ReaperWakes, Release,
     WatcherReports, Tick, mapVars
<1>8. ASSUME NEW k \in KillSlugs, Kill(k)
      PROVE  status'[s] = status[s]
  BY <1>8 DEF Kill
<1>9. CASE Reap \/ Shutdown
  BY <1>9 DEF Reap, Shutdown
<1> HIDE DEF TypeOK, ConstantsOK, NamesDistinct, Tags
<1> QED
  BY <1>1, <1>2, <1>3, <1>4, <1>5, <1>6, <1>7, <1>8, <1>9 DEF Next, CallLocks

(* EntriesOK is inductive on top of TypeOK.                                *)
LEMMA EntriesStep ==
  ASSUME TypeOK, EntriesOK, Next
  PROVE  EntriesOK'
<1> SUFFICES ASSUME NEW s \in Slugs, status'[s] \in Calls
             PROVE  slug'[status'[s]] = s /\ pc'[status'[s]] \notin Arriving
  BY DEF EntriesOK, IsRunning
<1>1. slug' = slug /\ \A c \in Calls : pc'[c] \in Arriving => pc[c] \in Arriving
  BY CallsMoveOn
<1>2. CASE status'[s] = status[s]
  BY <1>1, <1>2 DEF EntriesOK, IsRunning
<1>3. CASE slug[status'[s]] = s /\ pc'[status'[s]] \notin Arriving
  BY <1>1, <1>3
<1> QED
  BY <1>2, <1>3, EntriesMove
-----------------------------------------------------------------------------
(* Every step but five leaves ids, waiters and answers alone: it may empty *)
(* a dead child's stdin and move calls on, but not into "writing".         *)
Quiet ==
  /\ UNCHANGED <<slug, target, reqId, mail, stdout, pending, nextId>>
  /\ \A p \in Calls : stdin'[p] \subseteq stdin[p]
  /\ \A c \in Calls :
       /\ pc[c] \in {"writing", "flushed", "waiting"} \cup Ended
            => pc'[c] \in {"writing", "flushed", "waiting"} \cup Ended
       /\ pc'[c] \in {"writing", "flushed", "waiting", "answered"} => pc'[c] = pc[c]

(* The steps that are quiet.                                               *)
LEMMA QuietSteps ==
  ASSUME TypeOK, Next
  PROVE  \/ Quiet
         \/ \E c \in Calls : BeginWrite(c) \/ Flush(c) \/ Register(c) \/ Receive(c)
         \/ \E p \in Calls : ChildAnswers(p) \/ Route(p)
<1> USE DEF TypeOK, Quiet, Ended
<1>1. ASSUME NEW c \in Calls,
             \/ Lookup(c) \/ SpawnAbort(c) \/ Spawn(c) \/ InitAnswered(c)
             \/ FlushFailed(c) \/ TimedOut(c) \/ Disconnected(c) \/ InitFailed(c)
             \/ ZipTaken(c) \/ ZipFailed(c)
      PROVE  Quiet
  <2>1. CASE Lookup(c) \/ SpawnAbort(c)
    BY <2>1 DEF Lookup, SpawnAbort, Goto, procVars
  <2>2. CASE Spawn(c) \/ InitAnswered(c)
    BY <2>2 DEF Spawn, InitAnswered, Goto
  <2>3. CASE InitFailed(c)
    BY <2>3 DEF InitFailed, Goto, Die
  <2>4. CASE FlushFailed(c)
    BY <2>4 DEF FlushFailed, Goto, procVars
  <2>5. CASE TimedOut(c) \/ Disconnected(c)
    BY <2>5 DEF TimedOut, Disconnected, Goto, procVars
  <2>6. CASE ZipTaken(c) \/ ZipFailed(c)
    BY <2>6 DEF ZipTaken, ZipFailed, Goto, procVars
  <2> HIDE DEF TypeOK, Quiet
  <2> QED
    BY <1>1, <2>1, <2>2, <2>3, <2>4, <2>5, <2>6
<1>2. ASSUME NEW c \in Calls, Ensure(c) \/ Forward(c)
      PROVE  Quiet
  BY <1>2 DEF Ensure, Forward, Goto, procVars
<1>9. ASSUME NEW c \in Calls, CommitFailed(c)
      PROVE  Quiet
  BY <1>9 DEF CommitFailed, Goto, procVars
<1>10. ASSUME NEW c \in Calls, CommitSpawned(c)
      PROVE  Quiet
  <2>1. /\ UNCHANGED <<slug, target, reqId, mail, stdout, pending, nextId>>
        /\ \A p \in Calls : stdin'[p] \subseteq stdin[p]
    BY <1>10 DEF CommitSpawned, Die
  <2>2. pc[c] = "commitOk" /\ pc' = [pc EXCEPT ![c] = "forward"]
    BY <1>10 DEF CommitSpawned, Goto
  <2> QED
    BY <2>1, <2>2
<1>3. ASSUME NEW p \in Calls, ChildExits(p)
      PROVE  Quiet
  BY <1>3 DEF ChildExits, Die, callVars
<1>4. CASE SaveTruncates \/ SaveWrites \/ WatcherWakes \/ ReaperWakes \/ WatcherReports
  BY <1>4 DEF SaveTruncates, SaveWrites, WatcherWakes, ReaperWakes, WatcherReports, callVars, procVars
<1>5. ASSUME NEW t \in Tasks, Swap(t) \/ Release(t)
      PROVE  Quiet
  BY <1>5 DEF Swap, Release, Die, callVars, procVars
<1>6. CASE Reap \/ Shutdown
  <2>1. PICK K : Die(K)
    BY <1>6 DEF Reap, Shutdown
  <2>2. \A p \in Calls : stdin'[p] \subseteq stdin[p]
    BY <2>1 DEF Die
  <2>3. UNCHANGED <<callVars, stdout, pending, nextId>>
    BY <1>6 DEF Reap, Shutdown
  <2> QED
    BY <2>2, <2>3 DEF callVars
<1>7. ASSUME NEW s \in KillSlugs, Kill(s)
      PROVE  Quiet
  BY <1>7 DEF Kill, Die, callVars
<1>8. CASE Tick
  BY <1>8 DEF Tick
<1> HIDE DEF TypeOK, Quiet, Ended
<1> QED
  BY <1>1, <1>2, <1>3, <1>4, <1>5, <1>6, <1>7, <1>8, <1>9, <1>10 DEF Next, CallStep, CallLocks

(* Quiet steps preserve the conjuncts of Routing that are about messages.  *)
LEMMA RoutingQuiet ==
  ASSUME TypeOK, TargetOK, IdsDistinct, LinesOK, MailOK, Quiet
  PROVE  TargetOK' /\ IdsDistinct' /\ LinesOK' /\ MailOK'
<1> USE DEF Quiet
<1>1. TargetOK'
  BY DEF TargetOK
<1>2. IdsDistinct'
  BY DEF IdsDistinct
<1>3. LinesOK'
  BY DEF LinesOK
<1>4. MailOK'
  BY DEF MailOK
<1> QED
  BY <1>1, <1>2, <1>3, <1>4

(* BeginWrite takes an id no other call has used with that child.          *)
LEMMA RoutingBeginWrite ==
  ASSUME Routing, NEW c \in Calls, BeginWrite(c)
  PROVE  TargetOK' /\ IdsDistinct' /\ LinesOK' /\ MailOK'
<1> USE DEF TypeOK, Routing, TargetOK
<1>0. target[c] \notin Calls
  BY DEF BeginWrite, Ended
<1>1. CASE IsRunning(slug[c])
  <2> DEFINE p == status[slug[c]]
  <2>1. p \in Calls /\ slug[p] = slug[c] /\ nextId[p] \in Nat
    BY <1>1 DEF IsRunning, EntriesOK
  <2>2. /\ target' = [target EXCEPT ![c] = p]
        /\ reqId' = [reqId EXCEPT ![c] = nextId[p]]
        /\ nextId' = [nextId EXCEPT ![p] = nextId[p] + 1]
        /\ pc' = [pc EXCEPT ![c] = "writing"]
        /\ UNCHANGED <<slug, mail, stdin, stdout, pending>>
    BY <1>1 DEF BeginWrite, TakeId, Goto
  <2> HIDE DEF p
  <2>3. TargetOK'
    <3>1. ASSUME NEW d \in Calls, target'[d] \in Calls
          PROVE  /\ pc'[d] \in {"writing", "flushed", "waiting"} \cup Ended
                 /\ slug'[target'[d]] = slug'[d]
                 /\ reqId'[d] < nextId'[target'[d]]
      <4>1. CASE d = c
        BY <2>1, <2>2, <4>1
      <4>2. CASE d # c
        <5>1. /\ target'[d] = target[d] /\ pc'[d] = pc[d] /\ reqId'[d] = reqId[d]
              /\ reqId[d] \in Nat /\ nextId[target[d]] \in Nat
              /\ nextId'[target[d]] \in {nextId[target[d]], nextId[target[d]] + 1}
          BY <2>1, <2>2, <4>2, <3>1
        <5> QED
          BY <5>1, <3>1, <2>2
      <4> QED
        BY <4>1, <4>2
    <3>2. ASSUME NEW d \in Calls, pc'[d] \in {"writing", "flushed", "waiting", "answered"}
          PROVE  target'[d] \in Calls
      BY <2>1, <2>2, <3>2
    <3> QED
      BY <3>1, <3>2
  <2>4. IdsDistinct'
    <3> SUFFICES ASSUME NEW d \in Calls, NEW e \in Calls, d # e,
                        target'[d] \in Calls, target'[d] = target'[e], reqId'[d] = reqId'[e]
                 PROVE  FALSE
      BY DEF IdsDistinct
    <3>1. CASE d # c /\ e # c
      BY <2>2, <3>1 DEF IdsDistinct
    <3>2. ASSUME NEW f \in Calls, f # c, target'[f] = p
          PROVE  reqId'[f] # reqId'[c]
      <4>1. reqId'[f] = reqId[f] /\ target[f] = p /\ reqId'[c] = nextId[p]
        BY <2>1, <2>2, <3>2
      <4> QED
        BY <2>1, <4>1
    <3>4. CASE d = c
      <4>1. target'[e] = p /\ e # c
        BY <2>2, <3>4
      <4> QED
        BY <3>2, <3>4, <4>1
    <3>5. CASE e = c
      <4>1. target'[d] = p /\ d # c
        BY <2>2, <3>5
      <4> QED
        BY <3>2, <3>5, <4>1
    <3> QED
      BY <3>1, <3>4, <3>5
  <2>5. LinesOK'
    <3> SUFFICES ASSUME NEW q \in Calls, NEW l \in stdin[q] \cup stdout[q] \cup pending[q]
                 PROVE  target'[l.call] = q /\ reqId'[l.call] = l.id
      BY <2>2 DEF LinesOK
    <3>1. l.call \in Calls /\ target[l.call] = q /\ reqId[l.call] = l.id
      BY DEF LinesOK, Lines
    <3> QED
      BY <1>0, <2>2, <3>1
  <2>6. MailOK'
    BY <2>2 DEF MailOK
  <2> QED
    BY <2>3, <2>4, <2>5, <2>6
<1>2. CASE ~IsRunning(slug[c])
  <2>1. Quiet
    <3>1. pc[c] = "write" /\ pc' = [pc EXCEPT ![c] = "refused"]
      BY <1>2 DEF BeginWrite, Goto
    <3>2. UNCHANGED <<slug, target, reqId, mail, stdin, stdout, pending, nextId>>
      BY <1>2 DEF BeginWrite
    <3> QED
      BY <3>1, <3>2 DEF Quiet, Ended
  <2> QED
    BY <2>1, RoutingQuiet
<1> QED
  BY <1>1, <1>2

(* A line that was written, answered or waited for keeps the id and the    *)
(* child its call used; Flush, Register, Receive and the child move lines  *)
(* and calls, not ids.                                                     *)
LEMMA RoutingMoves ==
  ASSUME Routing, NEW c \in Calls,
         Flush(c) \/ Register(c) \/ Receive(c) \/ ChildAnswers(c)
  PROVE  TargetOK' /\ IdsDistinct' /\ LinesOK' /\ MailOK'
<1> USE DEF TypeOK, Routing
<1>1. UNCHANGED <<slug, target, reqId, mail, nextId>>
  BY DEF Flush, Register, Receive, ChildAnswers, callVars, procVars
<1>2. /\ \A d \in Calls : d # c => pc'[d] = pc[d]
      /\ pc'[c] # pc[c] => /\ pc[c] \in {"writing", "flushed", "waiting"}
                           /\ pc'[c] \in {"flushed", "waiting", "answered"}
                           /\ pc'[c] = "answered" => mail[c] # None
  BY DEF Flush, Register, Receive, ChildAnswers, callVars, Goto
<1>3. TargetOK'
  BY <1>1, <1>2 DEF TargetOK, Ended
<1>4. IdsDistinct'
  BY <1>1 DEF IdsDistinct
<1>5. MailOK'
  BY <1>1, <1>2 DEF MailOK
<1>6. \A p \in Calls : \A l \in stdin'[p] \cup stdout'[p] \cup pending'[p] :
        l \in stdin[p] \cup stdout[p] \cup pending[p] \/ (p = target[c] /\ l = Line(c))
  <2>1. CASE Flush(c)
    <3>1. /\ stdin' = [stdin EXCEPT ![target[c]] = stdin[target[c]] \cup {Line(c)}]
          /\ UNCHANGED <<stdout, pending>>
      BY <2>1 DEF Flush
    <3> QED
      BY <3>1
  <2>2. CASE Register(c)
    <3>1. /\ pending' = [pending EXCEPT ![target[c]] = Insert(pending[target[c]], Line(c))]
          /\ UNCHANGED <<stdout, stdin>>
      BY <2>2 DEF Register
    <3>2. \A l \in Insert(pending[target[c]], Line(c)) : l \in pending[target[c]] \/ l = Line(c)
      BY DEF Insert
    <3> HIDE DEF TypeOK
    <3>3. pending \in [Calls -> SUBSET Lines]
      BY DEF TypeOK
    <3> QED
      BY <3>1, <3>2, <3>3
  <2>3. CASE Receive(c)
    BY <2>3 DEF Receive, procVars
  <2>4. CASE ChildAnswers(c)
    <3>1. PICK line \in stdin[c] :
            /\ stdin' = [stdin EXCEPT ![c] = stdin[c] \ {line}]
            /\ stdout' = [stdout EXCEPT ![c] = stdout[c] \cup {line}]
            /\ pending' = pending
      BY <2>4 DEF ChildAnswers
    <3> QED
      BY <3>1
  <2> QED
    BY <2>1, <2>2, <2>3, <2>4
<1>7. LinesOK'
  <2> SUFFICES ASSUME NEW p \in Calls, NEW l \in stdin'[p] \cup stdout'[p] \cup pending'[p]
               PROVE  target[l.call] = p /\ reqId[l.call] = l.id
    BY <1>1 DEF LinesOK
  <2>1. CASE l \in stdin[p] \cup stdout[p] \cup pending[p]
    BY <2>1 DEF LinesOK
  <2>2. CASE p = target[c] /\ l = Line(c)
    BY <2>2 DEF Line
  <2> QED
    BY <1>6, <2>1, <2>2
<1> QED
  BY <1>3, <1>4, <1>5, <1>7

(* The reader task finds the waiter of the call whose question the line    *)
(* answers: two calls never used the same id with that child.              *)
LEMMA RoutingRoute ==
  ASSUME Routing, NEW p \in Calls, Route(p)
  PROVE  TargetOK' /\ IdsDistinct' /\ LinesOK' /\ MailOK'
<1> USE DEF Routing
<1>1. PICK line \in stdout[p] :
        /\ stdout' = [stdout EXCEPT ![p] = @ \ {line}]
        /\ pending' = [pending EXCEPT ![p] = @ \ {l \in pending[p] : l.id = line.id}]
        /\ mail' = [c \in Calls |->
                      IF pc[c] = "waiting" /\ \E w \in {l \in pending[p] : l.id = line.id} : w.call = c
                        THEN line.call ELSE mail[c]]
        /\ UNCHANGED <<pc, slug, target, reqId, nextId, stdin>>
  BY DEF Route
<1>2. line.call \in Calls /\ target[line.call] = p /\ reqId[line.call] = line.id
  BY DEF LinesOK, TypeOK, Lines
<1>3. ASSUME NEW w \in pending[p], w.id = line.id
      PROVE  w.call = line.call
  <2>1. w.call \in Calls /\ target[w.call] = p /\ reqId[w.call] = w.id
    BY DEF LinesOK, TypeOK, Lines
  <2> QED
    BY <1>2, <1>3, <2>1 DEF IdsDistinct
<1>4. TargetOK'
  BY <1>1 DEF TargetOK
<1>5. IdsDistinct'
  BY <1>1 DEF IdsDistinct
<1>6. LinesOK'
  BY <1>1 DEF LinesOK, TypeOK
<1>7. MailOK'
  <2> SUFFICES ASSUME NEW c \in Calls
               PROVE  mail'[c] \in {None, c} /\ (pc[c] = "answered" => mail'[c] # None)
    BY <1>1 DEF MailOK
  <2>1. CASE pc[c] = "waiting" /\ \E w \in {l \in pending[p] : l.id = line.id} : w.call = c
    <3>1. c = line.call
      BY <1>3, <2>1
    <3> QED
      BY <1>1, <2>1, <3>1
  <2>2. CASE ~(pc[c] = "waiting" /\ \E w \in {l \in pending[p] : l.id = line.id} : w.call = c)
    BY <1>1, <2>2 DEF MailOK
  <2> QED
    BY <2>1, <2>2
<1> QED
  BY <1>4, <1>5, <1>6, <1>7

(* Routing holds initially and is preserved by every step.                 *)
LEMMA RoutingInductive ==
  /\ Init => Routing
  /\ Routing /\ [Next]_vars => Routing'
<1>1. ASSUME Init
      PROVE  Routing
  <2> USE DEF Init
  <2>1. EntriesOK
    <3>1. \A s \in Slugs : status[s] \in {"idle", "absent"}
      BY <1>1
    <3> HIDE DEF Init
    <3> QED
      BY <3>1, NamesDistinct DEF EntriesOK, IsRunning, NamesDistinct, Tags
  <2>2. \A c \in Calls : pc[c] = "lookup" /\ target[c] = None /\ mail[c] = None
    BY <1>1
  <2>3. TargetOK
    BY <2>2, NamesDistinct DEF TargetOK, NamesDistinct
  <2>4. IdsDistinct
    BY <2>2, NamesDistinct DEF IdsDistinct, NamesDistinct
  <2>5. LinesOK
    BY <1>1 DEF LinesOK
  <2>6. MailOK
    BY <2>2 DEF MailOK
  <2> HIDE DEF Init
  <2> QED
    BY <1>1, <2>1, <2>3, <2>4, <2>5, <2>6, TypeInit DEF Routing
<1>2. ASSUME Routing, Next
      PROVE  Routing'
  <2>1. TypeOK'
    BY <1>2, TypeStep DEF Routing
  <2>2. EntriesOK'
    BY <1>2, EntriesStep DEF Routing
  <2>3. TargetOK' /\ IdsDistinct' /\ LinesOK' /\ MailOK'
    <3>1. CASE Quiet
      BY <1>2, <3>1, RoutingQuiet DEF Routing
    <3>2. ASSUME NEW c \in Calls, BeginWrite(c) \/ Flush(c) \/ Register(c) \/ Receive(c)
          PROVE  TargetOK' /\ IdsDistinct' /\ LinesOK' /\ MailOK'
      BY <1>2, <3>2, RoutingBeginWrite, RoutingMoves
    <3>3. ASSUME NEW p \in Calls, ChildAnswers(p) \/ Route(p)
          PROVE  TargetOK' /\ IdsDistinct' /\ LinesOK' /\ MailOK'
      BY <1>2, <3>3, RoutingMoves, RoutingRoute
    <3> QED
      BY <1>2, <3>1, <3>2, <3>3, QuietSteps DEF Routing
  <2> QED
    BY <2>1, <2>2, <2>3 DEF Routing
<1>3. ASSUME Routing, UNCHANGED vars
      PROVE  Routing'
  BY <1>3 DEF Routing, TypeOK, EntriesOK, IsRunning, TargetOK, IdsDistinct, LinesOK, MailOK,
     vars, registryVars, mapVars, callVars, taskVars, procVars
<1> QED
  BY <1>1, <1>2, <1>3

(* An answered call holds the answer to its own question, from a child of  *)
(* its own Orb (forward_request_inner and the reader task), for any number *)
(* of concurrent calls, timeouts and late answers.                         *)
THEOREM AnswersCorrect == Spec => []AnswersMatch
<1>1. Routing => AnswersMatch
  BY DEF Routing, MailOK, TargetOK, AnswersMatch
<1> QED
  BY RoutingInductive, <1>1, PTL DEF Spec
-----------------------------------------------------------------------------
(* A child that is alive after a step is being spawned, or serves its Orb, *)
(* or was alive before it and has not lost its entry.                      *)
LEMMA ChildrenMove ==
  ASSUME TypeOK, Next, NEW p \in Calls, child'[p] \in {"starting", "up"}
  PROVE  \/ pc'[p] \in {"zip", "init", "commitOk"}
         \/ status'[slug[p]] = p
         \/ /\ Alive(p) /\ pc[p] \notin {"zip", "init", "commitOk"}
            /\ status[slug[p]] = p => status'[slug[p]] = p
<1> USE DEF TypeOK, Alive
<1>1. ASSUME NEW c \in Calls, \/ Lookup(c) \/ SpawnAbort(c) \/ Flush(c) \/ FlushFailed(c)
                              \/ Register(c) \/ Receive(c) \/ TimedOut(c) \/ Disconnected(c)
      PROVE  /\ child' = child /\ status' = status
             /\ pc'[p] = pc[p] \/ pc[p] \notin {"zip", "init", "commitOk"}
  BY <1>1 DEF Lookup, SpawnAbort, Flush, FlushFailed, Register, Receive, TimedOut, Disconnected,
     Goto, mapVars, procVars
<1>2. ASSUME NEW c \in Calls, Spawn(c) \/ InitAnswered(c)
      PROVE  /\ status' = status
             /\ p # c => child'[p] = child[p] /\ pc'[p] = pc[p]
             /\ p = c => \/ pc'[p] \in {"zip", "init"}
                         \/ child' = child /\ pc[p] \notin {"zip", "init", "commitOk"}
                         \/ Alive(p) /\ pc[p] = "init" /\ pc'[p] = "commitOk"
  BY <1>2 DEF Spawn, InitAnswered, Goto, mapVars
<1>3. ASSUME NEW c \in Calls, InitFailed(c)
      PROVE  status' = status /\ p # c /\ child'[p] = child[p] /\ pc'[p] = pc[p]
  BY <1>3 DEF InitFailed, Goto, Die, mapVars
<1>12. ASSUME NEW c \in Calls, ZipTaken(c) \/ ZipFailed(c)
       PROVE  /\ status' = status /\ child' = child
              /\ p # c => pc'[p] = pc[p]
              /\ p = c => pc'[p] = "init"
  BY <1>12 DEF ZipTaken, ZipFailed, Goto, mapVars, procVars
<1>4. ASSUME NEW c \in Calls, CommitSpawned(c)
      PROVE  \/ status'[slug[p]] = p
             \/ /\ p # c /\ child'[p] = child[p] /\ pc'[p] = pc[p]
                /\ status[slug[p]] = p => status'[slug[p]] = p
  <2>1. CASE Overtaken(c)
    BY <1>4, <2>1 DEF CommitSpawned, Goto, Die
  <2>2. CASE ~Overtaken(c)
    BY <1>4, <2>2 DEF CommitSpawned, Goto, Overtaken, IsRunning
  <2> QED
    BY <2>1, <2>2
<1>5. ASSUME NEW c \in Calls, Ensure(c) \/ CommitFailed(c) \/ Forward(c) \/ BeginWrite(c)
      PROVE  /\ child' = child
             /\ pc'[p] = pc[p] \/ pc[p] \notin {"zip", "init", "commitOk"}
             /\ status[slug[p]] = p => status'[slug[p]] = p
  BY <1>5 DEF Ensure, CommitFailed, Forward, BeginWrite, Goto, IsRunning, mapVars, procVars
<1>6. ASSUME NEW q \in Calls, ChildAnswers(q) \/ ChildExits(q) \/ Route(q)
      PROVE  status' = status /\ pc' = pc /\ child'[p] = child[p]
  BY <1>6 DEF ChildAnswers, ChildExits, Route, Die, mapVars, callVars
<1>7. ASSUME NEW t \in Tasks, Swap(t)
      PROVE  pc' = pc /\ child'[p] = child[p] /\ (status[slug[p]] = p => status'[slug[p]] = p)
  BY <1>7 DEF Swap, Die, callVars
<1>8. ASSUME NEW s \in KillSlugs, Kill(s)
      PROVE  pc' = pc /\ child'[p] = child[p] /\ (status[slug[p]] = p => status'[slug[p]] = p)
  BY <1>8 DEF Kill, Die, callVars
<1>9. CASE Reap
  <2>1. pc' = pc /\ child'[p] = child[p] /\ p \notin IdleChildren
    BY <1>9 DEF Reap, Die, callVars
  <2>2. status[slug[p]] = p => status'[slug[p]] = p
    BY <1>9, <2>1 DEF Reap
  <2> QED
    BY <2>1, <2>2
<1>10. CASE Shutdown
  <2>1. pc' = pc /\ child'[p] = child[p] /\ p \notin MapChildren
    BY <1>10 DEF Shutdown, Die, callVars
  <2>2. status[slug[p]] # p
    BY <2>1 DEF MapChildren
  <2> QED
    BY <2>1, <2>2
<1>11. CASE \/ SaveTruncates \/ SaveWrites \/ WatcherWakes \/ ReaperWakes
            \/ (\E t \in Tasks : Release(t)) \/ WatcherReports \/ Tick
  BY <1>11 DEF SaveTruncates, SaveWrites, WatcherWakes, ReaperWakes, Release, WatcherReports,
     Tick, mapVars, callVars, procVars
<1> HIDE DEF TypeOK
<1> QED
  BY <1>1, <1>2, <1>3, <1>4, <1>5, <1>6, <1>7, <1>8, <1>9, <1>10, <1>11, <1>12
     DEF Next, CallStep, CallLocks

(* A call has no child before it spawns one.                               *)
LEMMA UnspawnedStep ==
  ASSUME TypeOK, EntriesOK, Unspawned, Next
  PROVE  Unspawned'
<1> SUFFICES ASSUME NEW p \in Calls, pc'[p] \in {"lookup", "ensure", "spawn"}
             PROVE  child'[p] = "none"
  BY DEF Unspawned
<1> USE DEF TypeOK, Unspawned
<1>9. ASSUME NEW c \in Calls, ZipTaken(c) \/ ZipFailed(c)
      PROVE  child'[p] = "none"
  BY <1>9 DEF ZipTaken, ZipFailed, Goto, procVars
<1>1. ASSUME NEW c \in Calls, \/ Lookup(c) \/ SpawnAbort(c) \/ Flush(c) \/ FlushFailed(c)
                              \/ Register(c) \/ Receive(c) \/ TimedOut(c) \/ Disconnected(c)
      PROVE  child'[p] = "none"
  BY <1>1 DEF Lookup, SpawnAbort, Flush, FlushFailed,
     Register, Receive, TimedOut, Disconnected, Goto, procVars
<1>8. ASSUME NEW c \in Calls, Spawn(c) \/ InitAnswered(c) \/ InitFailed(c)
      PROVE  child'[p] = "none"
  <2>1. CASE Spawn(c)
    BY <2>1 DEF Spawn, Goto
  <2>2. CASE InitAnswered(c)
    BY <2>2 DEF InitAnswered, Goto
  <2>3. CASE InitFailed(c)
    BY <2>3 DEF InitFailed, Goto, Die
  <2> QED
    BY <1>8, <2>1, <2>2, <2>3
<1>2. ASSUME NEW c \in Calls, CommitSpawned(c)
      PROVE  child'[p] = "none"
  BY <1>2 DEF CommitSpawned, Goto, Die
<1>3. ASSUME NEW c \in Calls, Ensure(c) \/ CommitFailed(c) \/ Forward(c) \/ BeginWrite(c)
      PROVE  child'[p] = "none"
  <2>1. CASE Ensure(c) \/ Forward(c)
    BY <2>1 DEF Ensure, Forward, Goto, procVars
  <2>2. CASE CommitFailed(c)
    BY <2>2 DEF CommitFailed, Goto, procVars
  <2>3. CASE BeginWrite(c)
    BY <2>3 DEF BeginWrite, Goto
  <2> QED
    BY <1>3, <2>1, <2>2, <2>3
<1>4. ASSUME NEW q \in Calls, ChildAnswers(q) \/ Route(q)
      PROVE  child'[p] = "none"
  BY <1>4 DEF ChildAnswers, Route, callVars
<1>5. ASSUME NEW q \in Calls, ChildExits(q)
      PROVE  child'[p] = "none"
  BY <1>5 DEF ChildExits, Alive, Die, callVars
<1>6. CASE \/ SaveTruncates \/ SaveWrites \/ WatcherWakes \/ ReaperWakes
           \/ (\E t \in Tasks : Release(t)) \/ WatcherReports \/ Tick
  BY <1>6 DEF SaveTruncates, SaveWrites, WatcherWakes, ReaperWakes, Release, WatcherReports,
     Tick, callVars, procVars
<1>7. ASSUME \/ \E t \in Tasks : Swap(t)
             \/ \E s \in KillSlugs : Kill(s)
             \/ Reap \/ Shutdown
      PROVE  child'[p] = "none"
  <2>1. pc' = pc
    BY <1>7 DEF Swap, Kill, Reap, Shutdown, callVars
  <2>2. \A s \in Slugs : status[s] # p
    BY <1>7, <2>1, ConstantsOK DEF EntriesOK, IsRunning, Arriving
  <2>3. child'[p] = child[p]
    BY <1>7, <2>2, ConstantsOK DEF Swap, Kill, Reap, IdleChildren, Shutdown, MapChildren, Die, ConstantsOK
  <2> QED
    BY <2>1, <2>3
<1> HIDE DEF TypeOK
<1> QED
  BY <1>1, <1>2, <1>3, <1>4, <1>5, <1>6, <1>7, <1>8, <1>9 DEF Next, CallStep, CallLocks

(* Nothing starts after shutdown: every call has ended, and only a call    *)
(* that has not can put a child in the map.                                *)
LEMMA AllEndedStep ==
  ASSUME TypeOK, AllEnded, Next
  PROVE  AllEnded'
<1> SUFFICES ASSUME stopped'
             PROVE  /\ \A c \in Calls : pc'[c] \in Ended
                    /\ \A s \in Slugs : status'[s] \notin Calls
  BY DEF AllEnded, IsRunning
<1>1. CASE Shutdown
  <2>1. \A c \in Calls : pc'[c] \in Ended
    BY <1>1 DEF Shutdown, callVars
  <2>2. \A s \in Slugs : status'[s] \in {"absent", "idle"}
    BY <1>1 DEF Shutdown
  <2> QED
    BY <2>1, <2>2, NamesDistinct DEF NamesDistinct, Tags
<1>2. CASE ~Shutdown
  <2>1. stopped
    <3>1. ASSUME NEW c \in Calls, CallStep(c) \/ CallLocks(c)
          PROVE  stopped' = stopped
      BY <3>1 DEF CallStep, Lookup, SpawnAbort, Spawn, ZipFailed, InitFailed, Flush, FlushFailed,
         Register, Receive, TimedOut, Disconnected, CallLocks, Ensure, CommitSpawned, CommitFailed,
         Forward, BeginWrite
    <3>2. ASSUME NEW q \in Calls, ZipTaken(q) \/ InitAnswered(q) \/ ChildAnswers(q) \/ ChildExits(q) \/ Route(q)
          PROVE  stopped' = stopped
      BY <3>2 DEF ZipTaken, InitAnswered, ChildAnswers, ChildExits, Route
    <3>3. ASSUME \/ SaveTruncates \/ SaveWrites \/ WatcherWakes \/ ReaperWakes
                 \/ (\E t \in Tasks : Swap(t) \/ Release(t)) \/ WatcherReports \/ Reap
                 \/ (\E s \in KillSlugs : Kill(s)) \/ Tick
          PROVE  stopped' = stopped
      BY <3>3 DEF SaveTruncates, SaveWrites, WatcherWakes, ReaperWakes, Swap, Release,
         WatcherReports, Reap, Kill, Tick
    <3> QED
      BY <1>2, <3>1, <3>2, <3>3 DEF Next
  <2>2. \A c \in Calls : pc'[c] \in Ended /\ pc[c] \in Ended
    BY <2>1, CallsMoveOn DEF AllEnded
  <2>3. \A s \in Slugs : status'[s] \notin Calls
    <3> SUFFICES ASSUME NEW s \in Slugs, status'[s] \in Calls
                 PROVE  FALSE
      OBVIOUS
    <3>1. status'[s] = status[s] \/ pc[status'[s]] = "commitOk"
      BY EntriesMove
    <3> QED
      BY <2>1, <2>2, <3>1 DEF AllEnded, IsRunning, Ended
  <2> QED
    BY <2>2, <2>3
<1> QED
  BY <1>1, <1>2

(* A listed Orb has an entry: the refresh that lists it makes one, and     *)
(* recycling, kill, shutdown and spawns keep it.                           *)
LEMMA ListedStep ==
  ASSUME TypeOK, ListedHaveStatus, Next
  PROVE  ListedHaveStatus'
<1> SUFFICES ASSUME NEW s \in Slugs, IsListed(listed', s)
             PROVE  status'[s] # "absent"
  BY DEF ListedHaveStatus, IsListed, Entries
<1> USE ConstantsOK, NamesDistinct DEF TypeOK, ListedHaveStatus, ConstantsOK, NamesDistinct, Tags
<1>1. ASSUME NEW t \in Tasks, Swap(t)
      PROVE  status'[s] # "absent"
  <2>1. Entries(snap[t], s) # {} /\ status'[s] = Merged(snap[t], s)
    BY <1>1 DEF Swap, SetOrbs, IsListed
  <2>2. snap[t] \in Seq(Slugs)
    OBVIOUS
  <2>3. IsFiniteSet(Entries(snap[t], s))
    <3>1. Entries(snap[t], s) \in SUBSET (1..Len(snap[t])) /\ Len(snap[t]) \in Nat
      BY <2>2 DEF Entries
    <3>2. IsFiniteSet(1..Len(snap[t]))
      BY <3>1, FS_Interval
    <3> QED
      BY <3>1, <3>2, FS_Subset
  <2>4. Cardinality(Entries(snap[t], s)) # 0
    BY <2>1, <2>3, FS_EmptySet
  <2> QED
    BY <2>1, <2>4 DEF Merged
<1>2. ASSUME listed' = listed, status'[s] = "absent" => status[s] = "absent"
      PROVE  status'[s] # "absent"
  BY <1>2
<1>3. ASSUME NEW c \in Calls, CallStep(c) \/ Ensure(c) \/ Forward(c) \/ BeginWrite(c)
      PROVE  UNCHANGED <<listed, status>>
  BY <1>3 DEF CallStep, Lookup, SpawnAbort, Spawn, ZipFailed, InitFailed, Flush, FlushFailed,
     Register, Receive, TimedOut, Disconnected, Ensure, Forward, BeginWrite, mapVars
<1>4. ASSUME NEW c \in Calls, CommitSpawned(c) \/ CommitFailed(c)
      PROVE  listed' = listed /\ (status'[s] = "absent" => status[s] = "absent")
  BY <1>4 DEF CommitSpawned, CommitFailed
<1>5. ASSUME NEW q \in Calls, ZipTaken(q) \/ InitAnswered(q) \/ ChildAnswers(q) \/ ChildExits(q) \/ Route(q)
      PROVE  UNCHANGED <<listed, status>>
  BY <1>5 DEF ZipTaken, InitAnswered, ChildAnswers, ChildExits, Route, mapVars
<1>6. CASE \/ SaveTruncates \/ SaveWrites \/ WatcherWakes \/ ReaperWakes
           \/ (\E t \in Tasks : Release(t)) \/ WatcherReports \/ Tick
  BY <1>6, <1>2 DEF SaveTruncates, SaveWrites, WatcherWakes, ReaperWakes, Release,
     WatcherReports, Tick, mapVars
<1>7. ASSUME NEW k \in KillSlugs, Kill(k)
      PROVE  listed' = listed /\ (status'[s] = "absent" => status[s] = "absent")
  BY <1>7 DEF Kill
<1>8. CASE Reap \/ Shutdown
  BY <1>8, <1>2 DEF Reap, Shutdown
<1> HIDE DEF TypeOK, ListedHaveStatus, ConstantsOK, NamesDistinct, Tags
<1> QED
  BY <1>1, <1>2, <1>3, <1>4, <1>5, <1>6, <1>7, <1>8 DEF Next, CallLocks

(* Ownership holds initially and is preserved by every step.               *)
LEMMA OwnershipInductive ==
  /\ Init => Ownership
  /\ Ownership /\ [Next]_vars => Ownership'
<1>1. ASSUME Init
      PROVE  Ownership
  <2>1. TypeOK /\ EntriesOK
    BY <1>1, RoutingInductive DEF Routing
  <2>2. Unspawned /\ NoStrayChild /\ AllEnded
    BY <1>1 DEF Init, Unspawned, NoStrayChild, Alive, AllEnded
  <2>3. ListedHaveStatus
    BY <1>1 DEF Init, ListedHaveStatus
  <2> QED
    BY <2>1, <2>2, <2>3 DEF Ownership
<1>2. ASSUME Ownership, Next
      PROVE  Ownership'
  <2> USE <1>2 DEF Ownership
  <2>1. TypeOK' /\ EntriesOK' /\ Unspawned' /\ AllEnded' /\ ListedHaveStatus'
    BY TypeStep, EntriesStep, UnspawnedStep, AllEndedStep, ListedStep
  <2>2. NoStrayChild'
    <3> SUFFICES ASSUME NEW p \in Calls, child'[p] \in {"starting", "up"}
                 PROVE  pc'[p] \in {"zip", "init", "commitOk"} \/ status'[slug'[p]] = p
      BY DEF NoStrayChild, Alive
    <3>1. slug' = slug
      BY CallsMoveOn
    <3>2. Alive(p) /\ pc[p] \notin {"zip", "init", "commitOk"} => status[slug[p]] = p
      BY DEF NoStrayChild
    <3> QED
      BY <3>1, <3>2, ChildrenMove
  <2> QED
    BY <2>1, <2>2
<1>3. ASSUME Ownership, UNCHANGED vars
      PROVE  Ownership'
  BY <1>3 DEF Ownership, TypeOK, EntriesOK, IsRunning, Unspawned, NoStrayChild, Alive, AllEnded,
     ListedHaveStatus, vars, registryVars, mapVars, callVars, taskVars, procVars
<1> QED
  BY <1>1, <1>2, <1>3

(* No child lives outside the manager: the loser of a double spawn         *)
(* (ensure_orb), the child of an Orb a refresh drops, and recycled ones    *)
(* are dead, however spawns, refreshes and the reaper overlap.             *)
THEOREM NoChildStrays == Spec => []NoStrayChild
<1>1. Ownership => NoStrayChild
  BY DEF Ownership
<1> QED
  BY OwnershipInductive, <1>1, PTL DEF Spec

(* Every listed Orb has an entry in the process map (refresh_registry      *)
(* changes both under both locks).                                         *)
THEOREM ListedOrbsKnown == Spec => []ListedHaveStatus
<1>1. Ownership => ListedHaveStatus
  BY DEF Ownership
<1> QED
  BY OwnershipInductive, <1>1, PTL DEF Spec

(* shutdown() leaves no child alive: those it does not find in the map     *)
(* would have to be held by a call that is still running.                  *)
THEOREM ShutdownComplete == Spec => []NoChildAfterShutdown
<1>1. Ownership => NoChildAfterShutdown
  <2> SUFFICES ASSUME Ownership, stopped, NEW p \in Calls, Alive(p)
               PROVE  FALSE
    BY DEF NoChildAfterShutdown
  <2>1. pc[p] \in Ended /\ slug[p] \in Slugs /\ status[slug[p]] # p
    BY DEF Ownership, AllEnded, IsRunning, TypeOK
  <2> QED
    BY <2>1 DEF Ownership, NoStrayChild, Ended
<1> QED
  BY OwnershipInductive, <1>1, PTL DEF Spec
-----------------------------------------------------------------------------
(* Writing a request resets the child's age and starts the wait at zero;   *)
(* time then passes for both.                                              *)
LEMMA FreshStep ==
  ASSUME Routing, WaitersFresh, Next
  PROVE  WaitersFresh'
<1> USE ConstantsOK DEF Routing, TypeOK, WaitersFresh, ConstantsOK
<1>1. ASSUME UNCHANGED <<age, waited, target>>,
             \A c \in Calls : /\ pc'[c] = "waiting" <=> pc[c] = "waiting"
                              /\ mail'[c] = None => mail[c] = None
      PROVE  WaitersFresh'
  BY <1>1
<1>2. ASSUME NEW c \in Calls, \/ Lookup(c) \/ SpawnAbort(c) \/ Spawn(c) \/ InitFailed(c)
                              \/ Flush(c) \/ FlushFailed(c) \/ ZipTaken(c) \/ ZipFailed(c)
      PROVE  WaitersFresh'
  <2>1. /\ UNCHANGED <<age, waited, target, mail>>
        /\ \A d \in Calls : pc'[d] = "waiting" <=> pc[d] = "waiting"
    <3>1. CASE Lookup(c) \/ SpawnAbort(c)
      BY <3>1 DEF Lookup, SpawnAbort, Goto, procVars
    <3>2. CASE Spawn(c) \/ InitFailed(c)
      BY <3>2 DEF Spawn, InitFailed, Goto
    <3>3. CASE Flush(c) \/ FlushFailed(c)
      BY <3>3 DEF Flush, FlushFailed, Goto, procVars
    <3>4. CASE ZipTaken(c) \/ ZipFailed(c)
      BY <3>4 DEF ZipTaken, ZipFailed, Goto, procVars
    <3> QED
      BY <1>2, <3>1, <3>2, <3>3, <3>4
  <2> QED
    BY <1>1, <2>1
<1>3. ASSUME NEW c \in Calls, \/ Ensure(c) \/ CommitSpawned(c) \/ CommitFailed(c) \/ Forward(c)
      PROVE  WaitersFresh'
  <2>1. /\ UNCHANGED <<age, waited, target, mail>>
        /\ \A d \in Calls : pc'[d] = "waiting" <=> pc[d] = "waiting"
    <3>1. CASE Ensure(c) \/ Forward(c)
      BY <3>1 DEF Ensure, Forward, Goto, procVars
    <3>2. CASE CommitSpawned(c)
      BY <3>2 DEF CommitSpawned, Goto
    <3>3. CASE CommitFailed(c)
      BY <3>3 DEF CommitFailed, Goto, procVars
    <3> QED
      BY <1>3, <3>1, <3>2, <3>3
  <2> QED
    BY <1>1, <2>1
<1>4. ASSUME NEW c \in Calls, BeginWrite(c)
      PROVE  WaitersFresh'
  <2>1. /\ UNCHANGED <<age, waited, mail>>
        /\ \A d \in Calls : pc'[d] = "waiting" <=> pc[d] = "waiting"
        /\ \A d \in Calls : pc[d] = "waiting" => target'[d] = target[d]
    BY <1>4 DEF BeginWrite, Goto
  <2> QED
    BY <2>1
<1>5. ASSUME NEW c \in Calls, InitAnswered(c)
      PROVE  WaitersFresh'
  <2>1. /\ UNCHANGED <<waited, mail, target>>
        /\ \A d \in Calls : pc'[d] = "waiting" <=> pc[d] = "waiting"
        /\ \A p \in Calls : age'[p] \in {0, age[p]}
    BY <1>5 DEF InitAnswered, Goto
  <2>2. \A d \in Calls : pc[d] = "waiting" => target[d] \in Calls
    BY DEF TargetOK
  <2>3. \A d \in Calls : age[d] \in Nat /\ waited[d] \in Nat
    OBVIOUS
  <2> HIDE DEF TypeOK
  <2> QED
    BY <2>1, <2>2, <2>3
<1>6. ASSUME NEW c \in Calls, Register(c)
      PROVE  WaitersFresh'
  <2>1. /\ UNCHANGED <<waited, mail, target>>
        /\ pc[c] = "flushed" /\ pc' = [pc EXCEPT ![c] = "waiting"]
        /\ age' = [age EXCEPT ![target[c]] = 0]
    BY <1>6 DEF Register, Touch, Goto
  <2>2. target[c] \in Calls
    BY <2>1 DEF TargetOK
  <2>3. \A p \in Calls : age'[p] <= age[p]
    BY <2>1
  <2>4. \A d \in Calls : pc[d] = "waiting" => target[d] \in Calls
    BY DEF TargetOK
  <2>5. waited[c] = 0 /\ age'[target[c]] = 0
    BY <2>1, <2>2
  <2>6. /\ \A d \in Calls : waited[d] \in Nat
        /\ \A d \in Calls : age[d] \in Nat /\ age'[d] \in Nat
    BY <2>1
  <2>7. \A d \in Calls : pc'[d] # "waiting" => waited'[d] = 0
    BY <2>1
  <2>8. ASSUME NEW d \in Calls, pc'[d] = "waiting", mail'[d] = None
        PROVE  age'[target'[d]] <= waited'[d]
    <3>1. CASE d = c
      BY <2>1, <2>5, <3>1
    <3>2. CASE d # c
      <4>1. pc[d] = "waiting" /\ mail[d] = None
        BY <2>1, <2>8, <3>2
      <4>2. age[target[d]] <= waited[d] /\ target[d] \in Calls
        BY <2>4, <4>1
      <4>3. age'[target[d]] <= age[target[d]]
        BY <2>3, <4>2
      <4> HIDE DEF TypeOK
      <4> QED
        BY <2>1, <2>6, <4>2, <4>3
    <3> QED
      BY <3>1, <3>2
  <2> HIDE DEF TypeOK
  <2> QED
    BY <2>7, <2>8
<1>7. ASSUME NEW c \in Calls, Receive(c) \/ TimedOut(c) \/ Disconnected(c)
      PROVE  WaitersFresh'
  <2>1. /\ UNCHANGED <<age, mail, target>>
        /\ pc'[c] # "waiting" /\ waited' = [waited EXCEPT ![c] = 0]
        /\ \A d \in Calls : d # c => pc'[d] = pc[d]
    BY <1>7 DEF Receive, TimedOut, Disconnected, Goto, procVars
  <2> QED
    BY <2>1
<1>8. ASSUME NEW p \in Calls, ChildAnswers(p) \/ ChildExits(p)
      PROVE  WaitersFresh'
  BY <1>8, <1>1 DEF ChildAnswers, ChildExits, callVars
<1>9. ASSUME NEW p \in Calls, Route(p)
      PROVE  WaitersFresh'
  <2>1. UNCHANGED <<age, waited, target, pc>>
    BY <1>9 DEF Route
  <2>2. PICK line \in stdout[p], W \in SUBSET Calls :
          mail' = [c \in Calls |-> IF pc[c] = "waiting" /\ c \in W THEN line.call ELSE mail[c]]
    <3>1. PICK line \in stdout[p] :
            mail' = [c \in Calls |->
                      IF pc[c] = "waiting" /\ \E w \in {l \in pending[p] : l.id = line.id} : w.call = c
                        THEN line.call ELSE mail[c]]
      BY <1>9 DEF Route
    <3> DEFINE W == {c \in Calls : \E w \in {l \in pending[p] : l.id = line.id} : w.call = c}
    <3>2. mail' = [c \in Calls |-> IF pc[c] = "waiting" /\ c \in W THEN line.call ELSE mail[c]]
      BY <3>1
    <3> QED
      BY <3>2
  <2>3. line.call \in Calls
    BY <2>2 DEF Lines
  <2>4. \A c \in Calls : mail'[c] = None => mail[c] = None
    BY <2>2, <2>3, NamesDistinct DEF NamesDistinct
  <2> QED
    BY <1>1, <2>1, <2>4
<1>10. CASE \/ SaveTruncates \/ SaveWrites \/ WatcherWakes \/ ReaperWakes \/ WatcherReports
            \/ Reap \/ Shutdown
  BY <1>10, <1>1 DEF SaveTruncates, SaveWrites, WatcherWakes, ReaperWakes, WatcherReports, Reap,
     Shutdown, callVars, procVars
<1>11. ASSUME NEW t \in Tasks, Swap(t) \/ Release(t)
       PROVE  WaitersFresh'
  BY <1>11, <1>1 DEF Swap, Release, callVars, procVars
<1>12. ASSUME NEW s \in KillSlugs, Kill(s)
       PROVE  WaitersFresh'
  BY <1>12, <1>1 DEF Kill, callVars
<1>13. CASE Tick
  <2>1. /\ UNCHANGED <<pc, mail, target>>
        /\ \A c \in Calls : pc[c] # "waiting" => waited'[c] = waited[c]
        /\ \A c \in Calls : pc[c] = "waiting" /\ mail[c] = None => waited'[c] = waited[c] + 1
    BY <1>13 DEF Tick
  <2>2. \A p \in Calls : age'[p] <= age[p] + 1
    BY <1>13 DEF Tick
  <2>3. \A c \in Calls : pc[c] = "waiting" => target[c] \in Calls
    BY DEF TargetOK
  <2>4. /\ \A p \in Calls : age[p] \in Nat /\ age'[p] \in Int
        /\ \A c \in Calls : waited[c] \in Nat
    BY <1>13 DEF Tick
  <2> HIDE DEF TypeOK
  <2> QED
    BY <2>1, <2>2, <2>3, <2>4
<1> HIDE DEF Routing, TypeOK, WaitersFresh, ConstantsOK
<1> QED
  BY <1>2, <1>3, <1>4, <1>5, <1>6, <1>7, <1>8, <1>9, <1>10, <1>11, <1>12, <1>13
     DEF Next, CallStep, CallLocks

(* start_reaper never kills a child that still owes a call its answer, as  *)
(* long as the idle timeout is not shorter than the request timeout: the   *)
(* call gives up before its child counts as idle.                          *)
THEOREM ReaperSpares ==
  ASSUME RequestTimeout <= IdleTimeout
  PROVE  Spec => ReaperSparesWaiting
<1> DEFINE Inv == Routing /\ WaitersFresh
<1>1. Init => Inv
  BY RoutingInductive DEF Init, WaitersFresh
<1>2. Inv /\ [Next]_vars => Inv'
  <2>1. ASSUME Inv, UNCHANGED vars
        PROVE  WaitersFresh'
    BY <2>1 DEF WaitersFresh, vars, callVars, procVars
  <2> QED
    BY <2>1, RoutingInductive, FreshStep
<1>3. Inv => (Reap => \A c \in Calls :
        pc[c] = "waiting" /\ mail[c] = None /\ child[target[c]] = "up" => child'[target[c]] = "up")
  <2> SUFFICES ASSUME Inv, Reap, NEW c \in Calls, pc[c] = "waiting", mail[c] = None,
                      child[target[c]] = "up"
               PROVE  child'[target[c]] = "up"
    OBVIOUS
  <2>1. target[c] \in Calls
    BY DEF Routing, TargetOK
  <2>2. age[target[c]] <= waited[c]
    BY DEF WaitersFresh
  <2>3. waited[c] \in 0..RequestTimeout /\ age[target[c]] \in Nat
    BY <2>1, ConstantsOK DEF Routing, TypeOK, ConstantsOK
  <2>4. target[c] \notin IdleChildren
    BY <2>2, <2>3, ConstantsOK DEF IdleChildren, ConstantsOK
  <2> QED
    BY <2>1, <2>4 DEF Reap, Die
<1> QED
  BY <1>1, <1>2, <1>3, PTL DEF Spec, ReaperSparesWaiting

(* refresh_registry carries over the child of every Orb that stays in the  *)
(* list exactly once.                                                      *)
THEOREM RefreshKeeps == Spec => RefreshKeepsRunning
<1>1. ASSUME TypeOK, NEW t \in Tasks, Swap(t), NEW s \in Slugs, IsRunning(s),
             Cardinality(Entries(listed', s)) = 1
      PROVE  status'[s] = status[s]
  <2>1. status[s] # "absent"
    BY <1>1, NamesDistinct DEF IsRunning, NamesDistinct, Tags
  <2>2. status'[s] = Merged(listed', s)
    BY <1>1 DEF Swap, SetOrbs, Merged, IsRunning
  <2> QED
    BY <1>1, <2>1, <2>2 DEF Merged
<1>2. TypeOK => (\A t \in Tasks : Swap(t) => \A s \in Slugs :
         IsRunning(s) /\ Cardinality(Entries(listed', s)) = 1 => status'[s] = status[s])
  BY <1>1
<1> QED
  BY <1>2, TypeCorrect, PTL DEF RefreshKeepsRunning
-----------------------------------------------------------------------------
(* How a call's move looks to OrbPool, when it is not an answer.           *)
LEMMA MoveMapped ==
  ASSUME TypeOK, NEW c \in Calls, NEW x, pc' = [pc EXCEPT ![c] = x], pc[c] \notin Ended,
         x # "answered", UNCHANGED <<mail, slug>>
  PROVE  /\ Stage' = [Stage EXCEPT ![c] = StageAt(x)]
         /\ Stage[c] = StageAt(pc[c])
         /\ UNCHANGED <<Reply, slug>>
<1>1. pc \in [Calls -> CallPCs]
  BY DEF TypeOK
<1>2. \A d \in Calls : pc'[d] = IF d = c THEN x ELSE pc[d]
  BY <1>1
<1>3. Stage' = [Stage EXCEPT ![c] = StageAt(x)] /\ Stage[c] = StageAt(pc[c])
  <2>1. \A d \in Calls : StageAt(pc[d])' = IF d = c THEN StageAt(x) ELSE StageAt(pc[d])
    BY <1>2 DEF StageAt, Arriving
  <2> QED
    BY <2>1 DEF Stage
<1>4. Reply' = Reply
  BY <1>2 DEF Reply, Ended
<1> QED
  BY <1>3, <1>4

(* A move within a stage that keeps the serving children is a stutter.     *)
LEMMA StutterMapped ==
  ASSUME TypeOK, NEW c \in Calls, NEW x, pc' = [pc EXCEPT ![c] = x], pc[c] \notin Ended,
         x # "answered", UNCHANGED <<mail, slug, Serving>>, StageAt(x) = StageAt(pc[c])
  PROVE  UNCHANGED Pool!vars
<1>1. Stage' = [Stage EXCEPT ![c] = Stage[c]] /\ UNCHANGED <<Reply, slug>>
  BY MoveMapped
<1> QED
  BY <1>1 DEF Pool!vars, Stage

(* A move to "refused" or "panicked" that keeps them is a refusal.         *)
LEMMA RefuseMapped ==
  ASSUME TypeOK, NEW c \in Calls, NEW x \in {"refused", "panicked"}, pc' = [pc EXCEPT ![c] = x],
         pc[c] \notin Ended, UNCHANGED <<mail, slug, Serving>>
  PROVE  Pool!Refuse(c)
<1>1. StageAt(x) = "refused"
  BY DEF StageAt, Arriving
<1>2. StageAt(pc[c]) \in {"arriving", "admitted"}
  BY DEF StageAt, Ended
<1>3. Stage' = [Stage EXCEPT ![c] = StageAt(x)] /\ Stage[c] = StageAt(pc[c]) /\ UNCHANGED <<Reply, slug>>
  BY MoveMapped
<1> QED
  BY <1>1, <1>2, <1>3 DEF Pool!Refuse

(* ensure_orb and its fast path admit a call: its Orb has a child, or the  *)
(* call commits its own.                                                   *)
LEMMA AdmitMapped ==
  ASSUME TypeOK, NEW c \in Calls, pc' = [pc EXCEPT ![c] = "forward"], pc[c] \in Arriving,
         UNCHANGED <<mail, slug>>,
         \/ IsRunning(slug[c]) /\ UNCHANGED status
         \/ ~IsRunning(slug[c]) /\ status' = [status EXCEPT ![slug[c]] = c]
  PROVE  Pool!Admit(c)
<1>1. StageAt("forward") = "admitted" /\ StageAt(pc[c]) = "arriving" /\ pc[c] \notin Ended
  BY DEF StageAt, Arriving, Ended
<1>2. /\ Stage' = [Stage EXCEPT ![c] = "admitted"] /\ Stage[c] = "arriving"
      /\ UNCHANGED <<Reply, slug>>
  <2>1. "forward" # "answered"
    OBVIOUS
  <2>2. /\ Stage' = [Stage EXCEPT ![c] = StageAt("forward")] /\ Stage[c] = StageAt(pc[c])
        /\ UNCHANGED <<Reply, slug>>
    BY <1>1, <2>1, MoveMapped
  <2> QED
    BY <1>1, <2>2
<1>3. slug[c] \in Slugs
  BY DEF TypeOK
<1>4. CASE IsRunning(slug[c]) /\ UNCHANGED status
  <2>1. Serving[slug[c]] # None
    BY <1>3, <1>4, NamesDistinct DEF Serving, IsRunning, NamesDistinct
  <2>2. UNCHANGED Serving
    BY <1>4 DEF Serving, IsRunning
  <2> QED
    BY <1>2, <2>1, <2>2 DEF Pool!Admit
<1>5. CASE ~IsRunning(slug[c]) /\ status' = [status EXCEPT ![slug[c]] = c]
  <2>1. Serving[slug[c]] = None
    BY <1>3, <1>5 DEF Serving
  <2>2. Serving' = [Serving EXCEPT ![slug[c]] = c]
    BY <1>3, <1>5 DEF Serving, IsRunning, TypeOK
  <2> QED
    BY <1>2, <2>1, <2>2 DEF Pool!Admit
<1> QED
  BY <1>4, <1>5

(* A step that takes entries away, and moves no call, stops their Orbs.    *)
LEMMA StopMapped ==
  ASSUME UNCHANGED <<pc, mail, slug>>,
         \A s \in Slugs : status'[s] = status[s] \/ status'[s] \notin Calls
  PROVE  \E K \in SUBSET Slugs : Pool!Stop(K)
<1> DEFINE K == {s \in Slugs : status'[s] \notin Calls}
<1>1. Serving' = [s \in Slugs |-> IF s \in K THEN None ELSE Serving[s]]
  BY DEF Serving, IsRunning
<1>2. UNCHANGED <<slug, Stage, Reply>>
  BY DEF Stage, Reply
<1>3. Pool!Stop(K) /\ K \in SUBSET Slugs
  <2> HIDE DEF K
  <2>1. K \in SUBSET Slugs
    BY DEF K
  <2> QED
    BY <1>1, <1>2, <2>1 DEF Pool!Stop
<1> QED
  BY <1>3

(* Every step of the gateway is a step of OrbPool, or none.                *)
LEMMA StepMapped ==
  ASSUME Routing, Next
  PROVE  Pool!Next \/ UNCHANGED Pool!vars
<1> USE DEF Routing
<1>1. ASSUME NEW c \in Calls, \/ Spawn(c) \/ ZipTaken(c) \/ ZipFailed(c) \/ InitAnswered(c)
                              \/ InitFailed(c) \/ Flush(c) \/ Register(c)
      PROVE  UNCHANGED Pool!vars
  <2>1. PICK x \in CallPCs : /\ pc' = [pc EXCEPT ![c] = x] /\ x # "answered" /\ pc[c] \notin Ended
                             /\ StageAt(x) = StageAt(pc[c])
                             /\ UNCHANGED <<mail, slug, status>>
    BY <1>1 DEF Spawn, ZipTaken, ZipFailed, InitAnswered, InitFailed, Flush, Register, Goto, CallPCs, Ended, StageAt,
       Arriving, mapVars
  <2>2. UNCHANGED Serving
    BY <2>1 DEF Serving, IsRunning
  <2> QED
    BY <2>1, <2>2, StutterMapped
<1>2. ASSUME NEW c \in Calls, SpawnAbort(c) \/ FlushFailed(c) \/ TimedOut(c) \/ Disconnected(c)
      PROVE  Pool!Refuse(c)
  <2>1. PICK x \in {"refused", "panicked"} : /\ pc' = [pc EXCEPT ![c] = x] /\ pc[c] \notin Ended
                                             /\ UNCHANGED <<mail, slug, status>>
    BY <1>2 DEF SpawnAbort, FlushFailed, TimedOut, Disconnected, Goto, Ended, mapVars
  <2>2. UNCHANGED Serving
    BY <2>1 DEF Serving, IsRunning
  <2> QED
    BY <2>1, <2>2, RefuseMapped
<1>3. ASSUME NEW c \in Calls, Lookup(c) \/ Forward(c) \/ BeginWrite(c)
      PROVE  Pool!Refuse(c) \/ UNCHANGED Pool!vars
  <2>1. PICK x \in CallPCs : /\ pc' = [pc EXCEPT ![c] = x] /\ x # "answered" /\ pc[c] \notin Ended
                             /\ x \in {"refused", "panicked"} \/ StageAt(x) = StageAt(pc[c])
                             /\ UNCHANGED <<mail, slug, status>>
    BY <1>3 DEF Lookup, Forward, BeginWrite, Goto, CallPCs, Ended, StageAt, Arriving, mapVars
  <2>2. UNCHANGED Serving
    BY <2>1 DEF Serving, IsRunning
  <2>3. CASE x \in {"refused", "panicked"}
    BY <2>1, <2>2, <2>3, RefuseMapped
  <2>4. CASE StageAt(x) = StageAt(pc[c])
    BY <2>1, <2>2, <2>4, StutterMapped
  <2> QED
    BY <2>1, <2>3, <2>4
<1>4. ASSUME NEW c \in Calls, Ensure(c)
      PROVE  Pool!Admit(c) \/ Pool!Refuse(c) \/ UNCHANGED Pool!vars
  <2>1. pc[c] = "ensure" /\ pc[c] \in Arriving /\ pc[c] \notin Ended /\ UNCHANGED <<mail, slug, status>>
    BY <1>4 DEF Ensure, Arriving, Ended, mapVars
  <2>2. UNCHANGED Serving
    BY <2>1 DEF Serving, IsRunning
  <2>3. CASE IsRunning(slug[c])
    <3>1. pc' = [pc EXCEPT ![c] = "forward"]
      BY <1>4, <2>3, NamesDistinct DEF Ensure, Goto, IsRunning, NamesDistinct, Tags
    <3> QED
      BY <2>1, <2>3, <3>1, AdmitMapped
  <2>4. CASE ~IsRunning(slug[c]) /\ status[slug[c]] = "absent"
    BY <1>4, <2>1, <2>2, <2>4, RefuseMapped DEF Ensure, Goto
  <2>5. CASE ~IsRunning(slug[c]) /\ status[slug[c]] # "absent"
    <3>1. pc' = [pc EXCEPT ![c] = "spawn"]
      BY <1>4, <2>5 DEF Ensure, Goto
    <3>2. StageAt("spawn") = StageAt(pc[c])
      BY <2>1 DEF StageAt, Arriving
    <3> QED
      BY <2>1, <2>2, <3>1, <3>2, StutterMapped
  <2> QED
    BY <2>3, <2>4, <2>5
<1>5. ASSUME NEW c \in Calls, CommitSpawned(c)
      PROVE  Pool!Admit(c)
  BY <1>5, AdmitMapped DEF CommitSpawned, Overtaken, Goto, Arriving
<1>6. ASSUME NEW c \in Calls, CommitFailed(c)
      PROVE  Pool!Admit(c) \/ Pool!Refuse(c)
  <2>1. pc[c] = "commitErr" /\ pc[c] \in Arriving /\ pc[c] \notin Ended /\ UNCHANGED <<mail, slug>>
    BY <1>6 DEF CommitFailed, Arriving, Ended
  <2>2. CASE IsRunning(slug[c])
    BY <1>6, <2>1, <2>2, AdmitMapped DEF CommitFailed, Goto
  <2>3. CASE ~IsRunning(slug[c])
    <3>1. pc' = [pc EXCEPT ![c] = "refused"] /\ status' = [status EXCEPT ![slug[c]] = "failed"]
      BY <1>6, <2>3 DEF CommitFailed, Goto
    <3>2. UNCHANGED Serving
      BY <2>3, <3>1, NamesDistinct DEF Serving, IsRunning, TypeOK, NamesDistinct, Tags
    <3> QED
      BY <2>1, <3>1, <3>2, RefuseMapped
  <2> QED
    BY <2>2, <2>3
<1>7. ASSUME NEW c \in Calls, Receive(c)
      PROVE  Pool!Answer(c)
  <2>1. /\ pc[c] = "waiting" /\ mail[c] = c /\ pc' = [pc EXCEPT ![c] = "answered"]
        /\ UNCHANGED <<mail, slug, status>>
    BY <1>7 DEF Receive, Goto, MailOK, mapVars
  <2>2. Stage[c] = "admitted" /\ Stage' = [Stage EXCEPT ![c] = "answered"]
    <3>1. StageAt("waiting") = "admitted" /\ StageAt("answered") = "answered"
      BY DEF StageAt, Arriving
    <3>2. \A d \in Calls : StageAt(pc[d])' = IF d = c THEN "answered" ELSE StageAt(pc[d])
      BY <2>1, <3>1 DEF StageAt, Arriving, TypeOK
    <3> QED
      BY <2>1, <3>1, <3>2 DEF Stage
  <2>3. Reply' = [Reply EXCEPT ![c] = c]
    <3>1. \A d \in Calls : pc'[d] = IF d = c THEN "answered" ELSE pc[d]
      BY <2>1 DEF TypeOK
    <3> QED
      BY <2>1, <3>1 DEF Reply
  <2>4. UNCHANGED <<slug, Serving>>
    BY <2>1 DEF Serving, IsRunning
  <2> QED
    BY <2>2, <2>3, <2>4 DEF Pool!Answer
<1>8. ASSUME NEW p \in Calls, ChildAnswers(p) \/ ChildExits(p) \/ Route(p)
      PROVE  UNCHANGED Pool!vars
  <2>1. /\ UNCHANGED <<pc, slug, status>>
        /\ \A c \in Calls : pc[c] = "answered" => mail'[c] = mail[c]
    BY <1>8 DEF ChildAnswers, ChildExits, Route, callVars, mapVars
  <2> QED
    BY <2>1 DEF Pool!vars, Serving, Stage, Reply, IsRunning, StageAt, Arriving
<1>9. ASSUME \/ SaveTruncates \/ SaveWrites \/ WatcherWakes \/ ReaperWakes
             \/ (\E t \in Tasks : Release(t)) \/ WatcherReports \/ Tick
      PROVE  UNCHANGED Pool!vars
  <2>1. UNCHANGED <<pc, slug, status, mail>>
    BY <1>9 DEF SaveTruncates, SaveWrites, WatcherWakes, ReaperWakes, Release, WatcherReports,
       Tick, callVars, mapVars
  <2> QED
    BY <2>1 DEF Pool!vars, Serving, Stage, Reply, IsRunning, StageAt, Arriving
<1>10. ASSUME \/ \E t \in Tasks : Swap(t)
              \/ \E s \in KillSlugs : Kill(s)
              \/ Reap \/ Shutdown
       PROVE  \E K \in SUBSET Slugs : Pool!Stop(K)
  <2>1. UNCHANGED <<pc, mail, slug>>
    BY <1>10 DEF Swap, Kill, Reap, Shutdown, callVars
  <2>2. \A s \in Slugs : status'[s] \in Calls => status'[s] = status[s]
    <3> SUFFICES ASSUME NEW s \in Slugs, status'[s] \in Calls
                 PROVE  status'[s] = status[s]
      OBVIOUS
    <3>1. \/ status'[s] = status[s]
          \/ pc[status'[s]] \in Arriving /\ pc'[status'[s]] \notin Arriving
      BY EntriesMove DEF Arriving
    <3> QED
      BY <2>1, <3>1
  <2> QED
    BY <2>1, <2>2, StopMapped
<1> HIDE DEF Routing
<1> QED
  BY <1>1, <1>2, <1>3, <1>4, <1>5, <1>6, <1>7, <1>8, <1>9, <1>10
     DEF Next, CallStep, CallLocks, Pool!Next

(* The gateway implements OrbPool: at most one child serves an Orb and it  *)
(* is never replaced while it serves; a call is admitted only when its Orb *)
(* has a serving child, and ends refused or with its own answer.           *)
THEOREM GatewayImplementsPool == Spec => ImplementsPool
<1>1. Init => Pool!Init
  <2> SUFFICES ASSUME Init PROVE Pool!Init
    OBVIOUS
  <2>1. \A s \in Slugs : ~IsRunning(s)
    BY RoutingInductive, NamesDistinct DEF Init, IsRunning, NamesDistinct, Tags
  <2>2. Serving = [s \in Slugs |-> None]
    BY <2>1 DEF Serving
  <2>3. Stage = [c \in Calls |-> "arriving"] /\ Reply = [c \in Calls |-> None]
    BY DEF Init, Stage, StageAt, Arriving, Reply
  <2> QED
    BY <2>2, <2>3 DEF Init, Pool!Init
<1>2. Routing /\ [Next]_vars => [Pool!Next]_Pool!vars
  <2>1. ASSUME UNCHANGED vars
        PROVE  UNCHANGED Pool!vars
    BY <2>1 DEF vars, callVars, mapVars, Pool!vars, Serving, Stage, Reply, IsRunning, StageAt, Arriving
  <2> QED
    BY <2>1, StepMapped
<1> QED
  BY RoutingInductive, <1>1, <1>2, PTL DEF Spec, ImplementsPool, Pool!Spec
=============================================================================
