----------------------------- MODULE RunnerProofs -----------------------------
(***************************************************************************)
(* Proofs about the desktop app (Runner), for any Orbs, folders, ports,    *)
(* commands in flight, faults and worlds. Values keep to their kinds       *)
(* (Typed); the lock is kept by the commands that keep it, and what is     *)
(* stored is torn or has its fields (Inv); commands of an area that have   *)
(* not overlapped are alone in it (Alone). On these rest what becomes of   *)
(* the processes (ServersKept), of the gateway's token (OwnedFits,         *)
(* TokensDrawn, OneServes) and of the ZIPs (LibraryKept).                  *)
(***************************************************************************)
EXTENDS Runner, FiniteSetTheorems, TLAPS
LOCAL Facts == INSTANCE SequenceFacts

-----------------------------------------------------------------------------
(* Types. What each field may hold, and what a command's locals hold at    *)
(* the steps that read them.                                               *)
OrbOps == {"import", "remove", "start", "stop", "metrics"}
EnsureOps == {"ensure", "reset", "save"}
LibraryOps == {"import", "remove", "migrate", "delete"}

RegLabels == {"upsert", "unlink", "drop", "move", "copying", "unlinkold", "rollback", "rewrite", "erase", "retain"}
MoveLabels == {"move", "copying", "unlinkold", "rollback", "rewrite", "erase"}
CopyLabels == {"copying", "unlinkold"}
PortLabels == {"reuse", "spawn", "poll", "insert"}
PidLabels == {"poll", "insert"}

LocalsOf(t) ==
  /\ DOMAIN loc[t] = DOMAIN NoLocals
  /\ loc[t].base \in Nat /\ loc[t].token \in Nat /\ loc[t].binding \in Bindings
  /\ loc[t].pid \in Pids \cup {None} /\ loc[t].olds \subseteq Dirs
  /\ pc[t] \in RegLabels => loc[t].reg \in Entries /\ Op(t) \in LibraryOps
  /\ pc[t] \in MoveLabels => loc[t].todo \subseteq DOMAIN loc[t].reg /\ loc[t].moved \subseteq DOMAIN loc[t].reg
  /\ pc[t] \in CopyLabels => loc[t].orb \in loc[t].todo
  /\ Op(t) = "import" /\ pc[t] \in {"filling", "load", "upsert"} => loc[t].dir \in Dirs
  /\ Op(t) \in ApplyOps /\ pc[t] # "start" => loc[t].dir \in Folders
  /\ Op(t) \in EnsureOps /\ pc[t] \in PortLabels => loc[t].port \in Ports
  /\ pc[t] \in PidLabels => loc[t].pid \in Pids /\ Op(t) \in EnsureOps \cup {"start"}
  /\ Op(t) \in ApplyOps /\ pc[t] \in {"resolve", "targets"} => loc[t].moved = {}
  /\ pc[t] \in {"idle", "start"} => loc[t] = NoLocals
  /\ loc[t].seen \in Settings /\ (pc[t] = "renewed" => loc[t].dir \in Folders)
  /\ cmd[t] = None => pc[t] = "idle"

TasksTyped ==
  /\ waiting \subseteq Commands
  /\ cmd \in [Tasks -> Commands \cup {None}] /\ DOMAIN pc = Tasks /\ DOMAIN loc = Tasks
  /\ \A t \in Tasks : LocalsOf(t)

Typed == TypeOK /\ TasksTyped
(* What every command has, by its name.                                    *)
LEMMA CommandIs ==
  ASSUME NEW c \in Commands
  PROVE  /\ c.op \in OrbOps => c.orb \in Orbs
         /\ c.op = "import" => c.from \in Dirs \cup {None} /\ c.valid \in BOOLEAN
         /\ c.op = "batch" => c.orbs \in Seq(Orbs)
         /\ c.op = "pick" => c.folder \in Folders
         /\ c.op = "save" => c.form \in Forms
         /\ c.op # "none" /\ c # None
BY CommandsUnlike DEF Commands, OrbOps

(* A nonempty set of ports has a first one.                                *)
LEMMA FirstIn == ASSUME NEW S \in SUBSET Ports, S # {} PROVE First(S) \in S
BY Facts!Least, RunnerConstants DEF RunnerConstants, First

LEMMA BasePortIs == BasePort \in Ports
<1>1. \E p \in Ports : \A q \in Ports : p <= q
  <2>1. Ports \subseteq Nat /\ Ports # {}
    BY RunnerConstants DEF RunnerConstants
  <2> QED
    BY <2>1, Facts!Least
<1> QED
  BY <1>1 DEF BasePort

(* The default settings, and what is laid over settings, are settings.     *)
LEMMA DefaultTyped == DefaultSettings \in Settings
BY BasePortIs, RunnerConstants DEF DefaultSettings, Settings, Bindings

LEMMA OverlaysTyped ==
  ASSUME NEW s \in Settings
  PROVE  /\ \A form \in Forms : MergeSettings(s, form) \in Settings
         /\ \A folder \in Folders : WithLibrary(s, folder) \in Settings
BY DEF Settings, Forms, MergeSettings, WithLibrary

(* A command of task t takes a step: the other commands are as before, and *)
(* this one has returned or is still the same.                             *)
Returned(t) == cmd'[t] = None /\ pc'[t] = "idle" /\ loc'[t] = NoLocals

Framed(t) ==
  /\ UNCHANGED waiting /\ clash \subseteq clash'
  /\ DOMAIN cmd' = Tasks /\ DOMAIN pc' = Tasks /\ DOMAIN loc' = Tasks
  /\ \A u \in Tasks \ {t} : cmd'[u] = cmd[u] /\ pc'[u] = pc[u] /\ loc'[u] = loc[u]
  /\ cmd'[t] = cmd[t] \/ Returned(t)
  /\ cmd' \in [Tasks -> Commands \cup {None}]

LEMMA GotoIs ==
  ASSUME TasksTyped, NEW t \in Tasks, NEW label, NEW marks, GotoMarked(t, label, marks)
  PROVE  /\ cmd'[t] = cmd[t] /\ pc'[t] = label
         /\ DOMAIN loc' = Tasks /\ (\A u \in Tasks \ {t} : loc'[u] = loc[u]) => Framed(t)
BY DEF TasksTyped, GotoMarked, Framed

LEMMA EndIs ==
  ASSUME TasksTyped, NEW t \in Tasks, NEW marks, EndMarked(t, marks)
  PROVE  Framed(t) /\ Returned(t)
BY DEF TasksTyped, EndMarked, Framed, Returned

LEMMA LocalNames ==
  NoLocals.moved = {} /\ DOMAIN NoLocals = {"reg", "todo", "moved", "olds", "dir", "orb", "port", "base", "token", "binding", "pid", "seen"}
BY DEF NoLocals
LEMMA LibraryFrame == ASSUME TasksTyped, NEW t \in Tasks, LibraryStep(t) PROVE Framed(t)
<1>0. DOMAIN loc = Tasks
  BY DEF TasksTyped
<1> USE <1>0, GotoIs, EndIs DEF Goto, End, Abort
<1>1. CASE ImportCheck(t)
  BY <1>1 DEF ImportCheck
<1>2. CASE ImportOpen(t)
  BY <1>2 DEF ImportOpen
<1>3. CASE ImportFilled(t)
  BY <1>3 DEF ImportFilled
<1>4. CASE ImportLoad(t)
  BY <1>4 DEF ImportLoad, Load
<1>5. CASE ImportSave(t)
  BY <1>5 DEF ImportSave
<1>6. CASE RemoveLoad(t)
  BY <1>6 DEF RemoveLoad, Load
<1>7. CASE RemoveUnlink(t)
  BY <1>7 DEF RemoveUnlink
<1>8. CASE RemoveSave(t)
  BY <1>8 DEF RemoveSave
<1>9. CASE PickDecide(t)
  BY <1>9 DEF PickDecide
<1>10. CASE PickAdopt(t)
  BY <1>10 DEF PickAdopt
<1>11. CASE CancelChange(t)
  BY <1>11 DEF CancelChange
<1>12. CASE ApplyBegin(t)
  BY <1>12 DEF ApplyBegin
<1>13. CASE ApplyResolve(t)
  BY <1>13 DEF ApplyResolve
<1>14. CASE ApplyTargets(t)
  BY <1>14 DEF ApplyTargets
<1>15. CASE MoveOne(t)
  BY <1>15 DEF MoveOne, Moved, MoveFails
<1>16. CASE MoveCopied(t)
  BY <1>16 DEF MoveCopied, MoveFails
<1>17. CASE MoveUnlink(t)
  BY <1>17 DEF MoveUnlink, Moved, MoveFails
<1>18. CASE Rollback(t)
  BY <1>18 DEF Rollback, Framed, TasksTyped
<1>19. CASE MigrateSave(t)
  BY <1>19 DEF MigrateSave, Saved
<1>20. CASE EraseOne(t)
  BY <1>20 DEF EraseOne
<1>21. CASE EraseSave(t)
  BY <1>21 DEF EraseSave, Saved
<1>22. CASE Adopt(t)
  BY <1>22 DEF Adopt
<1> QED
  BY <1>1, <1>2, <1>3, <1>4, <1>5, <1>6, <1>7, <1>8, <1>9, <1>10, <1>11, <1>12, <1>13, <1>14,
     <1>15, <1>16, <1>17, <1>18, <1>19, <1>20, <1>21, <1>22
  DEF LibraryStep

LEMMA ServerFrame == ASSUME TasksTyped, NEW t \in Tasks, ServerStep(t, Installed) PROVE Framed(t)
<1>0. DOMAIN loc = Tasks
  BY DEF TasksTyped
<1> USE <1>0, GotoIs, EndIs DEF Goto, End
<1>1. CASE StartLookup(t, Installed)
  BY <1>1 DEF StartLookup
<1>2. CASE StartSettings(t)
  BY <1>2 DEF StartSettings
<1>3. CASE StartSpawn(t)
  BY <1>3 DEF StartSpawn, Spawned
<1>4. CASE StartInsert(t)
  BY <1>4 DEF StartInsert
<1>5. CASE StartList(t)
  BY <1>5 DEF StartList
<1>6. CASE Unlist(t)
  BY <1>6 DEF Unlist
<1>7. CASE StopChild(t)
  BY <1>7 DEF StopChild
<1>8. CASE BatchSettings(t)
  BY <1>8 DEF BatchSettings
<1>9. CASE BatchLock(t) \/ BatchLaunch(t, Installed)
  BY <1>9 DEF BatchLock, BatchLaunch
<1>10. CASE EnsureEnter(t)
  BY <1>10 DEF EnsureEnter
<1>11. CASE EnsureLoad(t)
  BY <1>11 DEF EnsureLoad
<1>12. CASE EnsureProbe(t)
  BY <1>12 DEF EnsureProbe
<1>13. CASE EnsureReuse(t)
  BY <1>13 DEF EnsureReuse
<1>14. CASE EnsureChoose(t)
  BY <1>14 DEF EnsureChoose
<1>15. CASE EnsureSpawn(t)
  BY <1>15 DEF EnsureSpawn, Spawned
<1>16. CASE EnsurePoll(t)
  BY <1>16 DEF EnsurePoll
<1>17. CASE EnsureInsert(t)
  BY <1>17 DEF EnsureInsert
<1>18. CASE StatusLoad(t)
  BY <1>18 DEF StatusLoad
<1>19. CASE StatusReap(t)
  BY <1>19 DEF StatusReap
<1>20. CASE StopGateway(t)
  BY <1>20 DEF StopGateway, Stopped
<1>21. CASE StopAdopted(t)
  BY <1>21 DEF StopAdopted, Stopped
<1>22. CASE ResetToken(t)
  BY <1>22 DEF ResetToken
<1>23. CASE SaveForm(t)
  BY <1>23 DEF SaveForm
<1> QED
  BY <1>1, <1>2, <1>3, <1>4, <1>5, <1>6, <1>7, <1>8, <1>9, <1>10, <1>11, <1>12, <1>13, <1>14, <1>15, <1>16, <1>17, <1>18, <1>19, <1>20, <1>21, <1>22, <1>23
  DEF ServerStep

(* A command that has returned has no locals.                              *)
LEMMA ReturnedTyped == ASSUME NEW t \in Tasks, Returned(t) PROVE LocalsOf(t)'
<1>1. cmd'[t] = None /\ pc'[t] = "idle" /\ loc'[t] = NoLocals /\ Op(t)' = "none"
  BY DEF Returned, Op
<1>2. Op(t)' \notin ApplyOps /\ Op(t)' \notin EnsureOps /\ Op(t)' # "import"
  BY <1>1 DEF ApplyOps, EnsureOps
<1>3. /\ pc'[t] \notin RegLabels /\ pc'[t] \notin MoveLabels
      /\ pc'[t] \notin CopyLabels /\ pc'[t] \notin PidLabels
  BY <1>1 DEF RegLabels, MoveLabels, CopyLabels, PidLabels
<1>4. /\ NoLocals.base \in Nat /\ NoLocals.token \in Nat /\ NoLocals.binding \in Bindings
      /\ NoLocals.pid = None /\ NoLocals.olds = {} /\ NoLocals.seen \in Settings
  BY DefaultTyped DEF NoLocals, Bindings
<1> HIDE DEF Returned
<1> QED
  BY <1>1, <1>2, <1>3, <1>4 DEF LocalsOf

LEMMA LibraryTyped == ASSUME Typed, NEW t \in Tasks, LibraryStep(t) PROVE LocalsOf(t)'
<1> DEFINE c == cmd[t]
<1>0. /\ LocalsOf(t) /\ (c # None => c \in Commands) /\ (cmd'[t] = c => Op(t)' = Op(t)) /\ LocalsOf(t)
  BY DEF Typed, TasksTyped, Op
<1>m. MoveUnlink(t) => Moved(t, loc[t].orb) \/ MoveFails(t)
  BY DEF MoveUnlink
<1> USE <1>0, LocalNames, GotoIs, EndIs, ReturnedTyped DEF Typed, Goto, End, Abort, At, Applying, ApplyOps, RegLabels,
      MoveLabels, CopyLabels, PidLabels, LibraryOps, PortLabels, EnsureOps, LocalsOf, TypeOK, TasksTyped
<1>1. CASE ImportCheck(t)
  BY <1>1 DEF ImportCheck
<1>2. CASE ImportOpen(t)
  BY <1>2 DEF ImportOpen
<1>3. CASE ImportFilled(t)
  BY <1>3 DEF ImportFilled
<1>4. CASE ImportLoad(t)
  <2>1. CASE Returned(t)
    BY <2>1
  <2>2. CASE Load(t, "upsert")
    BY <1>4, <2>2 DEF ImportLoad, Load
  <2> QED
    BY <1>4, <2>1, <2>2 DEF ImportLoad
<1>5. CASE ImportSave(t)
  BY <1>5 DEF ImportSave
<1>6. CASE RemoveLoad(t)
  <2>1. CASE Returned(t)
    BY <2>1
  <2>2. CASE Load(t, "unlink")
    BY <1>6, <2>2 DEF RemoveLoad, Load
  <2> QED
    BY <1>6, <2>1, <2>2 DEF RemoveLoad
<1>7. CASE RemoveUnlink(t)
  BY <1>7 DEF RemoveUnlink
<1>8. CASE RemoveSave(t)
  BY <1>8 DEF RemoveSave
<1>9. CASE PickDecide(t)
  BY <1>9 DEF PickDecide
<1>10. CASE PickAdopt(t)
  BY <1>10 DEF PickAdopt
<1>11. CASE CancelChange(t)
  BY <1>11 DEF CancelChange
<1>12. CASE ApplyBegin(t)
  <2>1. CASE Returned(t)
    BY <2>1
  <2>2. CASE pending # None /\ loc' = [loc EXCEPT ![t].dir = pending] /\ Goto(t, "resolve")
    BY <1>12, <2>2 DEF ApplyBegin
  <2> QED
    BY <1>12, <2>1, <2>2 DEF ApplyBegin
<1>13. CASE ApplyResolve(t)
  <2>1. CASE Returned(t)
    BY <2>1
  <2>2. ASSUME NEW olds \in SUBSET Dirs, loc' = [loc EXCEPT ![t].olds = olds], Goto(t, "targets")
        PROVE  LocalsOf(t)'
    <3>1. cmd[t] # None /\ Applying(t, "resolve")
      BY <1>13 DEF ApplyResolve, Op
    <3> QED
      BY <2>2, <3>1
  <2>3. settings # Torn => {Legacy, settings.mark} \ {None} \in SUBSET Dirs
    BY DEF Settings, Dirs
  <2>4. {Legacy} \in SUBSET Dirs
    BY DEF Dirs
  <2>5. CASE End(t)
    BY <2>1, <2>5
  <2>6. CASE settings # Torn /\ loc' = [loc EXCEPT ![t].olds = {Legacy, settings.mark} \ {None}] /\ Goto(t, "targets")
    BY <2>2, <2>3, <2>6
  <2>7. CASE loc' = [loc EXCEPT ![t].olds = {Legacy}] /\ Goto(t, "targets")
    BY <2>2, <2>4, <2>7
  <2> HIDE DEF Goto, End, LocalsOf, Typed
  <2> QED
    BY <1>13, <2>5, <2>6, <2>7 DEF ApplyResolve
<1>14. CASE ApplyTargets(t)
  <2>1. CASE Returned(t)
    BY <2>1
  <2>2. ASSUME NEW todo \in SUBSET DOMAIN registry, registry \in Entries, Goto(t, FirstLabel(t, todo)),
               loc' = [loc EXCEPT ![t].reg = registry, ![t].todo = todo]
        PROVE  LocalsOf(t)'
    <3>1. cmd[t] # None /\ Applying(t, "targets")
      BY <1>14 DEF ApplyTargets, Op
    <3>2. FirstLabel(t, todo) \in {"rewrite", "move", "retain", "erase"}
      BY DEF FirstLabel
    <3> DEFINE label == FirstLabel(t, todo)
    <3>3. cmd'[t] = cmd[t] /\ pc'[t] = label
      BY <2>2
    <3> HIDE DEF label
    <3> QED
      BY <2>2, <3>1, <3>2, <3>3 DEF label
  <2>3. Targets(t, registry) \in SUBSET DOMAIN registry
    BY DEF Targets, StoredUnder
  <2> QED
    BY <1>14, <2>1, <2>2, <2>3 DEF ApplyTargets
<1>15. CASE MoveOne(t)
  <2>0. Applying(t, "move") /\ cmd[t] # None
    BY <1>15 DEF MoveOne, Op
  <2>1. CASE MoveFails(t)
    BY <2>0, <2>1 DEF MoveFails
  <2>2. ASSUME NEW o \in loc[t].todo, Moved(t, o) PROVE LocalsOf(t)'
    BY <2>0, <2>2 DEF Moved
  <2>3. ASSUME NEW o \in loc[t].todo, loc' = [loc EXCEPT ![t].orb = o], Goto(t, "copying") PROVE LocalsOf(t)'
    BY <2>0, <2>3
  <2> QED
    BY <1>15, <2>1, <2>2, <2>3 DEF MoveOne
<1>16. CASE MoveCopied(t)
  BY <1>16 DEF MoveCopied, MoveFails
<1>17. CASE MoveUnlink(t)
  <2>1. CASE Moved(t, loc[t].orb)
    BY <1>17, <2>1 DEF MoveUnlink, Moved
  <2>2. CASE MoveFails(t)
    BY <1>17, <2>2 DEF MoveUnlink, MoveFails
  <2> HIDE DEF LocalsOf
  <2> QED
    BY ONLY <1>m, <1>17, <2>1, <2>2
<1>18. CASE Rollback(t)
  <2>1. CASE End(t)
    BY <2>1
  <2>2. ASSUME NEW o, loc' = [loc EXCEPT ![t].moved = @ \ {o}], pc' = pc, cmd' = cmd PROVE LocalsOf(t)'
    <3>1. Applying(t, "rollback") /\ cmd[t] # None
      BY <1>18 DEF Rollback, Op
    <3> QED
      BY <2>2, <3>1
  <2> HIDE DEF Goto, End, LocalsOf, Typed
  <2> QED
    BY <1>18, <2>1, <2>2 DEF Rollback, Abort
<1>19. CASE MigrateSave(t)
  BY <1>19 DEF MigrateSave, Saved
<1>20. CASE EraseOne(t)
  <2>1. CASE End(t)
    BY <2>1
  <2>2. ASSUME NEW o, loc' = [loc EXCEPT ![t].todo = @ \ {o}], Goto(t, "retain") \/ Goto(t, "erase")
        PROVE  LocalsOf(t)'
    <3>1. Applying(t, "erase") /\ cmd[t] # None
      BY <1>20 DEF EraseOne, Op
    <3>2. CASE Goto(t, "retain")
      BY <2>2, <3>1, <3>2
    <3>3. CASE Goto(t, "erase")
      BY <2>2, <3>1, <3>3
    <3> QED
      BY <2>2, <3>2, <3>3
  <2> HIDE DEF Goto, End, LocalsOf, Typed
  <2> QED
    BY <1>20, <2>1, <2>2 DEF EraseOne, Abort
<1>21. CASE EraseSave(t)
  BY <1>21 DEF EraseSave, Saved
<1>22. CASE Adopt(t)
  BY <1>22 DEF Adopt
<1> QED
  BY <1>1, <1>2, <1>3, <1>4, <1>5, <1>6, <1>7, <1>8, <1>9, <1>10, <1>11, <1>12, <1>13, <1>14,
     <1>15, <1>16, <1>17, <1>18, <1>19, <1>20, <1>21, <1>22, Zenon
  DEF LibraryStep

LEMMA FreshIs == ASSUME Unused # {} PROVE Fresh \in Pids /\ Fresh \in Unused
BY DEF Fresh, Unused

LEMMA FirstOfIs ==
  ASSUME NEW base, NEW S \in SUBSET Candidates(base), S # {}
  PROVE  First(S) \in Ports /\ First(S) \in S
<1>1. S \in SUBSET Ports
  BY DEF Candidates
<1>2. First(S) \in S
  BY <1>1, FirstIn
<1> QED
  BY <1>1, <1>2

LEMMA ServerTyped == ASSUME Typed, NEW t \in Tasks, ServerStep(t, Installed) PROVE LocalsOf(t)'
<1> DEFINE c == cmd[t]
<1>0. /\ LocalsOf(t) /\ (c # None => c \in Commands) /\ (cmd'[t] = c => Op(t)' = Op(t)) /\ LocalsOf(t)
  BY DEF Typed, TasksTyped, Op
<1> USE <1>0, LocalNames, GotoIs, EndIs, ReturnedTyped, RunnerConstants DEF Typed, Goto, End, At, ApplyOps, RegLabels,
      MoveLabels, CopyLabels, PidLabels, LibraryOps, PortLabels, EnsureOps, LocalsOf, TypeOK, TasksTyped, conf, RunnerConstants
<1>1. CASE StartLookup(t, Installed)
  BY <1>1 DEF StartLookup
<1>2. CASE StartSettings(t)
  BY <1>2 DEF StartSettings, Settings
<1>3. CASE StartSpawn(t)
  <2>1. CASE Returned(t)
    BY <2>1
  <2>2. CASE At(t, "start", "spawn") /\ Goto(t, "insert") /\ Fresh \in Pids /\ loc' = [loc EXCEPT ![t].pid = Fresh]
    BY <2>2
  <2> QED
    BY <1>3, <2>1, <2>2, FreshIs DEF StartSpawn, Spawned
<1>4. CASE StartInsert(t)
  BY <1>4 DEF StartInsert
<1>5. CASE StartList(t)
  BY <1>5 DEF StartList
<1>6. CASE Unlist(t)
  BY <1>6 DEF Unlist
<1>7. CASE StopChild(t)
  BY <1>7 DEF StopChild
<1>8. CASE BatchSettings(t)
  <2>1. CASE Returned(t)
    BY <2>1
  <2>2. ASSUME NEW base \in Nat, NEW binding \in Bindings, At(t, "batch", "start"), Goto(t, "launch"),
               loc' = [loc EXCEPT ![t].base = base, ![t].binding = binding]
        PROVE  LocalsOf(t)'
    BY <2>2
  <2>3. settings # Torn => settings.port \in Nat /\ settings.binding \in Bindings
    BY DEF Settings
  <2>4. CASE End(t)
    BY <2>1, <2>4
  <2>5. CASE /\ settings # Torn /\ At(t, "batch", "start") /\ Goto(t, "launch")
             /\ loc' = [loc EXCEPT ![t].base = settings.port, ![t].binding = settings.binding]
    BY <2>2, <2>3, <2>5
  <2> HIDE DEF Goto, End, LocalsOf, Typed, At
  <2> QED
    BY <1>8, <2>4, <2>5 DEF BatchSettings
<1>9. CASE BatchLock(t) \/ BatchLaunch(t, Installed)
  BY <1>9 DEF BatchLock, BatchLaunch
<1>10. CASE EnsureEnter(t)
  <2>0. (At(t, "ensure", "start") \/ Ensuring(t, "ensure")) /\ cmd[t] # None /\ UNCHANGED loc
    BY <1>10 DEF EnsureEnter, Ensuring, Op
  <2>1. CASE Goto(t, "status")
    BY <2>0, <2>1 DEF Ensuring
  <2>2. CASE Goto(t, "load")
    BY <2>0, <2>2 DEF Ensuring
  <2> HIDE DEF Goto, LocalsOf, Typed
  <2> QED
    BY <1>10, <2>1, <2>2 DEF EnsureEnter
<1>11. CASE EnsureLoad(t)
  <2>0. Ensuring(t, "load") /\ cmd[t] # None
    BY <1>11 DEF EnsureLoad, Ensuring, Op
  <2>1. CASE End(t)
    BY <2>1
  <2>2. ASSUME NEW port \in Nat, NEW token \in Nat, NEW binding \in Bindings, Goto(t, "probe"),
               loc' = [loc EXCEPT ![t].base = port, ![t].token = token, ![t].binding = binding]
        PROVE  LocalsOf(t)'
    BY <2>0, <2>2 DEF Ensuring
  <2>3. drawn \in Nat
    OBVIOUS
  <2>4. settings # Torn => settings.port \in Nat /\ settings.token \in Nat /\ settings.binding \in Bindings
    BY DEF Settings
  <2> DEFINE token == IF settings.token = 0 THEN drawn + 1 ELSE settings.token
  <2>5. settings # Torn => token \in Nat
    BY <2>3, <2>4
  <2> HIDE DEF token
  <2>6. CASE /\ settings # Torn /\ Goto(t, "probe")
             /\ loc' = [loc EXCEPT ![t].base = settings.port, ![t].token = token, ![t].binding = settings.binding]
    BY <2>2, <2>4, <2>5, <2>6
  <2> HIDE DEF Goto, End, LocalsOf, Typed
  <2> QED
    BY <1>11, <2>1, <2>6 DEF EnsureLoad, token
<1>12. CASE EnsureProbe(t)
  <2>0. Ensuring(t, "probe") /\ cmd[t] # None
    BY <1>12 DEF EnsureProbe, Ensuring, Op
  <2>1. CASE Goto(t, "choose") /\ UNCHANGED loc
    BY <2>0, <2>1 DEF Ensuring
  <2>2. CASE GotoMarked(t, "choose", {"slow"}) /\ UNCHANGED loc
    BY <2>0, <2>2 DEF Ensuring
  <2>3. ASSUME NEW port \in Ports, loc' = [loc EXCEPT ![t].port = port], Goto(t, "reuse") PROVE LocalsOf(t)'
    BY <2>0, <2>3 DEF Ensuring
  <2>4. {p \in Candidates(loc[t].base) : Accepts(p, loc[t].token)} \in SUBSET Candidates(loc[t].base)
    OBVIOUS
  <2> QED
    BY <1>12, <2>1, <2>2, <2>3, <2>4, FirstOfIs DEF EnsureProbe
<1>13. CASE EnsureReuse(t)
  BY <1>13 DEF EnsureReuse, Ensuring
<1>14. CASE EnsureChoose(t)
  <2>0. Ensuring(t, "choose") /\ cmd[t] # None
    BY <1>14 DEF EnsureChoose, Ensuring, Op
  <2>1. CASE Returned(t)
    BY <2>1
  <2>2. ASSUME NEW port \in Ports, loc' = [loc EXCEPT ![t].port = port], Goto(t, "spawn") PROVE LocalsOf(t)'
    BY <2>0, <2>2 DEF Ensuring
  <2>3. {p \in Candidates(loc[t].base) : ~Listening(p)} \in SUBSET Candidates(loc[t].base)
    OBVIOUS
  <2> QED
    BY <1>14, <2>1, <2>2, <2>3, FirstOfIs DEF EnsureChoose
<1>15. CASE EnsureSpawn(t)
  <2>0. Ensuring(t, "spawn") /\ cmd[t] # None
    BY <1>15 DEF EnsureSpawn, Ensuring, Op
  <2>1. CASE Returned(t)
    BY <2>1
  <2>2. CASE Goto(t, "poll") /\ Fresh \in Pids /\ loc' = [loc EXCEPT ![t].pid = Fresh]
    BY <2>0, <2>2 DEF Ensuring
  <2> QED
    BY <1>15, <2>1, <2>2, FreshIs DEF EnsureSpawn, Spawned
<1>16. CASE EnsurePoll(t)
  BY <1>16 DEF EnsurePoll, Ensuring
<1>17. CASE EnsureInsert(t)
  BY <1>17 DEF EnsureInsert, Ensuring
<1>18. CASE StatusLoad(t)
  BY <1>18 DEF StatusLoad, Ensuring
<1>19. CASE StatusReap(t)
  BY <1>19 DEF StatusReap
<1>20. CASE StopGateway(t)
  BY <1>20 DEF StopGateway, Stopped, Stopping
<1>21. CASE StopAdopted(t)
  BY <1>21 DEF StopAdopted, Stopped, Stopping
<1>22. CASE ResetToken(t)
  BY <1>22 DEF ResetToken
<1>23. CASE SaveForm(t)
  BY <1>23 DEF SaveForm
<1> QED
  BY <1>1, <1>2, <1>3, <1>4, <1>5, <1>6, <1>7, <1>8, <1>9, <1>10, <1>11, <1>12, <1>13, <1>14, <1>15, <1>16, <1>17, <1>18, <1>19, <1>20, <1>21, <1>22, <1>23, Zenon
  DEF ServerStep
-----------------------------------------------------------------------------
(* What the operators on ZIPs and on entries make is of their type.        *)
Shelves == [Dirs -> [Orbs -> Contents]]

LEMMA PutTyped ==
  ASSUME zips \in Shelves, NEW d, NEW o, NEW content \in Contents
  PROVE  Put(d, o, content) \in Shelves
BY DEF Put, Shelves

LEMMA SettleTyped ==
  ASSUME zips \in Shelves, NEW o, NEW content \in Contents
  PROVE  Settle(o, content) \in Shelves
BY DEF Settle, Shelves

LEMMA RenameTyped ==
  ASSUME zips \in Shelves, NEW o \in Orbs, NEW d \in Dirs, NEW e
  PROVE  Rename(o, d, e) \in Shelves
<1>1. zips[d][o] \in Contents /\ "absent" \in Contents
  BY DEF Shelves, Contents
<1> QED
  BY <1>1 DEF Rename, Shelves

LEMMA EntryIs ==
  ASSUME NEW reg \in Entries
  PROVE  DOMAIN reg \subseteq Orbs /\ \A o \in DOMAIN reg : reg[o] \in Dirs
BY DEF Entries

LEMMA EntriesHave ==
  ASSUME NEW S \in SUBSET Orbs, NEW reg \in [S -> Dirs]
  PROVE  reg \in Entries
BY DEF Entries

LEMMA UpsertTyped ==
  ASSUME NEW reg \in Entries, NEW o \in Orbs, NEW d \in Dirs
  PROVE  Upsert(reg, o, d) \in Entries
<1>1. Upsert(reg, o, d) \in [DOMAIN reg \cup {o} -> Dirs] /\ DOMAIN reg \cup {o} \in SUBSET Orbs
  BY EntryIs DEF Upsert
<1> QED
  BY <1>1, EntriesHave

LEMMA RestrictTyped ==
  ASSUME NEW reg \in Entries, NEW S
  PROVE  Restrict(reg, DOMAIN reg \ S) \in Entries
<1>1. Restrict(reg, DOMAIN reg \ S) \in [DOMAIN reg \ S -> Dirs] /\ DOMAIN reg \ S \in SUBSET Orbs
  BY EntryIs DEF Restrict
<1> QED
  BY <1>1, EntriesHave

LEMMA RewrittenTyped ==
  ASSUME NEW t \in Tasks, loc[t].reg \in Entries, loc[t].dir \in Dirs
  PROVE  Rewritten(t) \in Entries
<1>1. Rewritten(t) \in [DOMAIN loc[t].reg -> Dirs] /\ DOMAIN loc[t].reg \in SUBSET Orbs
  BY EntryIs DEF Rewritten
<1> QED
  BY <1>1, EntriesHave

LEMMA LibraryTypes ==
  ASSUME Typed, NEW t \in Tasks, LibraryStep(t), UNCHANGED servers
  PROVE  TypeOK'
<1> DEFINE c == cmd[t]
<1>0. /\ LocalsOf(t) /\ (c # None => c \in Commands) /\ zips \in Shelves
      /\ (registry # Torn => registry \in Entries) /\ (settings # Torn => settings \in Settings)
      /\ \A content : content \in {"filling", "absent", "torn", "whole"} => content \in Contents
      /\ \A d \in Folders : d \in Dirs
  BY DEF Typed, TasksTyped, TypeOK, Shelves, Contents, Dirs
<1>f. Fault \/ UNCHANGED faults => faults' \in 0..MaxFaults
  BY RunnerConstants DEF Fault, RunnerConstants, Typed, TypeOK
<1>s. /\ children' \in [Keys -> Pids \cup {None}] /\ listed' \subseteq Orbs /\ proc' \in [Pids -> Procs]
  BY DEF servers, Typed, TypeOK
<1> SUFFICES /\ settings' \in Settings \cup {Torn} /\ settingsLock' \in Tasks \cup {None}
             /\ registry' = Torn \/ registry' \in Entries
             /\ zips' \in Shelves
             /\ orbsDir' \in Dirs /\ pending' \in Folders \cup {None} /\ spoiled' \subseteq Orbs
             /\ drawn' \in Nat /\ (Fault \/ UNCHANGED faults)
  BY <1>f, <1>s DEF TypeOK, Shelves
<1> USE <1>0, CommandIs DEF Typed, TypeOK, conf, library, disk, At, Op, Applying, ApplyOps, OrbOps, Unlock, Abort
<1>1. CASE ImportCheck(t)
  BY <1>1 DEF ImportCheck
<1>2. CASE ImportOpen(t)
  BY <1>2, PutTyped DEF ImportOpen
<1>3. CASE ImportFilled(t)
  BY <1>3, SettleTyped DEF ImportFilled, Filled
<1>4. CASE ImportLoad(t)
  BY <1>4 DEF ImportLoad
<1>5. CASE ImportSave(t)
  BY <1>5, UpsertTyped DEF ImportSave, Save, SaveRegistryFails, LocalsOf, RegLabels
<1>6. CASE RemoveLoad(t)
  BY <1>6 DEF RemoveLoad
<1>7. CASE RemoveUnlink(t)
  BY <1>7, PutTyped DEF RemoveUnlink, Unlinked
<1>8. CASE RemoveSave(t)
  <2>1. loc[t].reg \in Entries
    BY <1>8 DEF RemoveSave, LocalsOf, RegLabels
  <2>2. Restrict(loc[t].reg, DOMAIN loc[t].reg \ {cmd[t].orb}) \in Entries
    BY <2>1, RestrictTyped
  <2> QED
    <3>1. registry' = Torn \/ registry' \in Entries
      BY <1>8, <2>2 DEF RemoveSave, Save, SaveRegistryFails
    <3> QED
      BY <1>8, <3>1 DEF RemoveSave, Save, SaveRegistryFails
<1>9. CASE PickDecide(t)
  BY <1>9 DEF PickDecide
<1>10. CASE PickAdopt(t)
  BY <1>10, OverlaysTyped DEF PickAdopt, SaveSettings, SaveFails, LocalsOf
<1>11. CASE CancelChange(t)
  BY <1>11 DEF CancelChange
<1>12. CASE ApplyBegin(t)
  BY <1>12 DEF ApplyBegin
<1>13. CASE ApplyResolve(t)
  BY <1>13 DEF ApplyResolve
<1>14. CASE ApplyTargets(t)
  BY <1>14 DEF ApplyTargets
<1>15. CASE MoveOne(t)
  <2>0. Applying(t, "move") /\ loc[t].dir \in Dirs
    BY <1>15 DEF MoveOne, LocalsOf
  <2>1. ASSUME NEW o \in loc[t].todo
        PROVE  /\ Rename(o, From(t, o), loc[t].dir) \in Shelves /\ CopyBegun(o, From(t, o), loc[t].dir) \in Shelves
               /\ Put(loc[t].dir, o, "absent") \in Shelves
               /\ LeftThere(o, From(t, o), loc[t].dir) \subseteq Shelves
    BY <2>0, EntryIs, PutTyped, RenameTyped DEF LeftThere, CopyBegun, From, LocalsOf, RegLabels, MoveLabels
  <2> QED
    BY <1>15, <2>1 DEF MoveOne
<1>16. CASE MoveCopied(t)
  BY <1>16, PutTyped DEF MoveCopied
<1>17. CASE MoveUnlink(t)
  BY <1>17, PutTyped DEF MoveUnlink
<1>18. CASE Rollback(t)
  <2>0. Applying(t, "rollback") /\ loc[t].dir \in Dirs
    BY <1>18 DEF Rollback, LocalsOf
  <2>1. ASSUME NEW o \in loc[t].moved PROVE Rename(o, loc[t].dir, From(t, o)) \in Shelves
    BY <2>0, EntryIs, RenameTyped DEF From, LocalsOf, RegLabels, MoveLabels
  <2> QED
    BY <1>18, <2>1 DEF Rollback
<1>19. CASE MigrateSave(t)
  BY <1>19, RewrittenTyped DEF MigrateSave, Saved, Save, SaveRegistryFails, LocalsOf, RegLabels
<1>20. CASE EraseOne(t)
  <2>0. Applying(t, "erase") /\ loc[t].todo \subseteq Orbs
    BY <1>20, EntryIs DEF EraseOne, LocalsOf, RegLabels, MoveLabels
  <2> QED
    BY <1>20, <2>0, PutTyped DEF EraseOne, Unlinked
<1>21. CASE EraseSave(t)
  <2>1. loc[t].reg \in Entries
    BY <1>21 DEF EraseSave, LocalsOf, RegLabels
  <2>2. Restrict(loc[t].reg, DOMAIN loc[t].reg \ StoredUnder(loc[t].reg, loc[t].olds)) \in Entries
    BY <2>1, RestrictTyped
  <2> QED
    <3>1. registry' = Torn \/ registry' \in Entries
      BY <1>21, <2>2 DEF EraseSave, Saved, Save, SaveRegistryFails
    <3> QED
      BY <1>21, <3>1 DEF EraseSave, Saved, Save, SaveRegistryFails
<1>22. CASE Adopt(t)
  BY <1>22, OverlaysTyped DEF Adopt, SaveSettings, SaveFails, LocalsOf
<1> QED
  BY <1>1, <1>2, <1>3, <1>4, <1>5, <1>6, <1>7, <1>8, <1>9, <1>10, <1>11, <1>12, <1>13, <1>14,
     <1>15, <1>16, <1>17, <1>18, <1>19, <1>20, <1>21, <1>22
  DEF LibraryStep

(* What the operators on processes make is of their type.                  *)
Tables == [Pids -> Procs]

LEMMA StateTyped ==
  ASSUME NEW q \in Procs, NEW st \in {"starting", "up", "dying", "dead"}
  PROVE  [q EXCEPT !.st = st] \in Procs /\ [q EXCEPT !.here = FALSE, !.st = st] \in Procs
BY DEF Procs

LEMMA ProcessTyped ==
  ASSUME NEW key \in Keys, NEW port \in Ports, NEW token \in Nat, NEW binding \in Bindings
  PROVE  Process(key, port, token, binding) \in Procs
BY DEF Process, Procs

LEMMA MarkedTyped ==
  ASSUME proc \in Tables, NEW pids, NEW st \in {"starting", "up", "dying", "dead"}
  PROVE  [p \in Pids |-> IF p \in pids THEN [proc[p] EXCEPT !.st = st] ELSE proc[p]] \in Tables
<1>1. ASSUME NEW p \in Pids PROVE proc[p] \in Procs /\ [proc[p] EXCEPT !.st = st] \in Procs
  <2>1. proc[p] \in Procs
    BY DEF Tables
  <2> QED
    BY <2>1, StateTyped, Zenon
<1> QED
  BY <1>1 DEF Tables

LEMMA KilledTyped == ASSUME proc \in Tables, NEW pids PROVE Killed(pids) \in Tables
BY MarkedTyped DEF Killed

(* So are the processes that a Runner which is gone leaves behind.         *)
LEMMA LeftTyped ==
  ASSUME proc \in Tables, NEW killed
  PROVE  Left(killed) \in Tables
<1>1. ASSUME NEW p \in Pids PROVE Left(killed)[p] \in Procs
  <2> DEFINE q == proc[p]
             st == IF p \in killed THEN "dead"
                   ELSE IF q.st # "starting" THEN q.st
                   ELSE IF Listening(q.port) \/ p # FirstOn(q.port, Pids \ killed) THEN "dead" ELSE "up"
  <2>1. q \in Procs
    BY DEF Tables
  <2>2. Left(killed)[p] = [q EXCEPT !.here = FALSE, !.st = st]
    BY <2>1 DEF Left, Procs
  <2> HIDE DEF q
  <2>3. q.st \in {"starting", "up", "dying", "dead"}
    BY <2>1 DEF Procs
  <2>4. st \in {"starting", "up", "dying", "dead"}
    BY <2>3
  <2> HIDE DEF st
  <2>5. [q EXCEPT !.here = FALSE, !.st = st] \in Procs
    BY <2>1, <2>4, StateTyped, Zenon
  <2> QED
    BY <2>2, <2>5
<1>2. Left(killed) = [p \in Pids |-> Left(killed)[p]]
  BY DEF Left
<1> QED
  BY <1>1, <1>2 DEF Tables

(* As many children as there are new Orbs can be told apart.               *)
LEMMA PidsDiffer ==
  ASSUME NEW new \in SUBSET Orbs, Cardinality(new) <= Cardinality(Unused)
  PROVE  \E f \in [new -> Unused] : IsInjective(f)
<1>1. IsFiniteSet(new) /\ IsFiniteSet(Unused)
  <2>1. IsFiniteSet(Orbs) /\ IsFiniteSet(Pids) /\ Unused \in SUBSET Pids
    <3>1. Unused \subseteq Pids
      BY DEF Unused
    <3> QED
      BY <3>1, RunnerConstants, ServerConstants DEF RunnerConstants, ServerConstants
  <2> QED
    BY <2>1, FS_Subset
<1>2. PICK m \in Nat : m = Cardinality(new) /\ ExistsBijection(1 .. m, new)
  BY <1>1, FS_CardinalityType
<1>3. PICK n \in Nat : n = Cardinality(Unused) /\ ExistsBijection(1 .. n, Unused)
  BY <1>1, FS_CardinalityType
<1>4. PICK f \in Bijection(1 .. m, new) : TRUE
  BY <1>2 DEF ExistsBijection
<1>5. PICK g \in Bijection(1 .. n, Unused) : TRUE
  BY <1>3 DEF ExistsBijection
<1> DEFINE place(o) == CHOOSE i \in 1 .. m : f[i] = o
           h == [o \in new |-> g[place(o)]]
<1>6. \A o \in new : place(o) \in 1 .. m /\ f[place(o)] = o
  BY <1>4 DEF Bijection, Surjection
<1>7. 1 .. m \subseteq 1 .. n
  BY <1>2, <1>3
<1> HIDE DEF place
<1>8. h \in [new -> Unused]
  BY <1>5, <1>6, <1>7 DEF Bijection, Injection
<1>9. IsInjective(h)
  <2> SUFFICES ASSUME NEW a \in new, NEW b \in new, h[a] = h[b] PROVE a = b
    BY DEF IsInjective
  <2>1. place(a) = place(b)
    BY <1>5, <1>6, <1>7 DEF Bijection, Injection, IsInjective
  <2> QED
    BY <1>6, <2>1
<1> QED
  BY <1>8, <1>9

LEMMA ServerTypes ==
  ASSUME Typed, NEW t \in Tasks, ServerStep(t, Installed), UNCHANGED library
  PROVE  TypeOK'
<1> DEFINE c == cmd[t]
<1>0. /\ LocalsOf(t) /\ (c # None => c \in Commands) /\ proc \in Tables
      /\ (settings # Torn => settings \in Settings)
      /\ \A o \in Orbs : o \in Keys
      /\ Gateway \in Keys /\ Installed \subseteq Orbs
  BY EntryIs DEF Typed, TasksTyped, TypeOK, Tables, Keys, Installed
<1>f. Fault \/ UNCHANGED faults => faults' \in 0..MaxFaults
  BY RunnerConstants DEF Fault, RunnerConstants, Typed, TypeOK
<1>s. /\ registry' = Torn \/ registry' \in Entries
      /\ zips' \in [Dirs -> [Orbs -> Contents]]
      /\ orbsDir' \in Dirs /\ pending' \in Folders \cup {None} /\ spoiled' \subseteq Orbs
  BY DEF library, disk, Typed, TypeOK
<1> SUFFICES /\ settings' \in Settings \cup {Torn} /\ settingsLock' \in Tasks \cup {None}
             /\ children' \in [Keys -> Pids \cup {None}] /\ listed' \subseteq Orbs /\ proc' \in Tables
             /\ drawn' \in Nat /\ (Fault \/ UNCHANGED faults)
  BY <1>f, <1>s DEF TypeOK, Tables
<1> USE <1>0, CommandIs DEF Typed, TypeOK, conf, servers, At, Op, Ensuring, EnsureOps, OrbOps
<1>1. CASE StartLookup(t, Installed)
  BY <1>1 DEF StartLookup
<1>2. CASE StartSettings(t)
  BY <1>2 DEF StartSettings
<1>3. CASE StartSpawn(t)
  <2>0. loc[t].token \in Nat /\ loc[t].binding \in Bindings /\ cmd[t].orb \in Keys
    BY <1>3 DEF StartSpawn, LocalsOf
  <2>1. ASSUME NEW port \in Ports, Spawned(t, port, cmd[t].orb) PROVE proc' \in Tables
    BY <2>0, <2>1, ProcessTyped, FreshIs DEF Spawned, Tables
  <2> QED
    BY <1>3, <2>1 DEF StartSpawn, SpawnFails
<1>4. CASE StartInsert(t)
  BY <1>4 DEF StartInsert, LocalsOf, PidLabels
<1>5. CASE StartList(t)
  BY <1>5 DEF StartList
<1>6. CASE Unlist(t)
  BY <1>6 DEF Unlist
<1>7. CASE StopChild(t)
  BY <1>7, KilledTyped DEF StopChild
<1>8. CASE BatchSettings(t)
  BY <1>8 DEF BatchSettings
<1>24. CASE BatchLock(t)
  BY <1>24 DEF BatchLock
<1>9. CASE BatchLaunch(t, Installed)
  <2> DEFINE new == BatchNew(cmd[t].orbs, Installed)
             port(o) == BatchPort(t, cmd[t].orbs, Place(cmd[t].orbs, o), Installed)
             pid == CHOOSE f \in [new -> Unused] : IsInjective(f)
             few == Cardinality(new) > Cardinality(Unused) \/ \E o \in new : port(o) \notin Ports
  <2>1. new \in SUBSET Orbs /\ new \subseteq Keys
    BY DEF BatchNew
  <2>2. Cardinality(new) \in Nat /\ Cardinality(Unused) \in Nat
    <3>1. Unused \subseteq Pids
      BY DEF Unused
    <3>2. IsFiniteSet(Orbs) /\ IsFiniteSet(Pids) /\ Unused \in SUBSET Pids
      BY <3>1, RunnerConstants, ServerConstants DEF RunnerConstants, ServerConstants
    <3> QED
      BY <2>1, <3>2, FS_Subset, FS_CardinalityType
  <2>3. ~few => pid \in [new -> Unused]
    BY <2>1, <2>2, PidsDiffer
  <2>4. loc[t].binding \in Bindings
    BY DEF LocalsOf
  <2> HIDE DEF new, port, pid
  <2>5. \A o \in new : port(o) \in Ports => Process(o, port(o), 0, loc[t].binding) \in Procs
    BY <2>1, <2>4, ProcessTyped
  <2>6. UNCHANGED <<settings, settingsLock, drawn, faults>>
    BY <1>9 DEF BatchLaunch
  <2>7. CASE few
    BY <1>9, <2>6, <2>7 DEF BatchLaunch, new, port
  <2>8. CASE ~few
    <3>1. /\ children' = [k \in Keys |-> IF k \in new THEN pid[k] ELSE children[k]]
          /\ listed' = listed \cup new
          /\ proc' = [p \in Pids |->
               IF \E o \in new : pid[o] = p
                 THEN LET o == CHOOSE x \in new : pid[x] = p IN Process(o, port(o), 0, loc[t].binding)
                 ELSE proc[p]]
      BY <1>9, <2>8 DEF BatchLaunch, new, port, pid
    <3>2. children' \in [Keys -> Pids \cup {None}]
      BY <2>3, <2>8, <3>1 DEF Unused
    <3>3. proc' \in Tables
      BY <2>5, <2>8, <3>1 DEF Tables
    <3> QED
      BY <2>1, <2>6, <3>1, <3>2, <3>3
  <2> QED
    BY <2>7, <2>8
<1>10. CASE EnsureEnter(t)
  BY <1>10 DEF EnsureEnter
<1>11. CASE EnsureLoad(t)
  <2>1. settings # Torn => \A token \in Nat : [settings EXCEPT !.token = token] \in Settings
    BY DEF Settings
  <2>2. settings # Torn => (IF settings.token = 0 THEN drawn + 1 ELSE settings.token) \in Nat
    BY DEF Settings
  <2> QED
    BY <1>11, <2>1, <2>2 DEF EnsureLoad, SaveSettings, SaveFails
<1>12. CASE EnsureProbe(t)
  BY <1>12 DEF EnsureProbe
<1>13. CASE EnsureReuse(t)
  <2>0. loc[t].port \in Ports
    BY <1>13 DEF EnsureReuse, LocalsOf, PortLabels
  <2>1. settings # Torn => [settings EXCEPT !.port = loc[t].port] \in Settings
    BY <2>0 DEF Settings
  <2> QED
    BY <1>13, <2>1 DEF EnsureReuse, StorePort, SaveSettings, SaveFails
<1>14. CASE EnsureChoose(t)
  BY <1>14 DEF EnsureChoose
<1>15. CASE EnsureSpawn(t)
  <2>0. loc[t].token \in Nat /\ loc[t].binding \in Bindings /\ loc[t].port \in Ports
    BY <1>15 DEF EnsureSpawn, LocalsOf, PortLabels
  <2>1. Spawned(t, loc[t].port, Gateway) => proc' \in Tables
    BY <2>0, ProcessTyped, FreshIs DEF Spawned, Tables
  <2> QED
    BY <1>15, <2>1 DEF EnsureSpawn, SpawnFails
<1>16. CASE EnsurePoll(t)
  BY <1>16, KilledTyped DEF EnsurePoll, GivesUp, GivenUp
<1>17. CASE EnsureInsert(t)
  BY <1>17, KilledTyped DEF EnsureInsert, LocalsOf, PidLabels
<1>18. CASE StatusLoad(t)
  BY <1>18 DEF StatusLoad
<1>19. CASE StatusReap(t)
  BY <1>19 DEF StatusReap
<1>20. CASE StopGateway(t)
  BY <1>20, KilledTyped DEF StopGateway, Stopped
<1>21. CASE StopAdopted(t)
  <2> DEFINE dying == Accepting(settings.port, settings.token)
  <2>1. [p \in Pids |-> IF p \in dying THEN [proc[p] EXCEPT !.st = "dying"] ELSE proc[p]] \in Tables
    BY MarkedTyped
  <2>2. proc' \in Tables /\ UNCHANGED <<settings, settingsLock, drawn, children, listed, faults>>
    BY <1>21, <2>1 DEF StopAdopted
  <2> QED
    BY <2>2
<1>22. CASE ResetToken(t)
  <2>1. settings # Torn => [settings EXCEPT !.token = drawn + 1] \in Settings
    BY DEF Settings
  <2> QED
    BY <1>22, <2>1 DEF ResetToken, SaveSettings, SaveFails
<1>23. CASE SaveForm(t)
  <2>1. \A current \in Readable : MergeSettings(current, cmd[t].form) \in Settings
    BY <1>23, OverlaysTyped, DefaultTyped DEF SaveForm, Readable
  <2> QED
    BY <1>23, <2>1 DEF SaveForm, SaveSettings, SaveFails
<1> QED
  BY <1>1, <1>2, <1>3, <1>4, <1>5, <1>6, <1>7, <1>8, <1>9, <1>10, <1>11, <1>12, <1>13, <1>14, <1>15, <1>16, <1>17, <1>18, <1>19, <1>20, <1>21, <1>22, <1>23, <1>24
  DEF ServerStep
(* A command's step keeps the other commands' locals, and so does one that *)
(* touches none.                                                           *)
LEMMA OthersTyped ==
  ASSUME TasksTyped, NEW t \in Tasks, Framed(t), LocalsOf(t)'
  PROVE  TasksTyped'
<1>1. ASSUME NEW u \in Tasks \ {t} PROVE LocalsOf(u)'
  <2>1. Op(u)' = Op(u) /\ pc'[u] = pc[u] /\ loc'[u] = loc[u] /\ cmd'[u] = cmd[u] /\ LocalsOf(u)
    BY DEF TasksTyped, Framed, Op
  <2> QED
    BY <2>1 DEF LocalsOf
<1> QED
  BY <1>1 DEF TasksTyped, Framed

LEMMA SameTasks == ASSUME TasksTyped, UNCHANGED tasks PROVE TasksTyped'
<1>1. \A t \in Tasks : LocalsOf(t)'
  BY DEF TasksTyped, LocalsOf, Op, tasks
<1> QED
  BY <1>1 DEF TasksTyped, tasks

LEMMA IssueTyped ==
  ASSUME Typed, NEW t \in Tasks, Issue(t), UNCHANGED <<library, servers>>
  PROVE  Typed'
<1>1. TypeOK'
  BY DEF Typed, TypeOK, Issue, library, disk, servers, conf
<1>2. PICK c \in waiting : waiting' = waiting \ {c} /\ cmd' = [cmd EXCEPT ![t] = c]
  BY DEF Issue
<1>3. /\ c \in Commands /\ cmd'[t] = c /\ pc'[t] = "start" /\ loc'[t] = NoLocals
      /\ LocalsOf(t) /\ DOMAIN pc' = Tasks /\ UNCHANGED loc
      /\ \A u \in Tasks \ {t} : cmd'[u] = cmd[u] /\ pc'[u] = pc[u] /\ LocalsOf(u)
  BY <1>2 DEF Issue, Typed, TasksTyped, LocalsOf
<1>4. LocalsOf(t)'
  BY <1>3, CommandIs
  DEF LocalsOf, NoLocals, Op, Bindings, RegLabels, MoveLabels, CopyLabels, PidLabels, LibraryOps, PortLabels, ApplyOps
<1>5. ASSUME NEW u \in Tasks \ {t} PROVE LocalsOf(u)'
  <2>1. Op(u)' = Op(u) /\ loc'[u] = loc[u]
    BY <1>3 DEF Op
  <2> QED
    BY <1>3, <2>1 DEF LocalsOf
<1>6. waiting' \subseteq Commands /\ cmd' \in [Tasks -> Commands \cup {None}] /\ DOMAIN loc' = Tasks
  BY <1>2, <1>3 DEF Typed, TasksTyped
<1> QED
  BY <1>1, <1>3, <1>4, <1>5, <1>6 DEF Typed, TasksTyped

LEMMA DismissTyped ==
  ASSUME Typed, NEW t \in Tasks, Dismiss(t), UNCHANGED <<library, servers>>
  PROVE  Typed'
<1>1. Framed(t) /\ Returned(t)
  BY EndIs DEF Dismiss, End, Typed
<1>2. LocalsOf(t)'
  BY <1>1, ReturnedTyped
<1>3. settings # Torn => [settings EXCEPT !.onboard = TRUE] \in Settings
  BY DEF Typed, TypeOK, Settings
<1>4. faults' \in 0 .. MaxFaults
  BY RunnerConstants DEF Dismiss, SaveSettings, SaveFails, Fault, RunnerConstants, Typed, TypeOK
<1>5. settings' \in Settings \cup {Torn} /\ settingsLock' = settingsLock /\ drawn' = drawn
  BY <1>3 DEF Dismiss, SaveSettings, SaveFails, Typed, TypeOK
<1>6. TypeOK'
  BY <1>4, <1>5 DEF Typed, TypeOK, library, disk, servers
<1> QED
  BY <1>1, <1>2, <1>6, OthersTyped DEF Typed

LEMMA DrainTyped == ASSUME Typed, NEW t \in Tasks, Clear(t) \/ Drain(t) PROVE Typed'
<1>1. /\ \/ Goto(t, "cleared") /\ UNCHANGED loc
         \/ Goto(t, "exit") /\ loc' = [loc EXCEPT ![t].moved = Owned]
      /\ Op(t) = "close"
  BY DEF Clear, Drain, At
<1>2. cmd'[t] = cmd[t] /\ pc'[t] \in {"cleared", "exit"} /\ Framed(t)
  BY <1>1, GotoIs DEF Goto, Typed, TasksTyped
<1>3. LocalsOf(t)'
  <2>1. LocalsOf(t) /\ Op(t)' = "close" /\ cmd[t] # None
    BY <1>1, <1>2 DEF Typed, TasksTyped, Op
  <2> QED
    BY <1>1, <1>2, <2>1, LocalNames
    DEF Typed, TasksTyped, LocalsOf, RegLabels, MoveLabels, CopyLabels, PidLabels, LibraryOps, PortLabels, ApplyOps
<1>4. TypeOK'
  BY DEF Clear, Drain, Typed, TypeOK, library, disk, conf, Keys
<1> QED
  BY <1>2, <1>3, <1>4, OthersTyped DEF Typed

(* A query of metrics, and a process beside the app, touch neither the     *)
(* library nor the servers. Such a process may overtake the settings.      *)
AsideStep(t) == ProxyStep(t) \/ ((MetricsStep(t) \/ Answered(t)) /\ UNCHANGED library)
AsideLabels == {"idle", "fetch", "asking", "renewed", "saving"}

LEMMA AsideIs ==
  ASSUME TasksTyped, NEW t \in Tasks, AsideStep(t)
  PROVE  /\ Framed(t) /\ pc'[t] \in AsideLabels /\ Op(t) \in {"metrics", "proxy"}
         /\ pc[t] \in {"start", "fetch", "asking", "renewed", "saving"}
         /\ UNCHANGED <<library, servers, settingsLock, drawn>>
         /\ Fault \/ UNCHANGED faults
         /\ clash' \subseteq clash \cup {"overtaken"}
         /\ \/ UNCHANGED settings
            \/ "overtaken" \in clash'
            \/ LockFree /\ settings' = Torn /\ Fault
<1> USE GotoIs, EndIs DEF TasksTyped, Goto, End, At, AsideLabels, Returned, GotoMarked, EndMarked, conf
<1>1. CASE MetricsFile(t) /\ UNCHANGED library
  BY <1>1 DEF MetricsFile
<1>2. CASE MetricsAsk(t) /\ UNCHANGED library
  BY <1>2 DEF MetricsAsk
<1>3. CASE Answered(t) /\ UNCHANGED library
  BY <1>3 DEF Answered
<1>4. CASE ProxyResolve(t)
  BY <1>4 DEF ProxyResolve
<1>5. CASE ProxyLoad(t)
  BY <1>5 DEF ProxyLoad
<1>6. CASE ProxySave(t)
  BY <1>6 DEF ProxySave, SaveSettings, SaveFails, Overtakes, LockFree, Fault
<1> QED
  BY <1>1, <1>2, <1>3, <1>4, <1>5, <1>6 DEF AsideStep, MetricsStep, ProxyStep

LEMMA AsideTyped == ASSUME Typed, NEW t \in Tasks, AsideStep(t) PROVE Typed'
<1>0. /\ TasksTyped /\ LocalsOf(t) /\ Framed(t)
      /\ (settings # Torn => settings \in Settings)
  BY AsideIs DEF Typed, TypeOK, TasksTyped
<1>1. LocalsOf(t)'
  <2>1. CASE Returned(t)
    BY <2>1, ReturnedTyped
  <2>2. ASSUME ~Returned(t) PROVE LocalsOf(t)'
    <3>1. /\ cmd'[t] = cmd[t] /\ Op(t)' = Op(t) /\ Op(t) \in {"metrics", "proxy"} /\ cmd[t] # None
          /\ pc'[t] \in {"fetch", "asking", "renewed", "saving"}
      <4>1. cmd'[t] = cmd[t] /\ Op(t)' = Op(t) /\ Op(t) \in {"metrics", "proxy"} /\ cmd[t] # None
        BY <1>0, <2>2, AsideIs DEF Framed, Op
      <4>2. pc'[t] \in {"fetch", "asking", "renewed", "saving"}
        BY <1>0, <2>2, GotoIs, EndIs
        DEF AsideStep, MetricsStep, ProxyStep, MetricsFile, MetricsAsk, Answered, ProxyResolve, ProxyLoad, ProxySave, Goto, End
      <4> QED
        BY <4>1, <4>2
    <3>2. /\ loc'[t] = loc[t] \/ (\E port : loc'[t] = [loc[t] EXCEPT !.port = port]) \/ (\E dir : loc'[t] = [loc[t] EXCEPT !.dir = dir])
             \/ (\E seen \in Settings : loc'[t] = [loc[t] EXCEPT !.seen = seen])
          /\ pc'[t] = "renewed" => loc'[t].dir \in Folders
      <4>1. CASE MetricsStep(t) \/ Answered(t)
        <5>1. pc'[t] \in {"fetch", "asking"}
          BY <1>0, <2>2, <4>1, GotoIs, EndIs DEF MetricsStep, MetricsFile, MetricsAsk, Answered, Goto, End
        <5> QED
          BY <1>0, <2>2, <4>1, <5>1, EndIs DEF MetricsStep, MetricsFile, MetricsAsk, Answered, End, TasksTyped
      <4>2. CASE ProxyResolve(t)
        <5>1. loc' = [loc EXCEPT ![t].dir = settings.mark] /\ settings.mark \in Folders
          BY <1>0, <2>2, <4>2, EndIs DEF ProxyResolve, End, Settings
        <5> QED
          BY <1>0, <5>1, LocalNames DEF TasksTyped, LocalsOf
      <4>3. CASE ProxyLoad(t)
        <5>1. /\ At(t, "proxy", "renewed") /\ settings # Torn /\ Goto(t, "saving")
              /\ loc' = [loc EXCEPT ![t].seen = [settings EXCEPT !.mark = loc[t].dir]]
          BY <1>0, <2>2, <4>3, EndIs DEF ProxyLoad, End
        <5>2. loc[t].dir \in Folders
          BY <1>0, <5>1 DEF LocalsOf, At
        <5>3. [settings EXCEPT !.mark = loc[t].dir] \in Settings
          BY <1>0, <5>1, <5>2 DEF Settings
        <5>4. pc'[t] = "saving"
          BY <1>0, <5>1, GotoIs DEF Goto
        <5> QED
          BY <1>0, <5>1, <5>3, <5>4 DEF TasksTyped
      <4>4. ~ProxySave(t)
        BY <1>0, <2>2, EndIs DEF ProxySave
      <4> QED
        BY <4>1, <4>2, <4>3, <4>4 DEF AsideStep, ProxyStep
    <3> QED
      BY <1>0, <3>1, <3>2, LocalNames
      DEF LocalsOf, RegLabels, MoveLabels, CopyLabels, PidLabels, LibraryOps, PortLabels, ApplyOps, EnsureOps
  <2> QED
    BY <2>1, <2>2
<1>2. settings' \in Settings \cup {Torn}
  <2>1. settings' \in {settings, loc[t].seen, Torn}
    BY DEF AsideStep, MetricsStep, ProxyStep, MetricsFile, MetricsAsk, Answered, ProxyResolve, ProxyLoad, ProxySave,
           conf, SaveSettings, SaveFails
  <2> QED
    BY <1>0, <2>1 DEF LocalsOf
<1>3. faults' \in 0 .. MaxFaults
  BY <1>0, AsideIs, RunnerConstants DEF Fault, RunnerConstants, Typed, TypeOK
<1>4. TypeOK'
  <2>1. UNCHANGED <<library, servers, settingsLock, drawn>>
    BY <1>0, AsideIs
  <2> QED
    BY <1>2, <1>3, <2>1 DEF Typed, TypeOK, library, disk, servers
<1> QED
  BY <1>0, <1>1, <1>4, OthersTyped DEF Typed

LEMMA RelaunchTyped ==
  ASSUME Typed, NEW killed, NEW errors \in Nat, Relaunch(killed, errors)
  PROVE  Typed'
<1>1. PICK read \in {settings, Torn} : Launched(read, errors)
  BY DEF Relaunch
<1> DEFINE found == IF read = Torn THEN DefaultSettings ELSE read
<1>2. found \in Settings /\ read \in Settings \cup {Torn}
  BY <1>1, DefaultTyped DEF Typed, TypeOK
<1>3. settings' \in {read, Torn} \/ \E folder \in Folders : settings' = [found EXCEPT !.dir = folder, !.mark = folder]
  <2>1. PICK folder \in Folders \cup {None}, missing, denied \in {0, 1} : \E save \in LaunchSaves(read, found, folder) : settings' = save[1]
    BY <1>1 DEF Launched
  <2>2. PICK save \in LaunchSaves(read, found, folder) : settings' = save[1]
    BY <2>1
  <2>3. save[1] \in {read, Torn, Chosen(read, found, folder)}
    BY <2>2 DEF LaunchSaves
  <2> HIDE DEF found
  <2> QED
    BY <2>2, <2>3 DEF Chosen
<1>4. settings' \in Settings \cup {Torn}
  <2>1. ASSUME NEW folder \in Folders PROVE [found EXCEPT !.dir = folder, !.mark = folder] \in Settings
    BY <1>2 DEF Settings
  <2> HIDE DEF found
  <2> QED
    BY <1>2, <1>3, <2>1
<1>5. orbsDir' \in Dirs
  <2>1. orbsDir' \in {LibraryOf(found), Legacy}
    BY <1>1 DEF Launched
  <2> HIDE DEF found
  <2> QED
    BY <1>2, <2>1 DEF LibraryOf, Dirs, Settings
<1>6. faults' \in 0 .. MaxFaults
  <2>1. PICK folder \in Folders \cup {None}, missing, denied \in {0, 1} : \E save \in LaunchSaves(read, found, folder) :
          faults' = faults + errors + missing + denied + save[2] /\ faults' <= MaxFaults
    BY <1>1 DEF Launched
  <2>2. PICK save \in LaunchSaves(read, found, folder) : faults' = faults + errors + missing + denied + save[2] /\ faults' <= MaxFaults
    BY <2>1
  <2>3. save[2] \in {0, 1}
    BY <2>2 DEF LaunchSaves
  <2> QED
    BY <2>2, <2>3, RunnerConstants DEF Typed, TypeOK, RunnerConstants
<1>7. waiting' \subseteq Commands
  BY <1>1 DEF Launched, Typed, TasksTyped, Commands
<1>8. zips' \in [Dirs -> [Orbs -> Contents]]
  BY DEF Relaunch, Gone, Typed, TypeOK, Contents
<1>9. registry' = Torn \/ registry' \in Entries
  BY DEF Relaunch, Gone, Typed, TypeOK
<1>10. proc' \in [Pids -> Procs]
  <2>1. proc' = Left(killed)
    BY DEF Relaunch, Gone
  <2>2. Left(killed) \in Tables
    BY LeftTyped DEF Typed, TypeOK, Tables
  <2> QED
    BY <2>1, <2>2 DEF Tables
<1>11. TypeOK'
  <2>1. pending' = None /\ spoiled' = spoiled /\ settingsLock' = None /\ listed' = {} /\ drawn' = drawn
        /\ children' = [k \in Keys |-> None]
    BY DEF Relaunch, Gone
  <2> QED
    BY <1>4, <1>5, <1>6, <1>8, <1>9, <1>10, <2>1 DEF Typed, TypeOK
<1>12. TasksTyped'
  <2>1. cmd' = [t \in Tasks |-> None] /\ pc' = [t \in Tasks |-> "idle"] /\ loc' = [t \in Tasks |-> NoLocals]
    BY DEF Relaunch, Gone
  <2>2. ASSUME NEW t \in Tasks PROVE LocalsOf(t)'
    BY <2>1, ReturnedTyped DEF Returned
  <2> QED
    BY <1>7, <2>1, <2>2 DEF TasksTyped
<1> QED
  BY <1>11, <1>12 DEF Typed

LEMMA ProcessStepTyped ==
  ASSUME Typed, NEW p \in Pids, Settles(p) \/ Crashes(p), UNCHANGED library
  PROVE  Typed'
<1>1. proc \in Tables
  BY DEF Typed, TypeOK, Tables
<1>2. \A st \in {"dead", "up"} : [proc[p] EXCEPT !.st = st] \in Procs
  BY <1>1 DEF Tables, Procs
<1>3. proc' \in Tables
  <2>1. ASSUME NEW st \in {"dead", "up"} PROVE [proc EXCEPT ![p].st = st] \in Tables
    BY <1>1, <1>2 DEF Tables
  <2> QED
    BY <1>1, <2>1, KilledTyped DEF Settles, BindOrExit, Crashes
<1>4. faults' \in 0 .. MaxFaults
  BY RunnerConstants DEF Settles, Crashes, Fault, RunnerConstants, Typed, TypeOK
<1>5. TypeOK' /\ UNCHANGED tasks
  BY <1>3, <1>4 DEF Settles, Crashes, Typed, TypeOK, Tables, library, disk, conf
<1> QED
  BY <1>5, SameTasks DEF Typed

LEMMA InitTyped == Init => Typed
<1> SUFFICES ASSUME Init PROVE Typed
  OBVIOUS
<1>1. PICK w \in Worlds : InitiallyIn(w)
  BY DEF Init
<1>2. /\ w.script \subseteq Commands /\ w.registry \in Entries /\ w.dir \in Folders \cup {None}
      /\ w.token \in Nat
  BY WorldsGiven
<1>3. settings \in Settings
  <2>1. DefaultSettings \in Settings /\ (w.dir # None) \in BOOLEAN
    BY DefaultTyped
  <2> DEFINE board == w.dir # None
  <2>2. settings = [DefaultSettings EXCEPT !.dir = w.dir, !.mark = w.dir, !.onboard = board, !.token = w.token]
    BY <1>1 DEF InitiallyIn
  <2> HIDE DEF board
  <2> QED
    BY <1>2, <2>1, <2>2 DEF Settings, board
<1>4. zips \in [Dirs -> [Orbs -> Contents]]
  BY <1>1 DEF InitiallyIn, Contents
<1>5. proc \in [Pids -> Procs]
  <2>1. \A token \in Nat : Process(Gateway, BasePort, token, "localhost") \in Procs
    BY ProcessTyped, BasePortIs DEF Keys, Bindings
  <2>2. ASSUME NEW q \in Procs, NEW st \in {"up", "dead"} PROVE [q EXCEPT !.st = st, !.here = FALSE] \in Procs
    BY DEF Procs
  <2> QED
    BY <1>1, <1>2, <2>1, <2>2 DEF InitiallyIn
<1>6. orbsDir \in Dirs
  BY <1>1, <1>2 DEF InitiallyIn, Dirs
<1>7. TypeOK
  <2>1. settingsLock = None /\ pending = None /\ spoiled = {} /\ listed = {} /\ faults = 0
        /\ children = [k \in Keys |-> None] /\ registry = w.registry /\ drawn = w.token
    BY <1>1 DEF Init, InitiallyIn
  <2> QED
    BY <1>2, <1>3, <1>4, <1>5, <1>6, <2>1, RunnerConstants DEF TypeOK, RunnerConstants
<1>8. TasksTyped
  <2>1. cmd = [t \in Tasks |-> None] /\ pc = [t \in Tasks |-> "idle"] /\ loc = [t \in Tasks |-> NoLocals]
        /\ waiting = w.script
    BY <1>1 DEF Init, InitiallyIn
  <2>2. ASSUME NEW t \in Tasks PROVE LocalsOf(t)
    <3>1. /\ NoLocals.base \in Nat /\ NoLocals.token \in Nat /\ NoLocals.binding \in Bindings
          /\ NoLocals.pid = None /\ NoLocals.olds = {} /\ NoLocals.seen \in Settings
      BY DefaultTyped DEF NoLocals, Bindings
    <3> QED
      BY <2>1, <3>1 DEF LocalsOf, Op, Bindings, RegLabels, MoveLabels, CopyLabels, PidLabels, LibraryOps, ApplyOps, EnsureOps
  <2> QED
    BY <1>2, <2>1, <2>2 DEF TasksTyped
<1> QED
  BY <1>7, <1>8 DEF Typed

LEMMA TypedNext == Typed /\ [Next]_vars => Typed'
<1> SUFFICES ASSUME Typed, [Next]_vars PROVE Typed'
  OBVIOUS
<1>0. TasksTyped
  BY DEF Typed
<1>1. ASSUME NEW t \in Tasks, LibraryStep(t), UNCHANGED servers PROVE Typed'
  BY <1>0, <1>1, LibraryFrame, LibraryTyped, LibraryTypes, OthersTyped DEF Typed
<1>2. ASSUME NEW t \in Tasks, ServerStep(t, Installed), UNCHANGED library PROVE Typed'
  BY <1>0, <1>2, ServerFrame, ServerTyped, ServerTypes, OthersTyped DEF Typed
<1>3. ASSUME NEW t \in Tasks, TaskStep(t) PROVE Typed'
  BY <1>1, <1>2, <1>3, AsideTyped, DismissTyped, DrainTyped, RelaunchTyped DEF TaskStep, Quit, AsideStep
<1>4. CASE UNCHANGED vars
  <2>1. TypeOK' /\ UNCHANGED tasks
    BY <1>4 DEF vars, Typed, TypeOK, library, disk, servers, conf
  <2> QED
    BY <1>0, <2>1, SameTasks DEF Typed
<1> QED
  BY <1>3, <1>4, AsideTyped, IssueTyped, ProcessStepTyped, RelaunchTyped DEF Next, Kill, AsideStep

(* Whatever commands overlap, fail or are cut off, everything the app      *)
(* keeps is of its kind.                                                   *)
THEOREM TypeCorrect == Spec => []TypeOK
<1>1. Typed => TypeOK
  BY DEF Typed
<1> QED
  BY <1>1, InitTyped, TypedNext, PTL DEF Spec
(* The steps at which a command keeps the settings locked.                 *)
HeldLabels == {"targets", "move", "copying", "unlinkold", "rollback", "rewrite", "erase", "retain", "adopt"}

LockHeld == \A t \in Tasks : pc[t] \in HeldLabels => settingsLock = t

(* What it has read is still stored, but for a process beside the app.     *)
PickReads == \A t \in Tasks : At(t, "pick", "adopt") => loc[t].seen = settings \/ "overtaken" \in clash

Fields == {"dir", "mark", "token"}

Stored == settings # Torn => Fields \subseteq DOMAIN settings

Inv == Stored /\ LockHeld /\ PickReads /\ faults \in Nat

(* The default settings have their fields.                                 *)
LEMMA DefaultFields == Fields \subseteq DOMAIN DefaultSettings
BY DEF Fields, DefaultSettings

(* The folder picked replaces folder and bookmark, and nothing else.       *)
LEMMA WithLibraryKeeps ==
  ASSUME NEW s, NEW folder, Fields \subseteq DOMAIN s
  PROVE  /\ DOMAIN WithLibrary(s, folder) = DOMAIN s
         /\ WithLibrary(s, folder).token = s.token
         /\ WithLibrary(s, folder).dir = folder
         /\ WithLibrary(s, folder).mark = folder
BY DEF WithLibrary, Fields

(* The Settings form leaves the token as stored, and the bookmark only     *)
(* with its folder.                                                        *)
LEMMA MergeSettingsKeeps ==
  ASSUME NEW s, NEW form, Fields \subseteq DOMAIN s
  PROVE  /\ DOMAIN MergeSettings(s, form) = DOMAIN s
         /\ MergeSettings(s, form).token = s.token
         /\ MergeSettings(s, form).mark # None =>
              MergeSettings(s, form).mark = s.mark /\ MergeSettings(s, form).dir = s.dir
<1> DEFINE m == MergeSettings(s, form)
<1>1. DOMAIN m = DOMAIN s
  BY DEF MergeSettings
<1>2. m.token = s.token
  BY DEF MergeSettings, Fields
<1>3. m.dir = IF form.dir = None THEN s.dir ELSE form.dir
  BY DEF MergeSettings, Fields
<1>4. m.mark = IF form.dir \in {None, s.dir} THEN s.mark ELSE None
  BY DEF MergeSettings, Fields
<1> HIDE DEF m
<1>5. m.mark # None => m.mark = s.mark /\ m.dir = s.dir
  BY <1>3, <1>4
<1> QED
  BY <1>1, <1>2, <1>5 DEF m

(* Typed settings have their fields.                                       *)
LEMMA StoredIs == ASSUME Typed PROVE Stored /\ faults \in Nat
BY RunnerConstants DEF RunnerConstants, Typed, TypeOK, Settings, Stored, Fields

(* Nothing is locked at first.                                             *)
LEMMA InvInit == Init => Inv
<1> SUFFICES ASSUME Init PROVE Inv
  OBVIOUS
<1>1. Stored /\ faults \in Nat
  BY InitTyped, StoredIs
<1> QED
  BY <1>1 DEF Init, Inv, LockHeld, PickReads, HeldLabels, At

(* A command's step changes the lock and the settings only while they are  *)
(* free or its own, unless it overtakes them.                              *)
Locks(t) ==
  /\ UNCHANGED settingsLock \/ settingsLock \in {None, t}
  /\ UNCHANGED settings \/ settingsLock \in {None, t} \/ "overtaken" \in clash'
  /\ pc'[t] \in HeldLabels => settingsLock' = t
  /\ Op(t) = "pick" /\ pc'[t] = "adopt" => loc'[t].seen = settings /\ UNCHANGED settings

LEMMA LocksKeep == ASSUME Typed', Inv, NEW t \in Tasks, Framed(t), Locks(t) PROVE Inv'
<1>1. Stored' /\ (faults \in Nat)'
  BY StoredIs, PTL
<1>2. LockHeld'
  BY RunnerConstants DEF RunnerConstants, Inv, LockHeld, Framed, Locks
<1>3. ASSUME NEW u \in Tasks, At(u, "pick", "adopt")' PROVE loc'[u].seen = settings' \/ "overtaken" \in clash'
  <2>1. CASE u = t
    BY <1>3, <2>1 DEF Framed, Returned, Locks, At, Op
  <2>2. CASE u # t
    <3>1. At(u, "pick", "adopt") /\ loc'[u] = loc[u] /\ clash \subseteq clash'
      BY <1>3, <2>2 DEF Framed, At, Op
    <3>2. settingsLock = u
      BY <3>1 DEF Inv, LockHeld, HeldLabels, At
    <3> QED
      BY <2>2, <3>1, <3>2, RunnerConstants DEF RunnerConstants, Inv, PickReads, Locks
  <2> QED
    BY <2>1, <2>2
<1> QED
  BY <1>1, <1>2, <1>3 DEF Inv, PickReads

(* A command on the library goes one step on.                              *)
LEMMA LibraryLocks ==
  ASSUME Inv, Typed, NEW t \in Tasks, LibraryStep(t)
  PROVE  Locks(t)
<1>0. LocalsOf(t) /\ DOMAIN loc = Tasks
  BY DEF Typed, TasksTyped
<1>1a. pc[t] \in HeldLabels => settingsLock = t
  BY DEF Inv, LockHeld
<1>2a. TasksTyped
  BY DEF Typed
<1> USE <1>0, <1>1a, <1>2a, GotoIs, EndIs
    DEF Returned, Locks, HeldLabels, conf, library, disk, Applying, ApplyOps, At,
        LockFree, Goto, End
<1>1. CASE ImportCheck(t)
  BY <1>1 DEF ImportCheck
<1>2. CASE ImportOpen(t)
  BY <1>2 DEF ImportOpen
<1>3. CASE ImportFilled(t)
  BY <1>3 DEF ImportFilled
<1>4. CASE ImportLoad(t)
  BY <1>4 DEF ImportLoad, Load
<1>5. CASE ImportSave(t)
  BY <1>5 DEF ImportSave, Save, SaveRegistryFails
<1>6. CASE RemoveLoad(t)
  BY <1>6 DEF RemoveLoad, Load
<1>7. CASE RemoveUnlink(t)
  BY <1>7 DEF RemoveUnlink
<1>8. CASE RemoveSave(t)
  BY <1>8 DEF RemoveSave, Save, SaveRegistryFails
<1>9. CASE PickDecide(t)
  BY <1>9, LocalNames DEF PickDecide, LocalsOf
<1>10. CASE PickAdopt(t)
  BY <1>10 DEF PickAdopt, SaveSettings, SaveFails, Unlock
<1>11. CASE CancelChange(t)
  BY <1>11 DEF CancelChange
<1>12. CASE ApplyBegin(t)
  BY <1>12 DEF ApplyBegin
<1>13. CASE ApplyResolve(t)
  BY <1>13 DEF ApplyResolve
<1>14. CASE ApplyTargets(t)
  BY <1>14 DEF ApplyTargets, FirstLabel, Unlock, Abort
<1>15. CASE MoveOne(t)
  BY <1>15 DEF MoveOne, Moved, MoveFails
<1>16. CASE MoveCopied(t)
  BY <1>16 DEF MoveCopied, MoveFails
<1>17. CASE MoveUnlink(t)
  BY <1>17 DEF MoveUnlink, Moved, MoveFails
<1>18. CASE Rollback(t)
  BY <1>18 DEF Rollback, Unlock, Abort
<1>19. CASE MigrateSave(t)
  BY <1>19 DEF MigrateSave, Saved, Save, SaveRegistryFails, Unlock, Abort
<1>20. CASE EraseOne(t)
  BY <1>20 DEF EraseOne, Unlock, Abort
<1>21. CASE EraseSave(t)
  BY <1>21 DEF EraseSave, Saved, Save, SaveRegistryFails, Unlock, Abort
<1>22. CASE Adopt(t)
  BY <1>22 DEF Adopt, SaveSettings, SaveFails, Unlock, Abort
<1> QED
  BY <1>1, <1>2, <1>3, <1>4, <1>5, <1>6, <1>7, <1>8, <1>9, <1>10, <1>11, <1>12, <1>13, <1>14,
     <1>15, <1>16, <1>17, <1>18, <1>19, <1>20, <1>21, <1>22
  DEF LibraryStep

(* A command on the servers goes one step on.                              *)
LEMMA ServerLocks ==
  ASSUME Inv, Typed, NEW t \in Tasks, ServerStep(t, Installed)
  PROVE  Locks(t)
<1>0. TasksTyped
  BY DEF Typed
<1> USE <1>0, GotoIs, EndIs
    DEF Returned, Locks, HeldLabels, conf, At, Ensuring, EnsureOps, Stopping, LockFree, Goto, End
<1>1. CASE StartLookup(t, Installed)
  BY <1>1 DEF StartLookup
<1>2. CASE StartSettings(t)
  BY <1>2 DEF StartSettings
<1>3. CASE StartSpawn(t)
  BY <1>3 DEF StartSpawn, SpawnFails
<1>4. CASE StartInsert(t)
  BY <1>4 DEF StartInsert
<1>5. CASE StartList(t)
  BY <1>5 DEF StartList
<1>6. CASE Unlist(t)
  BY <1>6 DEF Unlist
<1>7. CASE StopChild(t)
  BY <1>7 DEF StopChild
<1>8. CASE BatchSettings(t)
  BY <1>8 DEF BatchSettings
<1>9. CASE BatchLock(t) \/ BatchLaunch(t, Installed)
  BY <1>9 DEF BatchLock, BatchLaunch
<1>10. CASE EnsureEnter(t)
  BY <1>10 DEF EnsureEnter
<1>11. CASE EnsureLoad(t)
  BY <1>11 DEF EnsureLoad, SaveSettings, SaveFails
<1>12. CASE EnsureProbe(t)
  BY <1>12 DEF EnsureProbe
<1>13. CASE EnsureReuse(t)
  BY <1>13 DEF EnsureReuse, StorePort, SaveSettings, SaveFails
<1>14. CASE EnsureChoose(t)
  BY <1>14 DEF EnsureChoose
<1>15. CASE EnsureSpawn(t)
  BY <1>15 DEF EnsureSpawn, SpawnFails
<1>16. CASE EnsurePoll(t)
  BY <1>16 DEF EnsurePoll, GivesUp
<1>17. CASE EnsureInsert(t)
  BY <1>17 DEF EnsureInsert
<1>18. CASE StatusLoad(t)
  BY <1>18 DEF StatusLoad
<1>19. CASE StatusReap(t)
  BY <1>19 DEF StatusReap
<1>20. CASE StopGateway(t)
  BY <1>20 DEF StopGateway, Stopped
<1>21. CASE StopAdopted(t)
  BY <1>21 DEF StopAdopted, Stopped
<1>22. CASE ResetToken(t)
  BY <1>22 DEF ResetToken, SaveSettings, SaveFails
<1>23. CASE SaveForm(t)
  BY <1>23 DEF SaveForm, SaveSettings, SaveFails
<1> QED
  BY <1>1, <1>2, <1>3, <1>4, <1>5, <1>6, <1>7, <1>8, <1>9, <1>10, <1>11, <1>12, <1>13, <1>14,
     <1>15, <1>16, <1>17, <1>18, <1>19, <1>20, <1>21, <1>22, <1>23
  DEF ServerStep

(* Every step keeps the invariant.                                         *)
LEMMA InvNext == Inv /\ Typed /\ [Next]_vars => Inv'
<1> SUFFICES ASSUME Inv, Typed, [Next]_vars PROVE Inv'
  OBVIOUS
<1>0. Typed' /\ TasksTyped
  BY TypedNext DEF Typed
<1>1. Stored' /\ (faults \in Nat)'
  BY <1>0, StoredIs, PTL
<1>2. ASSUME NEW t \in Tasks, LibraryStep(t) PROVE Inv'
  BY <1>0, <1>2, LibraryFrame, LibraryLocks, LocksKeep
<1>3. ASSUME NEW t \in Tasks, ServerStep(t, Installed) PROVE Inv'
  BY <1>0, <1>3, ServerFrame, ServerLocks, LocksKeep
<1>4. ASSUME NEW t \in Tasks, Dismiss(t) PROVE Inv'
  <2>1. Framed(t) /\ Returned(t)
    BY <1>0, <1>4, EndIs DEF Dismiss, End
  <2>2. Locks(t)
    BY <1>4, <2>1 DEF Dismiss, LockFree, Locks, HeldLabels, Returned
  <2> QED
    BY <1>0, <2>1, <2>2, LocksKeep
<1>5. ASSUME NEW t \in Tasks, Clear(t) \/ Drain(t) PROVE Inv'
  <2>1. /\ Op(t) = "close" /\ UNCHANGED conf
        /\ \/ Goto(t, "cleared") /\ UNCHANGED loc
           \/ Goto(t, "exit") /\ loc' = [loc EXCEPT ![t].moved = Owned]
    BY <1>5 DEF Clear, Drain, At
  <2>2. Framed(t) /\ pc'[t] \in {"cleared", "exit"}
    BY <1>0, <2>1, GotoIs DEF Goto, TasksTyped
  <2>3. Locks(t)
    BY <2>1, <2>2 DEF Locks, HeldLabels, conf
  <2> QED
    BY <1>0, <2>2, <2>3, LocksKeep
<1>6. ASSUME NEW t \in Tasks, AsideStep(t) PROVE Inv'
  <2>1. Locks(t)
    BY <1>0, <1>6, AsideIs DEF AsideLabels, Locks, HeldLabels, LockFree
  <2> QED
    BY <1>0, <1>6, <2>1, AsideIs, LocksKeep
<1>7. ASSUME NEW killed, NEW errors, Relaunch(killed, errors) PROVE Inv'
  <2>1. \A t \in Tasks : pc'[t] = "idle"
    BY <1>7 DEF Relaunch, Gone
  <2> QED
    BY <1>1, <2>1 DEF Inv, LockHeld, PickReads, HeldLabels, At
<1>8. ASSUME NEW t \in Tasks, Issue(t) PROVE Inv'
  <2>1. /\ pc'[t] = "start" /\ UNCHANGED <<loc, settings, settingsLock>> /\ clash \subseteq clash'
        /\ \A u \in Tasks \ {t} : pc'[u] = pc[u] /\ cmd'[u] = cmd[u]
    BY <1>0, <1>8 DEF Issue, conf, TasksTyped
  <2> QED
    BY <1>1, <2>1 DEF Inv, LockHeld, PickReads, HeldLabels, At, Op
<1>9. ASSUME UNCHANGED <<conf, tasks>> PROVE Inv'
  BY <1>1, <1>9 DEF conf, tasks, Inv, LockHeld, PickReads, At, Op
<1>10. ASSUME NEW p \in Pids, Settles(p) \/ Crashes(p) PROVE Inv'
  BY <1>9, <1>10 DEF Settles, Crashes
<1>11. CASE UNCHANGED vars
  BY <1>9, <1>11 DEF vars, conf
<1>12. ASSUME NEW t \in Tasks, TaskStep(t) PROVE Inv'
  BY <1>2, <1>3, <1>4, <1>5, <1>6, <1>7, <1>12 DEF TaskStep, AsideStep, Quit
<1> QED
  BY <1>6, <1>7, <1>8, <1>10, <1>11, <1>12 DEF Next, AsideStep, Kill

(* What every command and everything kept is of, with the lock, together.  *)
LEMMA TypedHolds == Spec => [](Inv /\ Typed)
BY InvInit, InvNext, InitTyped, TypedNext, PTL DEF Spec

THEOREM InvHolds == Spec => []Inv
BY TypedHolds, PTL

-----------------------------------------------------------------------------
(* What a step of the library commands makes of the settings and of the    *)
(* folder imports go to: nothing, or a folder is chosen for both, unless a *)
(* process beside the app has overtaken it.                                *)
Chooses(folder) == settings' = WithLibrary(settings, folder) /\ orbsDir' = folder

LEMMA LibraryWrites ==
  ASSUME Inv, Typed, NEW t \in Tasks, LibraryStep(t)
  PROVE  /\ \/ UNCHANGED <<settings, orbsDir>>
            \/ settings # Torn /\ \E folder \in Folders : Chooses(folder)
            \/ settings' = Torn /\ faults' = faults + 1
            \/ "overtaken" \in clash
         /\ faults' \in {faults, faults + 1} /\ clash \subseteq clash'
<1>0. /\ LocalsOf(t) /\ (cmd[t] # None => cmd[t] \in Commands)
      /\ At(t, "pick", "adopt") => loc[t].seen = settings \/ "overtaken" \in clash
  BY DEF Typed, TasksTyped, Inv, PickReads
<1> USE DEF conf, tasks, library, disk, Applying, At, Goto, GotoMarked, End, EndMarked, Fault
<1>1. CASE ImportCheck(t)
  BY <1>1 DEF ImportCheck
<1>2. CASE ImportOpen(t)
  BY <1>2 DEF ImportOpen
<1>3. CASE ImportFilled(t)
  BY <1>3 DEF ImportFilled
<1>4. CASE ImportLoad(t)
  BY <1>4 DEF ImportLoad, Load
<1>5. CASE ImportSave(t)
  BY <1>5 DEF ImportSave, Save, SaveRegistryFails
<1>6. CASE RemoveLoad(t)
  BY <1>6 DEF RemoveLoad, Load
<1>7. CASE RemoveUnlink(t)
  BY <1>7 DEF RemoveUnlink
<1>8. CASE RemoveSave(t)
  BY <1>8 DEF RemoveSave, Save, SaveRegistryFails
<1>9. CASE PickDecide(t)
  BY <1>9 DEF PickDecide
<1>10. CASE PickAdopt(t)
  <2>1. At(t, "pick", "adopt") /\ cmd[t].folder \in Folders
    BY <1>0, <1>10, CommandIs DEF PickAdopt, Op
  <2>2. loc[t].seen = settings => settings # Torn
    BY <1>0, TornUnlike DEF LocalsOf
  <2> QED
    BY <1>0, <1>10, <2>1, <2>2 DEF PickAdopt, SaveSettings, SaveFails, Chooses
<1>11. CASE CancelChange(t)
  BY <1>11 DEF CancelChange
<1>12. CASE ApplyBegin(t)
  BY <1>12 DEF ApplyBegin
<1>13. CASE ApplyResolve(t)
  BY <1>13 DEF ApplyResolve
<1>14. CASE ApplyTargets(t)
  BY <1>14 DEF ApplyTargets, FirstLabel, Unlock, Abort
<1>15. CASE MoveOne(t)
  BY <1>15 DEF MoveOne, Moved, MoveFails
<1>16. CASE MoveCopied(t)
  BY <1>16 DEF MoveCopied, MoveFails
<1>17. CASE MoveUnlink(t)
  BY <1>17 DEF MoveUnlink, Moved, MoveFails
<1>18. CASE Rollback(t)
  BY <1>18 DEF Rollback, Unlock, Abort
<1>19. CASE MigrateSave(t)
  BY <1>19 DEF MigrateSave, Saved, Save, SaveRegistryFails, Unlock, Abort
<1>20. CASE EraseOne(t)
  BY <1>20 DEF EraseOne, Unlock, Abort
<1>21. CASE EraseSave(t)
  BY <1>21 DEF EraseSave, Saved, Save, SaveRegistryFails, Unlock, Abort
<1>22. CASE Adopt(t)
  <2>1. loc[t].dir \in Folders
    BY <1>0, <1>22 DEF Adopt, ApplyOps, LocalsOf
  <2> QED
    BY <1>22, <2>1 DEF Adopt, SaveSettings, SaveFails, Abort, Chooses
<1> QED
  BY <1>1, <1>2, <1>3, <1>4, <1>5, <1>6, <1>7, <1>8, <1>9, <1>10, <1>11, <1>12, <1>13, <1>14,
     <1>15, <1>16, <1>17, <1>18, <1>19, <1>20, <1>21, <1>22
  DEF LibraryStep

(* What a step of the server commands makes of the settings: their folder  *)
(* and bookmark stay, and so does a token, unless it is reset; or the      *)
(* Settings form is laid over them, or over the default ones.              *)
Rewrites(t) ==
  /\ settings # Torn
  /\ settings'.dir = settings.dir /\ settings'.mark = settings.mark
  /\ settings'.token = settings.token \/ settings.token = 0 \/ At(t, "reset", "start")

Overlays ==
  \E form : settings' = MergeSettings(IF settings = Torn THEN DefaultSettings ELSE settings, form)

LEMMA ServerWrites ==
  ASSUME Inv, NEW t \in Tasks, ServerStep(t, Installed)
  PROVE  /\ \/ UNCHANGED settings
            \/ Rewrites(t)
            \/ Overlays
            \/ settings' = Torn /\ faults' = faults + 1
            \/ "overtaken" \in clash'
         /\ faults' \in {faults, faults + 1} /\ clash \subseteq clash'
<1> USE DEF conf, tasks, Goto, GotoMarked, End, EndMarked, Fault
<1>1. CASE StartLookup(t, Installed)
  BY <1>1 DEF StartLookup
<1>2. CASE StartSettings(t)
  BY <1>2 DEF StartSettings
<1>3. CASE StartSpawn(t)
  BY <1>3 DEF StartSpawn, SpawnFails
<1>4. CASE StartInsert(t)
  BY <1>4 DEF StartInsert
<1>5. CASE StartList(t)
  BY <1>5 DEF StartList
<1>6. CASE Unlist(t)
  BY <1>6 DEF Unlist
<1>7. CASE StopChild(t)
  BY <1>7 DEF StopChild
<1>8. CASE BatchSettings(t)
  BY <1>8 DEF BatchSettings
<1>9. CASE BatchLock(t) \/ BatchLaunch(t, Installed)
  BY <1>9 DEF BatchLock, BatchLaunch
<1>10. CASE EnsureEnter(t)
  BY <1>10 DEF EnsureEnter
<1>11. CASE EnsureLoad(t)
  BY <1>11 DEF EnsureLoad, SaveSettings, SaveFails, Rewrites, Inv, Stored, Fields
<1>12. CASE EnsureProbe(t)
  BY <1>12 DEF EnsureProbe
<1>13. CASE EnsureReuse(t)
  BY <1>13 DEF EnsureReuse, StorePort, SaveSettings, SaveFails, Rewrites, Inv, Stored, Fields
<1>14. CASE EnsureChoose(t)
  BY <1>14 DEF EnsureChoose
<1>15. CASE EnsureSpawn(t)
  BY <1>15 DEF EnsureSpawn, SpawnFails
<1>16. CASE EnsurePoll(t)
  BY <1>16 DEF EnsurePoll, GivesUp
<1>17. CASE EnsureInsert(t)
  BY <1>17 DEF EnsureInsert
<1>18. CASE StatusLoad(t)
  BY <1>18 DEF StatusLoad
<1>19. CASE StatusReap(t)
  BY <1>19 DEF StatusReap
<1>20. CASE StopGateway(t)
  BY <1>20 DEF StopGateway, Stopped
<1>21. CASE StopAdopted(t)
  BY <1>21 DEF StopAdopted, Stopped
<1>22. CASE ResetToken(t)
  BY <1>22 DEF ResetToken, SaveSettings, SaveFails, Rewrites, Inv, Stored, Fields
<1>23. CASE SaveForm(t)
  <2>1. ASSUME NEW current \in Readable
        PROVE  "overtaken" \in FormMarks(current, MergeSettings(current, cmd[t].form))
               \/ current = IF settings = Torn THEN DefaultSettings ELSE settings
    BY <2>1 DEF Readable, FormMarks
  <2> QED
    BY <1>23, <2>1 DEF SaveForm, SaveSettings, SaveFails, Overlays
<1> QED
  BY <1>1, <1>2, <1>3, <1>4, <1>5, <1>6, <1>7, <1>8, <1>9, <1>10, <1>11, <1>12, <1>13, <1>14,
     <1>15, <1>16, <1>17, <1>18, <1>19, <1>20, <1>21, <1>22, <1>23
  DEF ServerStep

(* A launch saves the settings as it has read them, with another folder    *)
(* and its bookmark at most, or fails to.                                  *)
LEMMA LaunchWrites ==
  ASSUME faults \in Nat, NEW read, NEW errors \in Nat, Launched(read, errors)
  PROVE  /\ \/ settings' = read
            \/ settings' = Torn /\ faults' # 0
            \/ /\ "picked" \in clash'
               /\ \E folder : settings' = [IF read = Torn THEN DefaultSettings ELSE read EXCEPT !.dir = folder, !.mark = folder]
         /\ clash \subseteq clash' /\ (read = Torn => "unread" \in clash')
         /\ faults' \in Nat /\ faults' >= faults + errors
         /\ faults' = 0 => orbsDir' = LibraryOf(IF read = Torn THEN DefaultSettings ELSE read)
<1> DEFINE found == IF read = Torn THEN DefaultSettings ELSE read
<1>1. PICK folder \in Folders \cup {None}, missing, denied \in {0, 1} : \E save \in LaunchSaves(read, found, folder) :
        /\ settings' = save[1]
        /\ orbsDir' = IF denied = 0 THEN LibraryOf(found) ELSE Legacy
        /\ faults' = faults + errors + missing + denied + save[2]
        /\ clash' = clash \cup (IF folder = None THEN {} ELSE {"picked"})
                          \cup (IF read = Torn THEN {"unread"} ELSE {})
  BY DEF Launched
<1>2. PICK save \in LaunchSaves(read, found, folder) :
        /\ settings' = save[1]
        /\ faults' = faults + errors + missing + denied + save[2]
  BY <1>1
<1>3. /\ save[1] \in {read, Torn, Chosen(read, found, folder)} /\ save[2] \in {0, 1}
      /\ save[1] = Torn => save[2] = 1 \/ Chosen(read, found, folder) = Torn
  BY <1>2 DEF LaunchSaves
<1>4. faults' \in Nat /\ faults' >= faults + errors /\ (save[2] = 1 => faults' # 0) /\ (faults' = 0 => denied = 0)
  BY <1>1, <1>2, <1>3
<1> HIDE DEF found
<1>5. \/ settings' = read
      \/ settings' = Torn /\ faults' # 0
      \/ folder # None /\ settings' = [found EXCEPT !.dir = folder, !.mark = folder]
  BY <1>2, <1>3, <1>4 DEF Chosen
<1> QED
  BY <1>1, <1>4, <1>5 DEF found

(* A token in use survives every step but its own reset, settings that a   *)
(* launch could not read, and a process beside the app that overtakes.     *)
LEMMA TokenStep ==
  ASSUME Inv, Typed, [Next]_vars, settings # Torn, settings' # Torn, settings.token # 0,
         settings'.token # settings.token
  PROVE  clash' \cap {"unread", "overtaken"} # {} \/ \E t \in Tasks : At(t, "reset", "start")
<1>1. Fields \subseteq DOMAIN settings /\ TasksTyped
  BY DEF Inv, Stored, Typed
<1>2. ASSUME NEW t \in Tasks, LibraryStep(t) PROVE "overtaken" \in clash'
  BY <1>1, <1>2, LibraryWrites, WithLibraryKeeps DEF Chooses
<1>3. ASSUME NEW t \in Tasks, ServerStep(t, Installed) PROVE At(t, "reset", "start") \/ "overtaken" \in clash'
  BY <1>1, <1>3, ServerWrites, MergeSettingsKeeps DEF Rewrites, Overlays
<1>4. ASSUME NEW t \in Tasks, Dismiss(t) PROVE FALSE
  BY <1>1, <1>4 DEF Dismiss, SaveSettings, SaveFails, Fields
<1>5. ASSUME NEW killed, NEW errors \in Nat, Relaunch(killed, errors) PROVE "unread" \in clash'
  <2>1. PICK read \in {settings, Torn} : Launched(read, errors)
    BY <1>5 DEF Relaunch
  <2>2. CASE read = Torn
    BY <2>1, <2>2, LaunchWrites DEF Inv
  <2>3. CASE read = settings
    <3>1. settings' = settings \/ \E folder : settings' = [settings EXCEPT !.dir = folder, !.mark = folder]
      BY <2>1, <2>3, LaunchWrites DEF Inv
    <3> QED
      BY <1>1, <3>1 DEF Fields
  <2> QED
    BY <2>1, <2>2, <2>3
<1>10. ASSUME NEW t \in Tasks, AsideStep(t) PROVE "overtaken" \in clash'
  BY <1>1, <1>10, AsideIs
<1> USE DEF conf, vars
<1>6. ASSUME NEW t \in Tasks, Issue(t) PROVE FALSE
  BY <1>6 DEF Issue
<1>7. ASSUME NEW t \in Tasks, Clear(t) \/ Drain(t) \/ Quit(t) PROVE "unread" \in clash'
  BY <1>5, <1>7 DEF Clear, Drain, Quit
<1>8. ASSUME NEW p \in Pids, Settles(p) \/ Crashes(p) PROVE FALSE
  BY <1>8 DEF Settles, Crashes
<1>9. CASE Kill
  BY <1>5, <1>9 DEF Kill
<1> QED
  BY <1>2, <1>3, <1>4, <1>6, <1>7, <1>8, <1>9, <1>10 DEF Next, TaskStep, AsideStep

(* "Configure the MCP client once": whatever the app saves, picks, moves,  *)
(* starts or launches, in any overlap, a token in use is only changed by   *)
(* its reset, by a launch that finds the settings torn, and by a process   *)
(* beside the app that writes back settings it read before.                *)
THEOREM TokenStays == Spec => TokenKept
BY TypedHolds, TokenStep, PTL DEF TokenKept, Spec

-----------------------------------------------------------------------------
(* Folder, bookmark and the folder in use stay together over every step.   *)
LEMMA FitStep == Inv /\ Typed /\ LibraryFits /\ [Next]_vars => LibraryFits'
<1> SUFFICES ASSUME Inv, Typed, LibraryFits, [Next]_vars, settings' # Torn, clash' \cap {"picked", "overtaken"} = {},
                    faults' = 0, settings'.mark # None
             PROVE  settings'.dir = settings'.mark /\ orbsDir' = settings'.mark
  BY DEF LibraryFits
<1> DEFINE Fits == settings'.dir = settings'.mark /\ orbsDir' = settings'.mark
<1>1. settings # Torn => Fields \subseteq DOMAIN settings
  BY DEF Inv, Stored
<1>2. ASSUME settings # Torn, clash \subseteq clash', faults = 0, UNCHANGED orbsDir,
             settings'.dir = settings.dir, settings'.mark = settings.mark
      PROVE  Fits
  BY <1>2 DEF LibraryFits
<1>3. ASSUME faults' \in {faults, faults + 1} PROVE faults = 0 /\ faults' # faults + 1
  BY <1>3 DEF Inv
<1>4. ASSUME NEW t \in Tasks, LibraryStep(t) PROVE Fits
  <2>1. CASE UNCHANGED <<settings, orbsDir>>
    BY <1>2, <1>3, <1>4, <2>1, LibraryWrites
  <2>2. ASSUME settings # Torn, NEW folder, Chooses(folder) PROVE Fits
    BY <1>1, <2>2, WithLibraryKeeps DEF Chooses
  <2> QED
    BY <1>3, <1>4, <2>1, <2>2, LibraryWrites
<1>5. ASSUME NEW t \in Tasks, ServerStep(t, Installed), UNCHANGED library PROVE Fits
  <2> UNCHANGED orbsDir
    BY <1>5 DEF library
  <2>1. CASE UNCHANGED settings
    BY <1>2, <1>3, <1>5, <2>1, ServerWrites
  <2>2. CASE Rewrites(t)
    BY <1>2, <1>3, <1>5, <2>2, ServerWrites DEF Rewrites
  <2>3. CASE Overlays
    <3>1. PICK form : settings' = MergeSettings(IF settings = Torn THEN DefaultSettings ELSE settings, form)
      BY <2>3 DEF Overlays
    <3>2. CASE settings = Torn
      BY <3>1, <3>2, DefaultFields, MergeSettingsKeeps DEF DefaultSettings
    <3>3. CASE settings # Torn
      BY <1>1, <1>2, <1>3, <1>5, <3>1, <3>3, MergeSettingsKeeps, ServerWrites
    <3> QED
      BY <3>2, <3>3
  <2> QED
    BY <1>3, <1>5, <2>1, <2>2, <2>3, ServerWrites
<1>6. ASSUME NEW t \in Tasks, Dismiss(t), UNCHANGED library PROVE Fits
  BY <1>1, <1>2, <1>6
  DEF Dismiss, SaveSettings, SaveFails, Fault, Fields, library, End, EndMarked, Inv
<1>7. ASSUME NEW killed, NEW errors \in Nat, Relaunch(killed, errors) PROVE Fits
  <2>1. PICK read \in {settings, Torn} : Launched(read, errors)
    BY <1>7 DEF Relaunch
  <2>2. /\ settings' \in {read, Torn} \/ "picked" \in clash'
        /\ clash \subseteq clash' /\ faults' >= faults + errors
        /\ faults' = 0 => orbsDir' = LibraryOf(IF read = Torn THEN DefaultSettings ELSE read)
    BY <2>1, LaunchWrites DEF Inv
  <2>3. settings' = read /\ settings' # Torn /\ clash \subseteq clash' /\ faults = 0 /\ orbsDir' = LibraryOf(read)
    BY <2>2 DEF Inv
  <2>4. settings' = settings /\ settings.dir = settings.mark /\ settings.mark # None
    BY <2>1, <2>3 DEF LibraryFits
  <2> QED
    BY <2>3, <2>4 DEF LibraryOf
<1>13. ASSUME NEW t \in Tasks, AsideStep(t) PROVE Fits
  <2>1. UNCHANGED <<library, settings>> /\ clash \subseteq clash' /\ faults = 0
    BY <1>13, AsideIs DEF Typed, Framed, Fault, Inv
  <2> QED
    BY <1>2, <2>1 DEF library
<1> USE DEF conf, vars, library, tasks
<1>8. ASSUME NEW t \in Tasks, Issue(t), UNCHANGED <<library, servers>> PROVE Fits
  BY <1>2, <1>8 DEF Issue
<1>9. ASSUME NEW t \in Tasks, Clear(t) \/ Drain(t) \/ Quit(t) PROVE Fits
  BY <1>2, <1>7, <1>9 DEF Clear, Drain, Quit, Goto, GotoMarked
<1>10. ASSUME NEW p \in Pids, Settles(p) \/ Crashes(p), UNCHANGED library PROVE Fits
  BY <1>2, <1>3, <1>10 DEF Settles, Crashes, Fault
<1>11. CASE Kill
  BY <1>7, <1>11 DEF Kill
<1>12. CASE UNCHANGED vars
  BY <1>2, <1>12
<1> QED
  BY <1>4, <1>5, <1>6, <1>8, <1>9, <1>10, <1>11, <1>12, <1>13 DEF Next, TaskStep, AsideStep

(* They are together at first.                                             *)
LEMMA FitInit == Init => LibraryFits
BY DEF Init, InitiallyIn, LibraryFits, DefaultSettings

(* With a bookmark stored, it is that of the stored folder, and imports go *)
(* to that folder.                                                         *)
THEOREM LibraryStaysFit == Spec => []LibraryFits
BY TypedHolds, FitInit, FitStep, PTL DEF Spec
-----------------------------------------------------------------------------
(* Who may be where. Two commands of one area at a time have overlapped;   *)
(* the app is closed once.                                                 *)
Closing(t) == Op(t) = "close"

Alone ==
  /\ \A t \in Tasks : \A u \in Tasks \ {t} : Areas(Op(t)) \cap Areas(Op(u)) \subseteq clash
  /\ \A t \in Tasks : Closing(t) =>
       (\A c \in waiting : c.op # "close") /\ \A u \in Tasks \ {t} : ~Closing(u)

LEMMA CloseIs == ASSUME NEW c \in Commands, c.op = "close" PROVE c = [op |-> "close"]
BY DEF Commands

(* Two commands at a time have been noted when the later one was issued.   *)
LEMMA AloneFrame == ASSUME Alone, NEW t \in Tasks, Framed(t) PROVE Alone'
<1>1. Areas("none") = {}
  BY DEF Areas, Area, Serves
<1>2. \A u \in Tasks : Op(u)' \in {Op(u), "none"}
  BY DEF Framed, Returned, Op
<1>3. \A u \in Tasks : Closing(u)' => Closing(u)
  BY <1>2 DEF Closing
<1> QED
  BY <1>1, <1>2, <1>3 DEF Alone, Framed

LEMMA AloneIssue == ASSUME Alone, TasksTyped, NEW t \in Tasks, Issue(t) PROVE Alone'
<1>1. PICK c \in waiting :
        /\ cmd' = [cmd EXCEPT ![t] = c] /\ waiting' = waiting \ {c}
        /\ clash' = clash \cup {a \in Areas(c.op) : \E u \in Tasks : a \in Areas(Op(u))}
  BY DEF Issue
<1>2. c # None /\ cmd'[t] = c /\ \A u \in Tasks \ {t} : cmd'[u] = cmd[u]
  BY <1>1, CommandIs DEF TasksTyped
<1>3. Op(t)' = c.op /\ \A u \in Tasks \ {t} : Op(u)' = Op(u)
  BY <1>2 DEF Op
<1>4. \A u \in Tasks \ {t} : Areas(c.op) \cap Areas(Op(u)) \subseteq clash'
  BY <1>1
<1>5. \A t1 \in Tasks : \A u \in Tasks \ {t1} : Areas(Op(t1))' \cap Areas(Op(u))' \subseteq clash'
  BY <1>1, <1>3, <1>4 DEF Alone
<1>6. ASSUME c.op = "close" PROVE (\A d \in waiting' : d.op # "close") /\ \A u \in Tasks : ~Closing(u)
  <2>1. waiting \subseteq Commands /\ c \in waiting
    BY <1>1 DEF TasksTyped
  <2> QED
    BY <1>1, <1>6, <2>1, CloseIs DEF Alone
<1>7. \A u \in Tasks : Closing(u)' =>
        (\A d \in waiting' : d.op # "close") /\ \A v \in Tasks \ {u} : ~Closing(v)'
  BY <1>1, <1>3, <1>6 DEF Alone, Closing
<1> QED
  BY <1>5, <1>7 DEF Alone

LEMMA NextAlone == Inv /\ Typed /\ Alone /\ [Next]_vars => Alone'
<1> SUFFICES ASSUME Inv, Typed, Alone, [Next]_vars PROVE Alone'
  OBVIOUS
<1>0. TasksTyped
  BY DEF Typed
<1>1. ASSUME UNCHANGED <<waiting, cmd, clash>> PROVE Alone'
  BY <1>1 DEF Alone, Closing, Op
<1>2. ASSUME NEW killed, NEW errors, Relaunch(killed, errors) PROVE Alone'
  <2>1. \A t \in Tasks : Op(t)' = "none"
    BY <1>2 DEF Relaunch, Gone, Op
  <2> QED
    BY <2>1 DEF Alone, Closing, Areas, Area, Serves
<1>3. ASSUME NEW t \in Tasks, TaskStep(t) PROVE Alone'
  <2>1. ASSUME Dismiss(t) PROVE Framed(t)
    BY <1>0, <2>1, EndIs DEF Dismiss, End
  <2>2. ASSUME Clear(t) \/ Drain(t) PROVE UNCHANGED <<waiting, cmd, clash>>
    BY <2>2 DEF Clear, Drain, Goto, GotoMarked
  <2> QED
    BY <1>0, <1>1, <1>2, <1>3, <2>1, <2>2, LibraryFrame, ServerFrame, AsideIs, AloneFrame
    DEF TaskStep, AsideStep, Quit
<1>4. ASSUME NEW t \in Tasks, AsideStep(t) PROVE Alone'
  BY <1>0, <1>4, AsideIs, AloneFrame
<1> QED
  BY <1>0, <1>1, <1>2, <1>3, <1>4, AloneIssue DEF Next, AsideStep, Kill, Settles, Crashes, tasks, vars

LEMMA InitAlone == Init => Alone
<1>1. Areas("none") = {}
  BY DEF Areas, Area, Serves
<1> QED
  BY <1>1 DEF Init, Alone, Closing, Op

(* An area in which no commands have overlapped has one command at most.   *)
LEMMA OneAtATime ==
  ASSUME Alone, NEW area, Apart(area), NEW t \in Tasks, NEW u \in Tasks, area \in Areas(Op(t)), area \in Areas(Op(u))
  PROVE  t = u
BY DEF Alone, Apart
-----------------------------------------------------------------------------
(* The processes of this launch that no entry of the children map names    *)
(* yet, or any more: those a command has just started, or is shutting down.*)
Carried(t) ==
  IF pc[t] \in PidLabels THEN {loc[t].pid}
  ELSE IF At(t, "close", "exit") THEN loc[t].moved ELSE {}

Held(p) == (\E k \in Keys : children[k] = p) \/ \E t \in Tasks : p \in Carried(t)

(* Each child is under its own key, and gets the one of its command. Only  *)
(* gateways are sent a SIGTERM, and what an earlier launch has left starts *)
(* no more.                                                                *)
KeyOf(t) == IF Op(t) = "start" THEN cmd[t].orb ELSE Gateway

Keyed ==
  /\ \A k \in Keys : children[k] # None => proc[children[k]].key = k
  /\ \A t \in Tasks : pc[t] \in PidLabels => proc[loc[t].pid].key = KeyOf(t)
  /\ \A p \in Pids : /\ proc[p].st = "dying" => proc[p].key = Gateway
                     /\ ~proc[p].here => proc[p].st # "starting"

Kept(p) == proc[p].here /\ Alive(p) => Held(p)

(* No process is lost, unless an Orb is started over its running server.   *)
AllKept == \A p \in Pids : proc[p].key = Gateway \/ "twice" \notin clash => Kept(p)

(* The gateway: with its commands apart, none is sent a SIGTERM that this  *)
(* launch has started, and between these steps none is among the children. *)
GatewayOps == EnsureOps \cup {"stopgw"}
BareLabels == {"load", "probe", "choose", "spawn", "poll", "insert", "adopted"}

GatewayKept ==
  Apart("gateway") =>
    /\ \A p \in Pids : proc[p].here /\ proc[p].key = Gateway => proc[p].st # "dying"
    /\ \A t \in Tasks : \/ At(t, "close", "exit")
                        \/ Op(t) \in GatewayOps /\ pc[t] \in BareLabels
                        => children[Gateway] = None

(* What holds of the processes, all together.                              *)
ServersKept == Keyed /\ AllKept /\ GatewayKept

(* A gateway of this launch, with the commands on it apart.                *)
LEMMA GatewayHeld ==
  ASSUME Typed, ServersKept, Apart("gateway"), NEW p \in Pids, proc[p].here, proc[p].key = Gateway,
         proc[p].st # "dead"
  PROVE  Alive(p) /\ Held(p)
<1>1. Alive(p)
  BY DEF ServersKept, GatewayKept, Alive, Typed, TypeOK, Procs
<1> QED
  BY <1>1 DEF ServersKept, AllKept, Kept

(* Most steps start and stop no process, and put none into the map or out  *)
(* of it.                                                                  *)
Watches(t) ==
  /\ UNCHANGED <<children, proc>>
  /\ pc[t] \notin PidLabels /\ pc'[t] \notin PidLabels
  /\ ~At(t, "close", "exit")
  /\ pc'[t] # "exit"
  /\ Op(t) \in GatewayOps /\ pc'[t] \in BareLabels /\ Apart("gateway") => children[Gateway] = None

LEMMA WatchingKeeps ==
  ASSUME ServersKept, NEW t \in Tasks, Framed(t), Watches(t)
  PROVE  ServersKept'
<1>1. \A u \in Tasks \ {t} : Op(u)' = Op(u) /\ Carried(u)' = Carried(u) /\ KeyOf(u)' = KeyOf(u)
  BY DEF Framed, Op, Carried, KeyOf, At
<1>2. Op(t)' \in {Op(t), "none"} /\ Carried(t) = {}
  BY DEF Framed, Returned, Op, Watches, Carried
<1>3. Keyed'
  BY <1>1 DEF Keyed, ServersKept, Watches, Framed
<1>4. ASSUME NEW p \in Pids, Kept(p) PROVE Kept(p)'
  <2>1. Held(p) => Held(p)'
    BY <1>1, <1>2 DEF Held, Watches
  <2> QED
    BY <1>4, <2>1 DEF Kept, Alive, Watches
<1>5. AllKept'
  BY <1>4 DEF AllKept, ServersKept, Watches, Framed
<1>6. GatewayKept'
  <2> SUFFICES ASSUME Apart("gateway")' PROVE GatewayKept'
    BY DEF GatewayKept
  <2>1. Apart("gateway")
    BY DEF Apart, Framed
  <2>2. \A u \in Tasks \ {t} : At(u, "close", "exit")' \/ (Op(u) \in GatewayOps /\ pc[u] \in BareLabels)'
          => children'[Gateway] = None
    BY <1>1, <2>1 DEF GatewayKept, ServersKept, Watches, Framed, At
  <2>3. At(t, "close", "exit")' \/ (Op(t) \in GatewayOps /\ pc[t] \in BareLabels)' => children'[Gateway] = None
    BY <1>2, <2>1 DEF Watches, At, GatewayOps, EnsureOps
  <2> QED
    BY <2>1, <2>2, <2>3 DEF GatewayKept, ServersKept, Watches
<1> QED
  BY <1>3, <1>5, <1>6 DEF ServersKept

LEMMA LibraryWatches ==
  ASSUME TasksTyped, NEW t \in Tasks, LibraryStep(t), UNCHANGED servers
  PROVE  Watches(t)
<1>0. UNCHANGED <<children, proc>>
  BY DEF servers
<1>1. /\ pc[t] \notin PidLabels /\ pc'[t] \notin PidLabels /\ pc'[t] # "exit"
      /\ Op(t) \notin GatewayOps \cup {"close"}
  <2> USE GotoIs, EndIs DEF TasksTyped, Goto, End, Abort, At, Applying, ApplyOps, PidLabels, Returned, GatewayOps, EnsureOps
  <2>1. CASE ImportCheck(t)
    BY <2>1 DEF ImportCheck
  <2>2. CASE ImportOpen(t)
    BY <2>2 DEF ImportOpen
  <2>3. CASE ImportFilled(t)
    BY <2>3 DEF ImportFilled
  <2>4. CASE ImportLoad(t)
    BY <2>4 DEF ImportLoad, Load
  <2>5. CASE ImportSave(t)
    BY <2>5 DEF ImportSave
  <2>6. CASE RemoveLoad(t)
    BY <2>6 DEF RemoveLoad, Load
  <2>7. CASE RemoveUnlink(t)
    BY <2>7 DEF RemoveUnlink
  <2>8. CASE RemoveSave(t)
    BY <2>8 DEF RemoveSave
  <2>9. CASE PickDecide(t)
    BY <2>9 DEF PickDecide
  <2>10. CASE PickAdopt(t)
    BY <2>10 DEF PickAdopt
  <2>11. CASE CancelChange(t)
    BY <2>11 DEF CancelChange
  <2>12. CASE ApplyBegin(t)
    BY <2>12 DEF ApplyBegin
  <2>13. CASE ApplyResolve(t)
    BY <2>13 DEF ApplyResolve
  <2>14. CASE ApplyTargets(t)
    BY <2>14 DEF ApplyTargets, FirstLabel
  <2>15. CASE MoveOne(t)
    BY <2>15 DEF MoveOne, Moved, MoveFails
  <2>16. CASE MoveCopied(t)
    BY <2>16 DEF MoveCopied, MoveFails
  <2>17. CASE MoveUnlink(t)
    BY <2>17 DEF MoveUnlink, Moved, MoveFails
  <2>18. CASE Rollback(t)
    BY <2>18 DEF Rollback
  <2>19. CASE MigrateSave(t)
    BY <2>19 DEF MigrateSave, Saved
  <2>20. CASE EraseOne(t)
    BY <2>20 DEF EraseOne
  <2>21. CASE EraseSave(t)
    BY <2>21 DEF EraseSave, Saved
  <2>22. CASE Adopt(t)
    BY <2>22 DEF Adopt
  <2> QED
    BY <2>1, <2>2, <2>3, <2>4, <2>5, <2>6, <2>7, <2>8, <2>9, <2>10, <2>11, <2>12, <2>13, <2>14,
       <2>15, <2>16, <2>17, <2>18, <2>19, <2>20, <2>21, <2>22
    DEF LibraryStep
<1> QED
  BY <1>0, <1>1 DEF Watches, At

(* What a step of t leaves to the other commands.                          *)
LEMMA OthersCarry ==
  ASSUME NEW t \in Tasks, Framed(t), NEW u \in Tasks \ {t}
  PROVE  /\ Op(u)' = Op(u) /\ Carried(u)' = Carried(u) /\ KeyOf(u)' = KeyOf(u)
         /\ pc'[u] = pc[u] /\ loc'[u] = loc[u] /\ cmd'[u] = cmd[u]
BY DEF Framed, Op, Carried, KeyOf, At

(* Which areas a command is in.                                            *)
LEMMA AreasAre ==
  ASSUME NEW t \in Tasks
  PROVE  /\ Op(t) \in GatewayOps \cup {"close", "status"} => "gateway" \in Areas(Op(t))
         /\ Op(t) \in {"start", "stop", "remove", "batch", "close"} => "servers" \in Areas(Op(t))
         /\ Op(t) \in LibraryOps \cup {"close"} => "library" \in Areas(Op(t))
BY DEF Areas, Area, Serves, GatewayOps, EnsureOps, LibraryOps

LEMMA ServerWatches ==
  ASSUME Typed, GatewayKept, NEW t \in Tasks,
         \/ StartLookup(t, Installed) \/ StartSettings(t) \/ StartList(t) \/ Unlist(t) \/ BatchSettings(t)
         \/ BatchLock(t) \/ EnsureEnter(t) \/ EnsureLoad(t) \/ EnsureProbe(t) \/ EnsureReuse(t) \/ EnsureChoose(t)
         \/ StatusLoad(t) \/ ResetToken(t) \/ SaveForm(t)
  PROVE  Watches(t)
<1> USE GotoIs, EndIs DEF Typed, TasksTyped, Goto, End, At, Ensuring, PidLabels, BareLabels, Returned, Watches,
      GatewayOps, EnsureOps, servers
<1>1. CASE StartLookup(t, Installed)
  BY <1>1 DEF StartLookup
<1>2. CASE StartSettings(t)
  BY <1>2 DEF StartSettings
<1>5. CASE StartList(t)
  BY <1>5 DEF StartList
<1>6. CASE Unlist(t)
  BY <1>6 DEF Unlist
<1>8. CASE BatchSettings(t) \/ BatchLock(t)
  BY <1>8 DEF BatchSettings, BatchLock
<1>10. CASE EnsureEnter(t)
  BY <1>10 DEF EnsureEnter, GatewayRuns
<1>11. CASE EnsureLoad(t)
  BY <1>11 DEF EnsureLoad, GatewayKept
<1>12. CASE EnsureProbe(t)
  BY <1>12 DEF EnsureProbe, GatewayKept
<1>13. CASE EnsureReuse(t)
  BY <1>13 DEF EnsureReuse
<1>14. CASE EnsureChoose(t)
  BY <1>14 DEF EnsureChoose, GatewayKept
<1>18. CASE StatusLoad(t)
  BY <1>18 DEF StatusLoad
<1>22. CASE ResetToken(t)
  BY <1>22 DEF ResetToken
<1>23. CASE SaveForm(t)
  BY <1>23 DEF SaveForm
<1> QED
  BY <1>1, <1>2, <1>5, <1>6, <1>8, <1>10, <1>11, <1>12, <1>13, <1>14, <1>18, <1>22, <1>23

(* A process that has been started is with the command that started it.    *)
LEMMA SpawnKeeps ==
  ASSUME Typed, ServersKept, NEW t \in Tasks, NEW port, NEW key \in Keys, NEW label \in PidLabels,
         Spawned(t, port, key), Goto(t, label), key = KeyOf(t), UNCHANGED children,
         pc[t] \notin PidLabels, ~At(t, "close", "exit"),
         Op(t) \in GatewayOps /\ Apart("gateway") => children[Gateway] = None
  PROVE  ServersKept'
<1> DEFINE new == Fresh
<1>1. /\ new \in Pids /\ new \in Unused
      /\ proc' = [proc EXCEPT ![new] = Process(key, port, loc[t].token, loc[t].binding)]
      /\ loc' = [loc EXCEPT ![t].pid = new]
  BY FreshIs DEF Spawned
<1> HIDE DEF new
<1>2. Framed(t) /\ pc'[t] = label /\ cmd'[t] = cmd[t]
  BY <1>1, GotoIs DEF Goto, Typed, TasksTyped
<1>3. loc'[t].pid = new
  BY <1>1, LocalNames DEF Typed, TasksTyped, LocalsOf
<1>4. /\ proc'[new].key = key /\ proc'[new].st = "starting" /\ proc'[new].here
      /\ \A p \in Pids \ {new} : proc'[p] = proc[p]
  BY <1>1 DEF Process, Typed, TypeOK
<1>5. (\A k \in Keys : children[k] # new) /\ \A u \in Tasks : loc[u].pid # new
  BY <1>1 DEF Unused
<1>6. Op(t)' = Op(t) /\ KeyOf(t)' = KeyOf(t) /\ Carried(t) = {} /\ Carried(t)' = {new}
  BY <1>2, <1>3 DEF Op, KeyOf, Carried
<1>7. \A u \in Tasks \ {t} : Op(u)' = Op(u) /\ Carried(u)' = Carried(u) /\ KeyOf(u)' = KeyOf(u)
                             /\ pc'[u] = pc[u] /\ loc'[u] = loc[u]
  BY <1>2, OthersCarry
<1>8. Keyed'
  <2>1. \A k \in Keys : children'[k] # None => proc'[children'[k]].key = k
    BY <1>4, <1>5 DEF ServersKept, Keyed, Typed, TypeOK
  <2>2. \A u \in Tasks : pc'[u] \in PidLabels => proc'[loc'[u].pid].key = KeyOf(u)'
    BY <1>2, <1>3, <1>4, <1>5, <1>6, <1>7 DEF ServersKept, Keyed, Typed, TasksTyped, LocalsOf
  <2>3. \A p \in Pids : (proc'[p].st = "dying" => proc'[p].key = Gateway) /\ (~proc'[p].here => proc'[p].st # "starting")
    BY <1>4 DEF ServersKept, Keyed
  <2> QED
    BY <2>1, <2>2, <2>3 DEF Keyed
<1>9. ASSUME NEW p \in Pids, p = new \/ Kept(p) PROVE Kept(p)'
  BY <1>4, <1>6, <1>7, <1>9 DEF Kept, Alive, Held
<1>11. pc'[t] # "exit"
  BY <1>2 DEF PidLabels
<1>12. AllKept'
  BY <1>2, <1>4, <1>9 DEF AllKept, ServersKept, Framed
<1>13. GatewayKept'
  BY <1>2, <1>4, <1>6, <1>7, <1>11 DEF GatewayKept, ServersKept, Apart, At, Framed
<1> QED
  BY <1>8, <1>12, <1>13 DEF ServersKept

(* What is killed or sent a SIGTERM keeps its key.                         *)
LEMMA KilledIs ==
  ASSUME proc \in Tables, NEW pids, NEW p \in Pids
  PROVE  /\ Killed(pids)[p].key = proc[p].key /\ Killed(pids)[p].here = proc[p].here
         /\ Killed(pids)[p].token = proc[p].token /\ Killed(pids)[p].binding = proc[p].binding
         /\ Killed(pids)[p].port = proc[p].port
         /\ Killed(pids)[p].st = IF p \in pids THEN "dead" ELSE proc[p].st
BY DEF Killed, Tables, Procs

LEMMA ServerKept ==
  ASSUME Typed, Alone, ServersKept, NEW t \in Tasks, ServerStep(t, Installed), UNCHANGED library
  PROVE  ServersKept'
<1>0. /\ Framed(t) /\ LocalsOf(t) /\ proc \in Tables /\ (cmd[t] # None => cmd[t] \in Commands)
      /\ clash \subseteq clash' /\ None \notin Pids /\ Gateway \notin Orbs /\ Keys = Orbs \cup {Gateway}
      /\ Gateway # None
  BY ServerFrame, ServerConstants DEF Typed, TypeOK, TasksTyped, Tables, Framed, Keys, ServerConstants
<1>a. \A area : Apart(area)' => Apart(area)
  BY <1>0 DEF Apart
<1>b. "twice" \notin clash' => "twice" \notin clash
  BY <1>0
<1>o. \A u \in Tasks \ {t} : Op(u)' = Op(u) /\ Carried(u)' = Carried(u) /\ KeyOf(u)' = KeyOf(u)
                             /\ pc'[u] = pc[u] /\ loc'[u] = loc[u]
  BY <1>0, OthersCarry
<1>w. Watches(t) => ServersKept'
  BY <1>0, WatchingKeeps
<1>k. ASSUME \A p \in Pids : proc'[p].key = proc[p].key /\ proc'[p].here = proc[p].here
                             /\ proc'[p].st \in {proc[p].st, "dead"},
             \A k \in Keys : children'[k] \in {children[k], None},
             pc'[t] \in PidLabels => pc[t] \in PidLabels /\ loc'[t].pid = loc[t].pid /\ KeyOf(t)' = KeyOf(t)
      PROVE  Keyed'
  <2>1. \A k \in Keys : children[k] # None => children[k] \in Pids
    BY DEF Typed, TypeOK
  <2>2. \A u \in Tasks : pc[u] \in PidLabels => loc[u].pid \in Pids
    BY DEF Typed, TasksTyped, LocalsOf
  <2> QED
    BY <1>k, <1>o, <2>1, <2>2 DEF Keyed, ServersKept
<1>1. CASE StartLookup(t, Installed) \/ StartSettings(t) \/ StartList(t) \/ Unlist(t) \/ BatchSettings(t)
         \/ BatchLock(t) \/ EnsureEnter(t) \/ EnsureLoad(t) \/ EnsureProbe(t) \/ EnsureReuse(t) \/ EnsureChoose(t)
         \/ StatusLoad(t) \/ ResetToken(t) \/ SaveForm(t)
  BY <1>1, <1>w, ServerWatches DEF ServersKept
<1>3. CASE StartSpawn(t)
  <2>0. At(t, "start", "spawn") /\ UNCHANGED children /\ cmd[t].orb \in Keys /\ KeyOf(t) = cmd[t].orb
    BY <1>0, <1>3, CommandIs DEF StartSpawn, At, Op, KeyOf, OrbOps
  <2>1. CASE End(t) /\ UNCHANGED proc
    <3>1. Watches(t)
      BY <1>0, <2>0, <2>1, EndIs DEF End, Typed, Watches, PidLabels, At, Returned, BareLabels
    <3> QED
      BY <3>1, <1>w
  <2>2. ASSUME NEW port, Spawned(t, port, cmd[t].orb), Goto(t, "insert") PROVE ServersKept'
    BY <2>0, <2>2, SpawnKeeps DEF At, PidLabels, GatewayOps, EnsureOps
  <2> QED
    BY <1>3, <2>1, <2>2 DEF StartSpawn
<1>4. CASE StartInsert(t)
  <2> DEFINE orb == cmd[t].orb
             pid == loc[t].pid
  <2>0. /\ At(t, "start", "insert") /\ orb \in Orbs /\ KeyOf(t) = orb /\ pid \in Pids
        /\ children' = [children EXCEPT ![orb] = pid] /\ UNCHANGED <<proc, loc>>
        /\ "twice" \notin clash' => ~Overwrites(orb)
        /\ pc'[t] = "list" /\ Carried(t) = {pid} /\ Carried(t)' = {} /\ Op(t)' = Op(t)
    <3>1. At(t, "start", "insert") /\ UNCHANGED <<proc, loc>> /\ children' = [children EXCEPT ![orb] = pid]
      BY <1>4 DEF StartInsert
    <3>2. pc'[t] = "list" /\ cmd'[t] = cmd[t]
      BY <1>4, GotoIs DEF StartInsert, Typed
    <3>3. "twice" \notin clash' => ~Overwrites(orb)
      BY <1>4 DEF StartInsert, GotoMarked
    <3>4. orb \in Orbs /\ KeyOf(t) = orb
      BY <1>0, <3>1, CommandIs DEF At, Op, KeyOf, OrbOps
    <3> QED
      BY <1>0, <3>1, <3>2, <3>3, <3>4 DEF At, Op, Carried, PidLabels, LocalsOf
  <2> HIDE DEF orb, pid
  <2>1. children'[orb] = pid /\ \A k \in Keys \ {orb} : children'[k] = children[k]
    BY <1>0, <2>0 DEF Typed, TypeOK
  <2>2. proc[pid].key = orb
    BY <2>0 DEF ServersKept, Keyed, At, PidLabels, pid
  <2>3. Keyed'
    BY <1>o, <2>0, <2>1, <2>2 DEF ServersKept, Keyed, PidLabels
  <2>4. ASSUME NEW p \in Pids, Kept(p), p # children[orb] PROVE Kept(p)'
    BY <1>0, <1>o, <2>0, <2>1, <2>4 DEF Kept, Held, Alive
  <2>5. AllKept'
    <3> SUFFICES ASSUME NEW p \in Pids, proc'[p].key = Gateway \/ "twice" \notin clash' PROVE Kept(p)'
      BY DEF AllKept
    <3>1. Kept(p)
      BY <1>0, <2>0 DEF AllKept, ServersKept
    <3>2. CASE p = children[orb]
      <4>1. proc[p].key = orb
        BY <1>0, <2>0, <3>2 DEF Keyed, ServersKept
      <4>2. ~Alive(p)
        BY <1>0, <2>0, <3>2, <4>1 DEF Overwrites
      <4> QED
        BY <2>0, <4>2 DEF Kept, Alive
    <3> QED
      BY <2>4, <3>1, <3>2
  <2>6. GatewayKept'
    <3> SUFFICES ASSUME Apart("gateway")' PROVE GatewayKept'
      BY DEF GatewayKept
    <3>1. children'[Gateway] = children[Gateway] /\ Op(t)' \notin GatewayOps /\ pc'[t] # "exit"
      BY <1>0, <2>0, <2>1 DEF At, GatewayOps, EnsureOps
    <3> QED
      BY <1>a, <1>o, <2>0, <3>1 DEF GatewayKept, ServersKept, At
  <2> QED
    BY <2>3, <2>5, <2>6 DEF ServersKept
<1>7. CASE StopChild(t)
  <2> DEFINE orb == cmd[t].orb
             pid == children[orb]
  <2>0. /\ Op(t) \in {"stop", "remove"} /\ pc[t] = "unlisted" /\ orb \in Orbs
        /\ children' = [children EXCEPT ![orb] = None] /\ proc' = Killed({pid})
        /\ pc'[t] \in {"idle", "stopped"} /\ Op(t)' \in {"stop", "remove", "none"}
    <3>1. /\ Op(t) \in {"stop", "remove"} /\ pc[t] = "unlisted"
          /\ children' = [children EXCEPT ![orb] = None] /\ proc' = Killed({pid})
      BY <1>7 DEF StopChild
    <3>2. pc'[t] \in {"idle", "stopped"}
      BY <1>7, GotoIs, EndIs DEF StopChild, Goto, End, Typed, Returned
    <3>3. orb \in Orbs
      BY <1>0, <3>1, CommandIs DEF Op, OrbOps
    <3>4. Op(t)' \in {Op(t), "none"}
      BY <1>0 DEF Framed, Returned, Op
    <3> QED
      BY <3>1, <3>2, <3>3, <3>4
  <2> HIDE DEF orb, pid
  <2>1. children'[orb] = None /\ \A k \in Keys \ {orb} : children'[k] = children[k]
    BY <1>0, <2>0 DEF Typed, TypeOK
  <2>2. \A p \in Pids : /\ proc'[p].key = proc[p].key /\ proc'[p].here = proc[p].here
                        /\ proc'[p].st = IF p = pid THEN "dead" ELSE proc[p].st
    BY <1>0, <2>0, KilledIs
  <2>3. Keyed'
    BY <1>k, <1>0, <2>0, <2>1, <2>2 DEF PidLabels
  <2>4. ASSUME NEW p \in Pids, Kept(p) PROVE Kept(p)'
    <3>1. CASE p = pid
      BY <2>2, <3>1 DEF Kept, Alive
    <3>2. CASE p # pid
      <4>1. Carried(t) = {}
        BY <2>0 DEF Carried, At, PidLabels
      <4>2. Held(p) => Held(p)'
        BY <1>o, <2>0, <2>1, <3>2, <4>1 DEF Held, pid
      <4> QED
        BY <2>2, <2>4, <3>2, <4>2 DEF Kept, Alive
    <3> QED
      BY <3>1, <3>2
  <2>5. AllKept'
    BY <1>b, <2>2, <2>4 DEF AllKept, ServersKept
  <2>6. GatewayKept'
    <3>1. children'[Gateway] = children[Gateway] /\ Op(t)' \notin GatewayOps /\ pc'[t] # "exit"
      BY <1>0, <2>0, <2>1 DEF GatewayOps, EnsureOps
    <3> QED
      BY <1>a, <1>o, <2>2, <3>1 DEF GatewayKept, ServersKept, At
  <2> QED
    BY <2>3, <2>5, <2>6 DEF ServersKept
<1>9. CASE BatchLaunch(t, Installed)
  <2> DEFINE new == BatchNew(cmd[t].orbs, Installed)
             port(o) == BatchPort(t, cmd[t].orbs, Place(cmd[t].orbs, o), Installed)
             pid == CHOOSE f \in [new -> Unused] : IsInjective(f)
             few == Cardinality(new) > Cardinality(Unused) \/ \E o \in new : port(o) \notin Ports
  <2>1. new \in SUBSET Orbs /\ \A o \in new : children[o] = None
    BY EntryIs DEF BatchNew, Typed, TypeOK, Installed
  <2>2. ~few => pid \in [new -> Unused] /\ IsInjective(pid)
    <3>1. Unused \subseteq Pids
      BY DEF Unused
    <3>2. IsFiniteSet(Orbs) /\ IsFiniteSet(Pids) /\ Unused \in SUBSET Pids
      BY <3>1, RunnerConstants, ServerConstants DEF RunnerConstants, ServerConstants
    <3>3. Cardinality(new) \in Nat /\ Cardinality(Unused) \in Nat
      BY <2>1, <3>2, FS_Subset, FS_CardinalityType
    <3> QED
      BY <2>1, <3>3, PidsDiffer
  <2> HIDE DEF new, port, pid
  <2>3. At(t, "batch", "holding") /\ Returned(t)
    BY <1>9, EndIs DEF BatchLaunch, End, Typed
  <2>4. CASE few
    <3>1. UNCHANGED <<children, proc>>
      BY <1>9, <2>4 DEF BatchLaunch, new, port
    <3>2. Watches(t)
      BY <2>3, <3>1 DEF Watches, PidLabels, At, Returned, BareLabels
    <3> QED
      BY <3>2, <1>w
  <2>5. CASE ~few
    <3>1. /\ children' = [k \in Keys |-> IF k \in new THEN pid[k] ELSE children[k]]
          /\ proc' = [p \in Pids |->
               IF \E o \in new : pid[o] = p
                 THEN LET o == CHOOSE x \in new : pid[x] = p IN Process(o, port(o), 0, loc[t].binding)
                 ELSE proc[p]]
      BY <1>9, <2>5 DEF BatchLaunch, new, port, pid
    <3>2. ASSUME NEW o \in new
          PROVE  /\ pid[o] \in Pids /\ proc'[pid[o]].key = o /\ proc'[pid[o]].st = "starting" /\ proc'[pid[o]].here
                 /\ children'[o] = pid[o]
      <4>1. pid[o] \in Pids
        BY <2>2, <2>5 DEF Unused
      <4>2. (CHOOSE x \in new : pid[x] = pid[o]) = o
        BY <2>2, <2>5 DEF IsInjective
      <4>3. proc'[pid[o]] = Process(o, port(o), 0, loc[t].binding)
        BY <3>1, <4>1, <4>2
      <4> QED
        BY <1>0, <2>1, <3>1, <4>1, <4>3 DEF Process
    <3>3. ASSUME NEW p \in Pids, ~\E o \in new : pid[o] = p PROVE proc'[p] = proc[p]
      BY <3>1, <3>3
    <3>4. \A o \in new : (\A k \in Keys : children[k] # pid[o]) /\ \A u \in Tasks : loc[u].pid # pid[o]
      BY <2>2, <2>5 DEF Unused
    <3>5. \A k \in Keys \ new : children'[k] = children[k]
      BY <3>1
    <3>6. Keyed'
      <4>1. ASSUME NEW k \in Keys, children'[k] # None PROVE proc'[children'[k]].key = k
        <5>1. CASE k \in new
          BY <3>2, <5>1
        <5>2. CASE k \notin new
          <6>1. children'[k] = children[k] /\ children[k] \in Pids
            BY <3>5, <4>1, <5>2 DEF Typed, TypeOK
          <6>2. proc'[children[k]] = proc[children[k]]
            BY <3>3, <3>4, <6>1
          <6> QED
            BY <4>1, <6>1, <6>2 DEF Keyed, ServersKept
        <5> QED
          BY <5>1, <5>2
      <4>2. ASSUME NEW u \in Tasks, pc'[u] \in PidLabels PROVE proc'[loc'[u].pid].key = KeyOf(u)'
        <5>1. u # t /\ loc[u].pid \in Pids /\ pc[u] \in PidLabels
          BY <1>o, <2>3, <4>2 DEF Returned, PidLabels, Typed, TasksTyped, LocalsOf
        <5>2. proc'[loc[u].pid] = proc[loc[u].pid]
          BY <3>3, <3>4, <5>1
        <5> QED
          BY <1>o, <5>1, <5>2 DEF Keyed, ServersKept
      <4>3. ASSUME NEW p \in Pids
            PROVE  (proc'[p].st = "dying" => proc'[p].key = Gateway) /\ (~proc'[p].here => proc'[p].st # "starting")
        BY <3>2, <3>3 DEF Keyed, ServersKept
      <4> QED
        BY <4>1, <4>2, <4>3 DEF Keyed
    <3>7. ASSUME NEW p \in Pids, Kept(p) PROVE Kept(p)'
      <4>1. CASE \E o \in new : pid[o] = p
        BY <1>0, <2>1, <3>2, <4>1 DEF Kept, Alive, Held
      <4>2. CASE ~\E o \in new : pid[o] = p
        <5>1. proc'[p] = proc[p]
          BY <3>3, <4>2
        <5>2. ASSUME Held(p) PROVE Held(p)'
          <6>1. ASSUME NEW k \in Keys, children[k] = p PROVE children'[k] = p
            BY <1>0, <2>1, <3>5, <6>1
          <6>2. Carried(t) = {}
            BY <2>3 DEF Carried, At, PidLabels
          <6> QED
            BY <1>o, <5>2, <6>1, <6>2 DEF Held
        <5> QED
          BY <3>7, <5>1, <5>2 DEF Kept, Alive
      <4> QED
        BY <4>1, <4>2
    <3>8. ASSUME NEW p \in Pids, \E o \in new : pid[o] = p PROVE Kept(p)' /\ proc'[p].key # Gateway
      BY <1>0, <2>1, <3>2, <3>8 DEF Kept, Alive, Held
    <3>9. AllKept'
      BY <1>b, <3>3, <3>7, <3>8 DEF AllKept, ServersKept
    <3>10. GatewayKept'
      <4> SUFFICES ASSUME Apart("gateway")' PROVE GatewayKept'
        BY DEF GatewayKept
      <4>1. Apart("gateway") /\ children'[Gateway] = children[Gateway]
        BY <1>0, <1>a, <2>1, <3>5
      <4>2. \A p \in Pids : proc'[p].key = Gateway => proc'[p] = proc[p]
        BY <3>3, <3>8
      <4>3. pc'[t] = "idle"
        BY <2>3 DEF Returned
      <4> QED
        BY <1>o, <4>1, <4>2, <4>3 DEF GatewayKept, ServersKept, At, BareLabels
    <3> QED
      BY <3>6, <3>9, <3>10 DEF ServersKept
  <2> QED
    BY <2>4, <2>5
<1>15. CASE EnsureSpawn(t)
  <2>0. Ensuring(t, "spawn") /\ UNCHANGED children
    BY <1>15 DEF EnsureSpawn
  <2>1. CASE End(t) /\ UNCHANGED proc
    <3>1. Watches(t)
      BY <1>0, <2>0, <2>1, EndIs DEF End, Typed, Watches, PidLabels, At, Ensuring, Returned, BareLabels
    <3> QED
      BY <3>1, <1>w
  <2>2. ASSUME Spawned(t, loc[t].port, Gateway), Goto(t, "poll") PROVE ServersKept'
    <3>1. Apart("gateway") => children[Gateway] = None
      BY <2>0 DEF Ensuring, GatewayKept, ServersKept, GatewayOps, EnsureOps, BareLabels
    <3>2. KeyOf(t) = Gateway /\ pc[t] \notin PidLabels /\ ~At(t, "close", "exit") /\ Gateway \in Keys
      BY <1>0, <2>0 DEF Ensuring, KeyOf, PidLabels, At
    <3>3. "poll" \in PidLabels
      BY DEF PidLabels
    <3> QED
      BY <2>0, <2>2, <3>1, <3>2, <3>3, SpawnKeeps
  <2> QED
    BY <1>15, <2>1, <2>2 DEF EnsureSpawn
<1>16. CASE EnsurePoll(t)
  <2> DEFINE pid == loc[t].pid
  <2>0. Ensuring(t, "poll") /\ UNCHANGED children /\ pid \in Pids /\ Carried(t) = {pid} /\ KeyOf(t) = Gateway
        /\ proc[pid].key = Gateway
    BY <1>0, <1>16 DEF EnsurePoll, Ensuring, LocalsOf, PidLabels, Carried, KeyOf, ServersKept, Keyed
  <2>1. CASE Goto(t, "insert") /\ UNCHANGED <<loc, proc>>
    <3>1. pc'[t] = "insert" /\ cmd'[t] = cmd[t]
      BY <2>1, GotoIs DEF Goto, Typed
    <3>2. Op(t)' = Op(t) /\ Carried(t)' = {pid} /\ KeyOf(t)' = Gateway
      BY <2>0, <2>1, <3>1 DEF Op, Carried, KeyOf, PidLabels
    <3>3. Keyed'
      BY <1>k, <2>0, <2>1, <3>2 DEF Ensuring, PidLabels
    <3>4. ASSUME NEW p \in Pids, Kept(p) PROVE Kept(p)'
      BY <1>o, <2>0, <2>1, <3>2, <3>4 DEF Kept, Held, Alive
    <3>5. AllKept'
      BY <1>b, <2>1, <3>4 DEF AllKept, ServersKept
    <3>6. GatewayKept'
      BY <1>0, <1>a, <1>o, <2>0, <2>1, <3>1, <3>2 DEF GatewayKept, ServersKept, At, Ensuring, BareLabels, GatewayOps, EnsureOps
    <3> QED
      BY <3>3, <3>5, <3>6 DEF ServersKept
  <2>2. CASE proc' = Killed({pid}) /\ End(t)
    <3>1. Returned(t) /\ Op(t)' = "none" /\ Carried(t)' = {}
      BY <2>2, EndIs DEF End, Typed, Returned, Op, Carried, PidLabels, At
    <3>2. \A p \in Pids : /\ proc'[p].key = proc[p].key /\ proc'[p].here = proc[p].here
                          /\ proc'[p].st = IF p = pid THEN "dead" ELSE proc[p].st
      BY <1>0, <2>2, KilledIs
    <3>3. Keyed'
      BY <1>k, <2>0, <3>1, <3>2 DEF PidLabels, Returned
    <3>4. ASSUME NEW p \in Pids, Kept(p) PROVE Kept(p)'
      BY <1>0, <1>o, <2>0, <3>1, <3>2, <3>4 DEF Kept, Held, Alive
    <3>5. AllKept'
      BY <1>b, <3>2, <3>4 DEF AllKept, ServersKept
    <3>6. GatewayKept'
      BY <1>0, <1>a, <1>o, <2>0, <3>1, <3>2 DEF GatewayKept, ServersKept, At, GatewayOps, EnsureOps
    <3> QED
      BY <3>3, <3>5, <3>6 DEF ServersKept
  <2> QED
    BY <1>16, <2>1, <2>2 DEF EnsurePoll, GivenUp
<1>17. CASE EnsureInsert(t)
  <2> DEFINE pid == loc[t].pid
             old == children[Gateway]
  <2>0. /\ Ensuring(t, "insert") /\ pid \in Pids /\ Carried(t) = {pid} /\ KeyOf(t) = Gateway
        /\ proc[pid].key = Gateway /\ children' = [children EXCEPT ![Gateway] = pid] /\ proc' = Killed({old})
        /\ pc'[t] \in {"idle", "reuse"} /\ Carried(t)' = {}
    <3>1. pc'[t] \in {"idle", "reuse"}
      BY <1>17, GotoIs, EndIs DEF EnsureInsert, Goto, End, Typed, Returned
    <3> QED
      BY <1>0, <1>17, <3>1 DEF EnsureInsert, Ensuring, LocalsOf, PidLabels, Carried, KeyOf, ServersKept, Keyed, At
  <2> HIDE DEF old, pid
  <2>1. children'[Gateway] = pid /\ \A k \in Keys \ {Gateway} : children'[k] = children[k]
    BY <1>0, <2>0 DEF Typed, TypeOK
  <2>2. \A p \in Pids : /\ proc'[p].key = proc[p].key /\ proc'[p].here = proc[p].here
                        /\ proc'[p].st = IF p = old THEN "dead" ELSE proc[p].st
    BY <1>0, <2>0, KilledIs
  <2>3. Keyed'
    <3>1. ASSUME NEW k \in Keys, children'[k] # None PROVE proc'[children'[k]].key = k
      <4>1. CASE k = Gateway
        BY <2>0, <2>1, <2>2, <4>1
      <4>2. CASE k # Gateway
        <5>1. children'[k] = children[k] /\ children[k] \in Pids
          BY <2>1, <3>1, <4>2 DEF Typed, TypeOK
        <5> QED
          BY <2>2, <3>1, <5>1 DEF Keyed, ServersKept
      <4> QED
        BY <4>1, <4>2
    <3>2. \A u \in Tasks : pc'[u] \in PidLabels => u # t /\ pc[u] \in PidLabels /\ loc[u].pid \in Pids
      BY <1>o, <2>0 DEF PidLabels, Typed, TasksTyped, LocalsOf
    <3> QED
      BY <1>o, <2>2, <3>1, <3>2 DEF Keyed, ServersKept
  <2>4. ASSUME NEW p \in Pids, Kept(p) PROVE Kept(p)'
    <3>1. CASE p = old
      BY <2>2, <3>1 DEF Kept, Alive
    <3>2. CASE p # old
      <4>1. ASSUME Held(p) PROVE Held(p)'
        BY <1>0, <1>o, <2>0, <2>1, <3>2, <4>1 DEF Held, old
      <4> QED
        BY <2>2, <2>4, <3>2, <4>1 DEF Kept, Alive
    <3> QED
      BY <3>1, <3>2
  <2>5. AllKept'
    BY <1>b, <2>2, <2>4 DEF AllKept, ServersKept
  <2>6. GatewayKept'
    <3> SUFFICES ASSUME Apart("gateway")' PROVE GatewayKept'
      BY DEF GatewayKept
    <3>1. Apart("gateway") /\ \A p \in Pids : proc'[p].here /\ proc'[p].key = Gateway => proc'[p].st # "dying"
      BY <1>a, <2>2 DEF GatewayKept, ServersKept
    <3>2. "gateway" \in Areas(Op(t))
      BY <2>0, AreasAre DEF Ensuring, GatewayOps, EnsureOps
    <3>3. \A u \in Tasks \ {t} : ~At(u, "close", "exit")' /\ Op(u)' \notin GatewayOps
      BY <1>o, <3>1, <3>2, AreasAre, OneAtATime DEF At
    <3> QED
      BY <2>0, <3>1, <3>3 DEF GatewayKept, At, BareLabels
  <2> QED
    BY <2>3, <2>5, <2>6 DEF ServersKept
<1>19. CASE StatusReap(t)
  <2> DEFINE old == children[Gateway]
  <2>0. /\ pc[t] = "reap" /\ Op(t) \in EnsureOps \cup {"status"} /\ Returned(t) /\ Op(t)' = "none" /\ UNCHANGED proc
        /\ Carried(t) = {} /\ Carried(t)' = {}
        /\ children' = IF GatewayRuns /\ Alive(old) THEN children ELSE [children EXCEPT ![Gateway] = None]
    BY <1>19, EndIs DEF StatusReap, End, Typed, Returned, EnsureOps, Op, Carried, PidLabels, At
  <2> HIDE DEF old
  <2>1. \A k \in Keys : children'[k] = IF k = Gateway /\ ~(GatewayRuns /\ Alive(old)) THEN None ELSE children[k]
    BY <1>0, <2>0 DEF Typed, TypeOK
  <2>3. Keyed'
    BY <1>k, <2>0, <2>1 DEF PidLabels, Returned
  <2>4. ASSUME NEW p \in Pids, Kept(p) PROVE Kept(p)'
    <3>1. ASSUME Alive(p), NEW k \in Keys, children[k] = p PROVE children'[k] = p
      BY <1>0, <2>1, <3>1 DEF GatewayRuns, old
    <3>2. ASSUME Alive(p), Held(p) PROVE Held(p)'
      BY <1>o, <2>0, <3>1, <3>2 DEF Held
    <3> QED
      BY <2>0, <2>4, <3>2 DEF Kept, Alive
  <2>5. AllKept'
    BY <1>b, <2>0, <2>4 DEF AllKept, ServersKept
  <2>6. GatewayKept'
    BY <1>0, <1>a, <1>o, <2>0, <2>1 DEF GatewayKept, ServersKept, At, GatewayOps, EnsureOps
  <2> QED
    BY <2>3, <2>5, <2>6 DEF ServersKept
<1>20. CASE StopGateway(t)
  <2> DEFINE old == children[Gateway]
  <2>0. Op(t) \in GatewayOps /\ pc[t] \in {"start", "stop"} /\ Carried(t) = {}
    BY <1>20 DEF StopGateway, Stopping, At, GatewayOps, EnsureOps, Carried, PidLabels
  <2>1. CASE ~GatewayRuns /\ Goto(t, "adopted") /\ UNCHANGED <<loc, children, proc>>
    <3>1. pc'[t] = "adopted" /\ Op(t) # "close"
      BY <2>0, <2>1, GotoIs DEF Goto, Typed, GatewayOps, EnsureOps
    <3>2. Watches(t)
      BY <2>0, <2>1, <3>1 DEF Watches, GatewayRuns, PidLabels, At, BareLabels
    <3> QED
      BY <3>2, <1>w
  <2>2. CASE GatewayRuns /\ children' = [children EXCEPT ![Gateway] = None] /\ proc' = Killed({old}) /\ Stopped(t)
    <3>0. pc'[t] \in {"idle", "ensure"} /\ Carried(t)' = {}
      <4>1. pc'[t] \in {"idle", "ensure"}
        BY <2>2, GotoIs, EndIs DEF Stopped, Goto, End, Typed, Returned
      <4> QED
        BY <4>1 DEF Carried, PidLabels, At
    <3> HIDE DEF old
    <3>1. children'[Gateway] = None /\ \A k \in Keys \ {Gateway} : children'[k] = children[k]
      BY <1>0, <2>2 DEF Typed, TypeOK
    <3>2. \A p \in Pids : /\ proc'[p].key = proc[p].key /\ proc'[p].here = proc[p].here
                          /\ proc'[p].st = IF p = old THEN "dead" ELSE proc[p].st
      BY <1>0, <2>2, KilledIs
    <3>3. Keyed'
      BY <1>k, <1>0, <3>0, <3>1, <3>2 DEF PidLabels
    <3>4. ASSUME NEW p \in Pids, Kept(p) PROVE Kept(p)'
      <4>1. CASE p = old
        BY <3>2, <4>1 DEF Kept, Alive
      <4>2. CASE p # old
        <5>1. ASSUME Held(p) PROVE Held(p)'
          BY <1>0, <1>o, <2>0, <3>0, <3>1, <4>2, <5>1 DEF Held, old
        <5> QED
          BY <3>2, <3>4, <4>2, <5>1 DEF Kept, Alive
      <4> QED
        BY <4>1, <4>2
    <3>5. AllKept'
      BY <1>b, <3>2, <3>4 DEF AllKept, ServersKept
    <3>6. GatewayKept'
      BY <1>0, <1>a, <1>o, <3>0, <3>1, <3>2 DEF GatewayKept, ServersKept, At, BareLabels
    <3> QED
      BY <3>3, <3>5, <3>6 DEF ServersKept
  <2> QED
    BY <1>20, <2>1, <2>2 DEF StopGateway
<1>21. CASE StopAdopted(t)
  <2>0. Op(t) \in GatewayOps /\ pc[t] = "adopted" /\ Carried(t) = {} /\ UNCHANGED children
    BY <1>21 DEF StopAdopted, Stopping, At, GatewayOps, EnsureOps, Carried, PidLabels
  <2>1. pc'[t] \in {"idle", "ensure"} /\ Carried(t)' = {}
    <3>1. pc'[t] \in {"idle", "ensure"}
      BY <1>21, GotoIs, EndIs DEF StopAdopted, Stopped, Goto, End, Typed, Returned
    <3> QED
      BY <3>1 DEF Carried, PidLabels, At
  <2>2. CASE UNCHANGED proc
    <3>1. Watches(t)
      BY <2>0, <2>1, <2>2 DEF Watches, PidLabels, At, BareLabels
    <3> QED
      BY <3>1, <1>w
  <2>3. ASSUME NEW port, NEW token,
               proc' = [p \in Pids |-> IF p \in Accepting(port, token) THEN [proc[p] EXCEPT !.st = "dying"] ELSE proc[p]]
        PROVE  ServersKept'
    <3>1. \A p \in Pids : /\ proc'[p].key = proc[p].key /\ proc'[p].here = proc[p].here
                          /\ proc'[p].st # proc[p].st =>
                               proc'[p].st = "dying" /\ proc[p].key = Gateway /\ Serving(p)
                          /\ proc[p].key # Gateway => proc'[p] = proc[p]
      BY <1>0, <2>3 DEF Accepting, Tables, Procs
    <3>2. Keyed'
      <4>1. \A k \in Keys : children[k] # None => children[k] \in Pids
        BY DEF Typed, TypeOK
      <4>2. \A u \in Tasks : pc'[u] \in PidLabels => u # t /\ pc[u] \in PidLabels /\ loc[u].pid \in Pids
        BY <1>o, <2>1 DEF PidLabels, Typed, TasksTyped, LocalsOf
      <4> QED
        BY <1>o, <2>0, <3>1, <4>1, <4>2 DEF Keyed, ServersKept
    <3>3. \A p \in Pids : Held(p) => Held(p)'
      BY <1>o, <2>0 DEF Held
    <3>4. AllKept'
      <4>1. ASSUME NEW p \in Pids, Kept(p) PROVE Kept(p)'
        BY <3>1, <3>3, <4>1 DEF Kept, Alive
      <4> QED
        BY <1>0, <3>1, <4>1 DEF AllKept, ServersKept
    <3>5. GatewayKept'
      <4> SUFFICES ASSUME Apart("gateway")' PROVE GatewayKept'
        BY DEF GatewayKept
      <4>1. Apart("gateway") /\ children[Gateway] = None /\ "gateway" \in Areas(Op(t))
        BY <1>a, <2>0, AreasAre DEF GatewayKept, ServersKept, BareLabels
      <4>2. ASSUME NEW p \in Pids, proc[p].key = Gateway, proc[p].here PROVE proc[p].st = "dead"
        <5> SUFFICES ASSUME proc[p].st # "dead" PROVE FALSE
          OBVIOUS
        <5>1. Held(p)
          BY <4>1, <4>2, GatewayHeld
        <5>2. ASSUME NEW k \in Keys, children[k] = p PROVE FALSE
          BY <1>0, <4>1, <4>2, <5>2 DEF Keyed, ServersKept
        <5>3. ASSUME NEW u \in Tasks, p \in Carried(u) PROVE FALSE
          <6>1. u # t /\ LocalsOf(u) /\ (cmd[u] # None => cmd[u] \in Commands)
            BY <2>0, <5>3 DEF Typed, TasksTyped
          <6>2. Op(u) \notin GatewayOps \cup {"close"}
            BY <4>1, <6>1, AreasAre, OneAtATime
          <6>3. pc[u] \in PidLabels /\ p = loc[u].pid /\ Op(u) = "start"
            BY <5>3, <6>1, <6>2 DEF Carried, At, LocalsOf, GatewayOps
          <6>4. cmd[u].orb \in Orbs
            BY <6>1, <6>3, CommandIs DEF Op, OrbOps
          <6> QED
            BY <1>0, <4>2, <6>3, <6>4 DEF Keyed, ServersKept, KeyOf
        <5> QED
          BY <5>1, <5>2, <5>3 DEF Held
      <4>3. \A p \in Pids : proc'[p].here /\ proc'[p].key = Gateway => proc'[p].st # "dying"
        BY <3>1, <4>2 DEF Serving
      <4>4. \A u \in Tasks \ {t} : ~At(u, "close", "exit")' /\ Op(u)' \notin GatewayOps
        BY <1>o, <4>1, AreasAre, OneAtATime DEF At
      <4> QED
        BY <2>0, <2>1, <4>3, <4>4 DEF GatewayKept, At, BareLabels
    <3> QED
      BY <3>2, <3>4, <3>5 DEF ServersKept
  <2> QED
    BY <1>21, <2>2, <2>3 DEF StopAdopted
<1> QED
  BY <1>1, <1>3, <1>4, <1>7, <1>9, <1>15, <1>16, <1>17, <1>19, <1>20, <1>21 DEF ServerStep

(* The app is gone: what it has not killed is of an earlier launch now.    *)
LEMMA RelaunchKept ==
  ASSUME Typed, ServersKept, NEW killed, NEW errors, Relaunch(killed, errors)
  PROVE  ServersKept'
<1>1. /\ \A t \in Tasks : Op(t)' = "none" /\ pc'[t] = "idle"
      /\ \A k \in Keys : children'[k] = None
      /\ proc' = Left(killed)
  BY DEF Relaunch, Gone, Op
<1>2. \A p \in Pids : ~proc'[p].here
  BY <1>1 DEF Left, Typed, TypeOK, Procs
<1>3. ASSUME NEW p \in Pids
      PROVE  proc'[p].key = proc[p].key /\ proc'[p].st # "starting" /\ (proc'[p].st = "dying" => proc[p].st = "dying")
  <2> DEFINE st == IF p \in killed THEN "dead"
                   ELSE IF proc[p].st # "starting" THEN proc[p].st
                   ELSE IF Listening(proc[p].port) \/ p # FirstOn(proc[p].port, Pids \ killed)
                   THEN "dead" ELSE "up"
  <2>1. proc'[p] = [proc[p] EXCEPT !.here = FALSE, !.st = st]
    BY <1>1 DEF Left, Typed, TypeOK, Procs
  <2>2. st # "starting" /\ (st = "dying" => proc[p].st = "dying")
    OBVIOUS
  <2> HIDE DEF st
  <2> QED
    BY <2>1, <2>2 DEF Typed, TypeOK, Procs
<1>4. Keyed'
  BY <1>1, <1>2, <1>3 DEF Keyed, ServersKept, PidLabels
<1>5. \A p \in Pids : Kept(p)'
  BY <1>2 DEF Kept
<1> QED
  BY <1>1, <1>2, <1>4, <1>5 DEF ServersKept, AllKept, GatewayKept, At, BareLabels

(* A process binds its port, exits or dies: it stays where it was.         *)
LEMMA ProcessStepKept ==
  ASSUME Typed, ServersKept, NEW q \in Pids, Settles(q) \/ Crashes(q)
  PROVE  ServersKept'
<1>0. UNCHANGED <<children, tasks>> /\ proc \in Tables
  BY DEF Settles, Crashes, Typed, TypeOK, Tables
<1>1. ASSUME NEW p \in Pids
      PROVE  /\ proc'[p].key = proc[p].key /\ proc'[p].here = proc[p].here
             /\ proc'[p].st \in {proc[p].st, "dead"} \/ (proc[p].st = "starting" /\ proc'[p].st = "up")
  <2>1. CASE proc' = Killed({q})
    BY <1>0, <2>1, KilledIs
  <2>2. ASSUME NEW st \in {"dead", "up"}, proc[q].st = "starting", proc' = [proc EXCEPT ![q].st = st]
        PROVE  /\ proc'[p].key = proc[p].key /\ proc'[p].here = proc[p].here
               /\ proc'[p].st \in {proc[p].st, "dead"} \/ (proc[p].st = "starting" /\ proc'[p].st = "up")
    BY <1>0, <2>2 DEF Tables, Procs
  <2> QED
    BY <2>1, <2>2 DEF Settles, Crashes, BindOrExit
<1>2. \A t \in Tasks : Op(t)' = Op(t) /\ Carried(t)' = Carried(t) /\ KeyOf(t)' = KeyOf(t) /\ pc'[t] = pc[t] /\ loc'[t] = loc[t]
  BY <1>0 DEF tasks, Op, Carried, KeyOf, At
<1>3. clash' = clash
  BY <1>0 DEF tasks
<1>4. Keyed'
  <2>1. \A k \in Keys : children[k] # None => children[k] \in Pids
    BY DEF Typed, TypeOK
  <2>2. \A t \in Tasks : pc[t] \in PidLabels => loc[t].pid \in Pids
    BY DEF Typed, TasksTyped, LocalsOf
  <2> QED
    BY <1>0, <1>1, <1>2, <2>1, <2>2 DEF Keyed, ServersKept
<1>5. \A p \in Pids : Held(p)' = Held(p)
  BY <1>0, <1>2 DEF Held
<1>6. \A p \in Pids : Kept(p) => Kept(p)'
  BY <1>1, <1>5 DEF Kept, Alive
<1>7. AllKept'
  BY <1>1, <1>3, <1>6 DEF AllKept, ServersKept
<1>8. GatewayKept'
  BY <1>0, <1>1, <1>2, <1>3 DEF GatewayKept, ServersKept, Apart, At
<1> QED
  BY <1>4, <1>7, <1>8 DEF ServersKept

(* The shutdown takes the children out of the map and keeps them in hand.  *)
LEMMA DrainKept ==
  ASSUME Typed, Alone, ServersKept, NEW t \in Tasks, Drain(t)
  PROVE  ServersKept'
<1>0. /\ At(t, "close", "cleared") /\ \A k \in Keys : children'[k] = None
      /\ UNCHANGED proc /\ loc' = [loc EXCEPT ![t].moved = Owned]
  BY DEF Drain
<1>1. Framed(t) /\ pc'[t] = "exit" /\ cmd'[t] = cmd[t]
  BY <1>0, GotoIs DEF Drain, Goto, Typed, TasksTyped
<1>2. loc'[t].moved = Owned
  BY <1>0, LocalNames DEF Typed, TasksTyped, LocalsOf
<1>3. Op(t)' = "close" /\ Carried(t)' = Owned /\ Carried(t) = {}
  BY <1>0, <1>1, <1>2 DEF Op, Carried, At, PidLabels
<1>4. \A u \in Tasks \ {t} : Op(u)' = Op(u) /\ Carried(u)' = Carried(u) /\ KeyOf(u)' = KeyOf(u)
                             /\ pc'[u] = pc[u] /\ loc'[u] = loc[u]
  BY <1>1, OthersCarry
<1>5. Keyed'
  BY <1>0, <1>1, <1>4 DEF Keyed, ServersKept, PidLabels
<1>6. ASSUME NEW p \in Pids, Held(p) PROVE Held(p)'
  <2>1. ASSUME NEW k \in Keys, children[k] = p PROVE p \in Carried(t)'
    BY <1>3, <2>1, ServerConstants DEF Owned, ServerConstants
  <2> QED
    BY <1>3, <1>4, <1>6, <2>1 DEF Held
<1>7. \A p \in Pids : Kept(p) => Kept(p)'
  BY <1>0, <1>6 DEF Kept, Alive
<1>8. \A area : Apart(area)' => Apart(area)
  BY <1>1 DEF Framed, Apart
<1>9. "twice" \notin clash' => "twice" \notin clash
  BY <1>1 DEF Framed
<1>10. AllKept'
  BY <1>0, <1>7, <1>9 DEF AllKept, ServersKept
<1>11. GatewayKept'
  BY <1>0, <1>8 DEF GatewayKept, ServersKept, Keys
<1> QED
  BY <1>5, <1>10, <1>11 DEF ServersKept

(* A command begins, having started nothing.                               *)
LEMMA IssueKept ==
  ASSUME Typed, ServersKept, NEW t \in Tasks, Issue(t), UNCHANGED servers
  PROVE  ServersKept'
<1>0. /\ cmd[t] = None /\ UNCHANGED <<loc, children, proc>> /\ clash \subseteq clash'
      /\ pc' = [pc EXCEPT ![t] = "start"] /\ \E c \in waiting : cmd' = [cmd EXCEPT ![t] = c]
  BY DEF Issue, servers
<1>1. /\ pc[t] = "idle" /\ pc'[t] = "start"
      /\ \A u \in Tasks \ {t} : pc'[u] = pc[u] /\ cmd'[u] = cmd[u]
  BY <1>0 DEF Typed, TasksTyped, LocalsOf
<1>2. Carried(t) = {} /\ Carried(t)' = {}
  BY <1>1 DEF Carried, PidLabels, At
<1>3. \A u \in Tasks \ {t} : Op(u)' = Op(u) /\ Carried(u)' = Carried(u) /\ KeyOf(u)' = KeyOf(u)
  BY <1>0, <1>1 DEF Op, Carried, KeyOf, At
<1>4. Keyed'
  BY <1>0, <1>1, <1>3 DEF Keyed, ServersKept, PidLabels
<1>5. \A p \in Pids : Kept(p) => Kept(p)'
  BY <1>0, <1>2, <1>3 DEF Kept, Held, Alive
<1>6. (\A area : Apart(area)' => Apart(area)) /\ ("twice" \notin clash' => "twice" \notin clash)
  BY <1>0 DEF Apart
<1>7. AllKept'
  BY <1>0, <1>5, <1>6 DEF AllKept, ServersKept
<1>8. GatewayKept'
  BY <1>0, <1>1, <1>3, <1>6 DEF GatewayKept, ServersKept, At, BareLabels
<1> QED
  BY <1>4, <1>7, <1>8 DEF ServersKept

LEMMA NextKept == Inv /\ Typed /\ Alone /\ ServersKept /\ [Next]_vars => ServersKept'
<1> SUFFICES ASSUME Inv, Typed, Alone, ServersKept, [Next]_vars PROVE ServersKept'
  OBVIOUS
<1>0. TasksTyped
  BY DEF Typed
<1>1. ASSUME NEW t \in Tasks, LibraryStep(t), UNCHANGED servers PROVE ServersKept'
  BY <1>0, <1>1, LibraryFrame, LibraryWatches, WatchingKeeps
<1>2. ASSUME NEW t \in Tasks, Dismiss(t), UNCHANGED <<library, servers>> PROVE ServersKept'
  <2>1. Framed(t) /\ Returned(t)
    BY <1>0, <1>2, EndIs DEF Dismiss, End
  <2>2. Watches(t)
    BY <1>2, <2>1 DEF Dismiss, Watches, Returned, PidLabels, At, servers, BareLabels
  <2> QED
    BY <2>1, <2>2, WatchingKeeps
<1>5. ASSUME NEW t \in Tasks, AsideStep(t) PROVE ServersKept'
  <2>1. Watches(t)
    BY <1>0, <1>5, AsideIs DEF AsideLabels, Watches, PidLabels, At, servers, GatewayOps, EnsureOps
  <2> QED
    BY <1>0, <1>5, <2>1, AsideIs, WatchingKeeps
<1>6. ASSUME NEW t \in Tasks, Clear(t) PROVE ServersKept'
  <2>1. /\ At(t, "close", "start") /\ pc'[t] = "cleared" /\ UNCHANGED <<loc, children, proc>> /\ Framed(t)
    BY <1>0, <1>6, GotoIs DEF Clear, Goto, TasksTyped
  <2>2. Watches(t)
    BY <2>1 DEF Watches, PidLabels, At, GatewayOps, EnsureOps
  <2> QED
    BY <2>1, <2>2, WatchingKeeps
<1>3. ASSUME NEW t \in Tasks, TaskStep(t) PROVE ServersKept'
  BY <1>1, <1>2, <1>3, <1>5, <1>6, ServerKept, DrainKept, RelaunchKept DEF TaskStep, AsideStep, Quit
<1>4. CASE UNCHANGED vars
  <2>1. UNCHANGED <<children, proc, cmd, pc, loc, clash>>
    BY <1>4 DEF vars, servers, tasks
  <2>2. \A t \in Tasks : Op(t)' = Op(t) /\ Carried(t)' = Carried(t) /\ KeyOf(t)' = KeyOf(t)
    BY <2>1 DEF Op, Carried, KeyOf, At
  <2>3. \A p \in Pids : Kept(p)' = Kept(p)
    BY <2>1, <2>2 DEF Kept, Held, Alive
  <2> QED
    BY <2>1, <2>2, <2>3 DEF ServersKept, Keyed, AllKept, GatewayKept, Apart, At
<1> QED
  BY <1>3, <1>4, <1>5, IssueKept, ProcessStepKept, RelaunchKept DEF Next, AsideStep, Kill

LEMMA InitKept == Init => ServersKept
<1> SUFFICES ASSUME Init PROVE ServersKept
  OBVIOUS
<1>1. /\ \A k \in Keys : children[k] = None
      /\ \A t \in Tasks : pc[t] = "idle"
  BY DEF Init
<1>2. PICK w \in Worlds : InitiallyIn(w)
  BY DEF Init
<1>3. ASSUME NEW p \in Pids PROVE ~proc[p].here /\ proc[p].st \in {"up", "dead"}
  BY <1>2 DEF InitiallyIn, Process
<1> QED
  BY <1>1, <1>3 DEF ServersKept, Keyed, AllKept, GatewayKept, Kept, At, PidLabels, BareLabels

LEMMA AloneHolds == Spec => [](Inv /\ Typed /\ Alone)
BY TypedHolds, NextAlone, InitAlone, PTL DEF Spec

(* The servers and the gateway of this launch are accounted for throughout.*)
LEMMA KeptHolds == Spec => [](Inv /\ Typed /\ Alone /\ ServersKept)
BY AloneHolds, NextKept, InitKept, PTL DEF Spec

(* What a command has in hand.                                             *)
LEMMA CarriedIs == ASSUME TasksTyped, NEW t \in Tasks, NEW p \in Carried(t) PROVE p \in InHand(t)
<1>1. pc[t] \in PidLabels => Op(t) # "close"
  BY DEF TasksTyped, LocalsOf, EnsureOps
<1> QED
  BY <1>1 DEF Carried, InHand, At

(* Whatever commands overlap, stop, remove and the shutdown find every     *)
(* process that this launch has started and not killed: it is among the    *)
(* children, or in the hands of the command that has started it or is      *)
(* shutting it down. Only an Orb that is started twice loses one.          *)
THEOREM NoneOrphaned == Spec => []NoOrphans
<1>1. Typed /\ ServersKept => NoOrphans
  <2> SUFFICES ASSUME TasksTyped, AllKept, "twice" \notin clash, NEW p \in Pids, proc[p].here, Alive(p)
               PROVE  p \in Owned \/ \E t \in Tasks : p \in InHand(t)
    BY DEF Typed, ServersKept, NoOrphans
  <2>1. Held(p)
    BY DEF AllKept, Kept
  <2> QED
    BY <2>1, CarriedIs, ServerConstants DEF Held, Owned, ServerConstants
<1> QED
  BY <1>1, KeptHolds, PTL

(* Only its own last step ends a closing.                                  *)
LEMMA ServerOps == ASSUME NEW t \in Tasks, ServerStep(t, Installed) PROVE Op(t) # "close"
BY DEF ServerStep, At, Ensuring, Stopping, StartLookup, StartSettings, StartSpawn, StartInsert, StartList, Unlist,
   StopChild, BatchSettings, BatchLock, BatchLaunch, EnsureEnter, EnsureLoad, EnsureProbe, EnsureReuse, EnsureChoose,
   EnsureSpawn, EnsurePoll, EnsureInsert, StatusLoad, StatusReap, StopGateway, StopAdopted, ResetToken, SaveForm

LEMMA CloseStep ==
  ASSUME Inv, Typed, Alone, ServersKept, [Next]_vars, NEW t \in Tasks, At(t, "close", "exit"),
         "twice" \notin clash, cmd'[t] = None, faults' = faults,
         NEW p \in Pids, proc[p].here, proc'[p].st \in {"starting", "up"}
  PROVE  p \in Owned \/ \E u \in Tasks \ {t} : p \in InHand(u)
<1>0. TasksTyped /\ cmd[t] # None /\ faults \in Nat
  BY DEF Typed, At, Op, Inv
<1>1. \A u \in Tasks \ {t} : ~Framed(u)
  BY <1>0 DEF Framed
<1>2. ASSUME NEW u \in Tasks, At(u, "close", "exit") PROVE u = t
  BY <1>2 DEF Alone, Closing, At
<1>3. Quit(t)
  <2>1. ASSUME NEW u \in Tasks, LibraryStep(u), UNCHANGED servers PROVE FALSE
    BY <1>0, <1>1, <2>1, LibraryFrame, LibraryWatches DEF Watches
  <2>2. ASSUME NEW u \in Tasks, ServerStep(u, Installed) PROVE FALSE
    BY <1>0, <1>1, <2>2, ServerFrame, ServerOps DEF At
  <2>3. ASSUME NEW u \in Tasks, Dismiss(u) \/ Clear(u) \/ Drain(u) PROVE FALSE
    <3>1. Framed(u)
      BY <1>0, <2>3, GotoIs, EndIs DEF Dismiss, Clear, Drain, Goto, End, TasksTyped
    <3> QED
      BY <1>1, <2>3, <3>1 DEF Dismiss, Clear, Drain, At
  <2>4. ASSUME NEW u \in Tasks, Issue(u) PROVE FALSE
    BY <1>0, <2>4 DEF Issue, TasksTyped
  <2>5. ~Kill
    <3> SUFFICES ASSUME Kill PROVE FALSE
      OBVIOUS
    <3>1. PICK read : Launched(read, 1)
      BY DEF Kill, Relaunch
    <3>2. faults' >= faults + 1
      BY <1>0, <3>1, LaunchWrites
    <3> QED
      BY <1>0, <3>2
  <2>6. ASSUME NEW q \in Pids, Settles(q) \/ Crashes(q) PROVE FALSE
    BY <1>0, <2>6 DEF Settles, Crashes, tasks
  <2>7. ~UNCHANGED vars
    BY <1>0 DEF vars, tasks
  <2>8. ASSUME NEW u \in Tasks, AsideStep(u) PROVE FALSE
    BY <1>0, <1>1, <2>8, AsideIs DEF At
  <2> QED
    BY <1>2, <2>1, <2>2, <2>3, <2>4, <2>5, <2>6, <2>7, <2>8 DEF Next, TaskStep, AsideStep, Quit
<1>4. proc' = Left(loc[t].moved)
  BY <1>3 DEF Quit, Relaunch, Gone
<1>5. Alive(p) /\ p \notin loc[t].moved
  <2> DEFINE st == IF p \in loc[t].moved THEN "dead"
                   ELSE IF proc[p].st # "starting" THEN proc[p].st
                   ELSE IF Listening(proc[p].port) \/ p # FirstOn(proc[p].port, Pids \ loc[t].moved)
                   THEN "dead" ELSE "up"
  <2>1. proc'[p] = [proc[p] EXCEPT !.here = FALSE, !.st = st] /\ proc[p] \in Procs
    BY <1>4 DEF Left, Typed, TypeOK, Procs
  <2>2. proc'[p].st = st
    BY <2>1 DEF Procs
  <2> QED
    BY <2>2 DEF Alive
<1>6. Held(p)
  BY <1>5 DEF ServersKept, AllKept, Kept
<1>7. ASSUME NEW u \in Tasks, p \in Carried(u) PROVE u # t
  BY <1>5, <1>7 DEF Carried, At, PidLabels
<1> QED
  BY <1>0, <1>6, <1>7, CarriedIs, ServerConstants DEF Held, Owned, ServerConstants

(* Closing the app kills every process it has started, but those that a    *)
(* command overlapping the closing has put among the children after they   *)
(* were taken out, or still has in hand. An Orb started twice is excepted. *)
THEOREM ClosingLeavesNothing == Spec => ClosesClean
<1>1. Inv /\ Typed /\ Alone /\ ServersKept /\ [Next]_vars =>
        [\A t \in Tasks : At(t, "close", "exit") /\ "twice" \notin clash /\ cmd'[t] = None /\ faults' = faults
           => \A p \in Pids : proc[p].here /\ proc'[p].st \in {"starting", "up"}
                => p \in Owned \/ \E u \in Tasks \ {t} : p \in InHand(u)]_vars
  BY CloseStep
<1> QED
  BY <1>1, KeptHolds, PTL DEF Spec, ClosesClean
-----------------------------------------------------------------------------
(* The gateway that is owned, or about to be, has the stored token and     *)
(* binding, but while a reset or a new binding has it stopped.             *)
AskLabels == {"probe", "choose", "spawn"}

Matches(p) == proc[p].token = settings.token /\ proc[p].binding = settings.binding

OwnedFits ==
  Apart("gateway") /\ "overtaken" \notin clash /\ faults = 0 =>
    /\ settings = Torn =>
         ~GatewayRuns /\ \A t \in Tasks : Op(t) \in EnsureOps => pc[t] \notin AskLabels \cup PidLabels \cup {"stop"}
    /\ \A t \in Tasks : Op(t) \in EnsureOps /\ pc[t] \in AskLabels =>
         loc[t].token = settings.token /\ loc[t].binding = settings.binding
    /\ \A t \in Tasks : Op(t) \in EnsureOps /\ pc[t] \in PidLabels => Matches(loc[t].pid)
    /\ GatewayRuns /\ Alive(children[Gateway]) =>
         Matches(children[Gateway]) \/ \E t \in Tasks : Op(t) \in EnsureOps /\ pc[t] = "stop"

(* Tokens are drawn in turn; none is started with the empty one.           *)
TokensDrawn ==
  /\ \A t \in Tasks : Op(t) \in EnsureOps /\ pc[t] \in AskLabels => loc[t].token # 0
  /\ "overtaken" \notin clash =>
       /\ settings # Torn => settings.token <= drawn
       /\ \A t \in Tasks : loc[t].token <= drawn
       /\ \A p \in Pids : proc[p].token <= drawn

GatewaysWith(token) == {p \in Pids : proc[p].st # "dead" /\ proc[p].key = Gateway /\ proc[p].token = token}

(* The gateways with the token in use: at most one, on a port where it is  *)
(* looked for, and none while one is about to be started.                  *)
Current == GatewaysWith(settings.token)

Found(t) ==
  /\ pc[t] \in AskLabels => loc[t].token = settings.token /\ loc[t].base = settings.port
  /\ pc[t] \in {"choose", "spawn"} => Current = {}
  /\ pc[t] = "spawn" => loc[t].port \in Candidates(settings.port)
  /\ pc[t] \in PidLabels => proc[loc[t].pid].port = loc[t].port /\ Current \subseteq {loc[t].pid}
  /\ pc[t] = "reuse" => \A p \in Current : proc[p].port = loc[t].port

Accounted == Apart("gateway") /\ clash \cap {"port", "slow", "overtaken"} = {} /\ settings # Torn

OneServes ==
  /\ \A p, q \in GatewaysWith(0) : p = q
  /\ \A p \in GatewaysWith(0) : proc[p].port = BasePort
  /\ Accounted => /\ \A p, q \in Current : p = q
                  /\ \A p \in Current : proc[p].port \in Candidates(settings.port)
                  /\ \A t \in Tasks : Op(t) \in EnsureOps => Found(t)

(* What a process has is its own from start to end; only the unused ones   *)
(* are started, and the gateway by one step alone.                         *)
Fades(p) ==
  /\ proc'[p].key = proc[p].key /\ proc'[p].token = proc[p].token
  /\ proc'[p].binding = proc[p].binding /\ proc'[p].port = proc[p].port
  /\ proc'[p].st # "dead" => proc[p].st # "dead"
  /\ Alive(p)' => Alive(p)

Evolves(t) ==
  \A p \in Pids : Fades(p) \/ (p \in Unused /\ proc'[p].key # Gateway /\ proc'[p].token \in {0, loc[t].token})

LEMMA KillingFades == ASSUME proc \in Tables, NEW pids, proc' = Killed(pids), NEW p \in Pids PROVE Fades(p)
BY KilledIs DEF Fades, Alive

LEMMA ServerEvolves ==
  ASSUME Typed, NEW t \in Tasks, ServerStep(t, Installed), ~EnsureSpawn(t)
  PROVE  Evolves(t)
<1>0. proc \in Tables /\ Gateway \notin Orbs /\ (cmd[t] # None => cmd[t] \in Commands)
  BY ServerConstants DEF Typed, TypeOK, TasksTyped, Tables, ServerConstants
<1>1. ASSUME UNCHANGED proc PROVE Evolves(t)
  BY <1>1 DEF Evolves, Fades, Alive
<1>2. ASSUME NEW pids, proc' = Killed(pids) PROVE Evolves(t)
  BY <1>0, <1>2, KillingFades DEF Evolves
<1>3. CASE StartSpawn(t)
  <2>1. CASE UNCHANGED proc
    BY <1>1, <2>1
  <2>2. ASSUME NEW port, Spawned(t, port, cmd[t].orb) PROVE Evolves(t)
    <3>1. Fresh \in Pids /\ Fresh \in Unused /\ cmd[t].orb # Gateway
          /\ proc' = [proc EXCEPT ![Fresh] = Process(cmd[t].orb, port, loc[t].token, loc[t].binding)]
      BY <1>0, <1>3, <2>2, FreshIs, CommandIs DEF StartSpawn, Spawned, At, Op, OrbOps
    <3> QED
      BY <1>0, <3>1 DEF Evolves, Fades, Alive, Process, Tables
  <2> QED
    BY <1>3, <2>1, <2>2 DEF StartSpawn
<1>4. CASE BatchLaunch(t, Installed)
  <2> DEFINE new == BatchNew(cmd[t].orbs, Installed)
             port(o) == BatchPort(t, cmd[t].orbs, Place(cmd[t].orbs, o), Installed)
             pid == CHOOSE f \in [new -> Unused] : IsInjective(f)
             few == Cardinality(new) > Cardinality(Unused) \/ \E o \in new : port(o) \notin Ports
  <2>1. new \in SUBSET Orbs
    BY EntryIs DEF BatchNew, Typed, TypeOK, Installed
  <2>2. ~few => pid \in [new -> Unused] /\ IsInjective(pid)
    <3>1. Unused \subseteq Pids
      BY DEF Unused
    <3>2. IsFiniteSet(Orbs) /\ IsFiniteSet(Pids) /\ Unused \in SUBSET Pids
      BY <3>1, RunnerConstants, ServerConstants DEF RunnerConstants, ServerConstants
    <3>3. Cardinality(new) \in Nat /\ Cardinality(Unused) \in Nat
      BY <2>1, <3>2, FS_Subset, FS_CardinalityType
    <3> QED
      BY <2>1, <3>3, PidsDiffer
  <2> HIDE DEF new, port, pid
  <2>3. CASE few
    BY <1>1, <1>4, <2>3 DEF BatchLaunch, new, port
  <2>4. CASE ~few
    <3>1. proc' = [p \in Pids |->
             IF \E o \in new : pid[o] = p
               THEN LET o == CHOOSE x \in new : pid[x] = p IN Process(o, port(o), 0, loc[t].binding)
               ELSE proc[p]]
      BY <1>4, <2>4 DEF BatchLaunch, new, port, pid
    <3>2. ASSUME NEW p \in Pids, \E o \in new : pid[o] = p
          PROVE  p \in Unused /\ proc'[p].key # Gateway /\ proc'[p].token = 0
      <4>1. PICK o \in new : (CHOOSE x \in new : pid[x] = p) = o /\ pid[o] = p
        BY <3>2
      <4>2. proc'[p] = Process(o, port(o), 0, loc[t].binding)
        BY <3>1, <3>2, <4>1
      <4> QED
        BY <1>0, <2>1, <2>2, <2>4, <4>1, <4>2 DEF Process
    <3>3. ASSUME NEW p \in Pids, ~\E o \in new : pid[o] = p PROVE proc'[p] = proc[p]
      BY <3>1, <3>3
    <3> QED
      BY <3>2, <3>3 DEF Evolves, Fades, Alive
  <2> QED
    BY <2>3, <2>4
<1>5. CASE StopChild(t) \/ EnsureInsert(t) \/ EnsurePoll(t) \/ StopGateway(t)
  BY <1>1, <1>2, <1>5 DEF StopChild, EnsureInsert, EnsurePoll, GivenUp, StopGateway
<1>6. CASE StopAdopted(t)
  <2>1. CASE UNCHANGED proc
    BY <1>1, <2>1
  <2>2. ASSUME NEW port, NEW token,
               proc' = [p \in Pids |-> IF p \in Accepting(port, token) THEN [proc[p] EXCEPT !.st = "dying"] ELSE proc[p]]
        PROVE  Evolves(t)
    BY <1>0, <2>2 DEF Evolves, Fades, Alive, Accepting, Serving, Tables, Procs
  <2> QED
    BY <1>6, <2>1, <2>2 DEF StopAdopted
<1>7. CASE UNCHANGED servers
  BY <1>1, <1>7 DEF servers
<1>8. CASE StartInsert(t) \/ StartList(t) \/ Unlist(t) \/ StatusReap(t)
  BY <1>1, <1>8 DEF StartInsert, StartList, Unlist, StatusReap
<1>9. ASSUME StartLookup(t, Installed) \/ StartSettings(t) \/ BatchSettings(t) \/ BatchLock(t)
             \/ EnsureEnter(t) \/ EnsureLoad(t) \/ EnsureProbe(t) \/ EnsureReuse(t) \/ EnsureChoose(t) \/ StatusLoad(t) \/ ResetToken(t) \/ SaveForm(t)
      PROVE  UNCHANGED servers
  BY <1>9 DEF StartLookup, StartSettings, BatchSettings, BatchLock, EnsureEnter, EnsureLoad, EnsureProbe, EnsureReuse,
     EnsureChoose, StatusLoad, ResetToken, SaveForm
<1> QED
  BY <1>3, <1>4, <1>5, <1>6, <1>7, <1>8, <1>9 DEF ServerStep

(* A process settles, crashes, or is left to the next launch.              *)
LEMMA ProcessFades ==
  ASSUME Typed, NEW q \in Pids, Settles(q) \/ Crashes(q), NEW p \in Pids
  PROVE  Fades(p)
<1>0. proc \in Tables
  BY DEF Typed, TypeOK, Tables
<1>1. CASE proc' = Killed({q})
  BY <1>0, <1>1, KillingFades
<1>2. ASSUME NEW st \in {"dead", "up"}, proc[q].st = "starting", proc' = [proc EXCEPT ![q].st = st]
      PROVE  Fades(p)
  BY <1>0, <1>2 DEF Tables, Procs, Fades, Alive
<1> QED
  BY <1>1, <1>2 DEF Settles, Crashes, BindOrExit

LEMMA LeftFades ==
  ASSUME Typed, NEW killed, NEW errors, Relaunch(killed, errors), NEW p \in Pids
  PROVE  Fades(p)
<1> DEFINE st == IF p \in killed THEN "dead"
                 ELSE IF proc[p].st # "starting" THEN proc[p].st
                 ELSE IF Listening(proc[p].port) \/ p # FirstOn(proc[p].port, Pids \ killed)
                 THEN "dead" ELSE "up"
<1>1. proc'[p] = [proc[p] EXCEPT !.here = FALSE, !.st = st]
  BY DEF Relaunch, Gone, Left, Typed, TypeOK, Procs
<1>2. st = "dead" \/ st = proc[p].st \/ (st = "up" /\ proc[p].st = "starting")
  OBVIOUS
<1> HIDE DEF st
<1> QED
  BY <1>1, <1>2 DEF Typed, TypeOK, Procs, Fades, Alive

(* What the gateway is started with stays stored, but where the gateway    *)
(* commands store it, an error tears the file, or a process beside the app *)
(* overtakes it.                                                           *)
Asked ==
  \/ UNCHANGED settings
  \/ /\ settings # Torn /\ settings' # Torn
     /\ settings'.token = settings.token /\ settings'.binding = settings.binding

Disturbed == (settings' = Torn /\ faults' = faults + 1) \/ "overtaken" \in clash'

AskKept == (Asked /\ settings'.port = settings.port) \/ Disturbed

LEMMA WithLibraryAsks ==
  ASSUME settings \in Settings, NEW folder \in Folders, settings' = WithLibrary(settings, folder)
  PROVE  AskKept
BY OverlaysTyped, TornUnlike DEF AskKept, Asked, WithLibrary, Settings

LEMMA LibraryAsks == ASSUME Typed, Inv, NEW t \in Tasks, LibraryStep(t) PROVE AskKept
<1>1. \/ UNCHANGED <<settings, orbsDir>>
      \/ settings # Torn /\ \E folder \in Folders : Chooses(folder)
      \/ Disturbed
  BY LibraryWrites DEF Disturbed
<1>2. settings # Torn => settings \in Settings
  BY DEF Typed, TypeOK
<1> QED
  BY <1>1, <1>2, WithLibraryAsks DEF Chooses, AskKept, Asked

LEMMA LibraryDraws == ASSUME NEW t \in Tasks, LibraryStep(t) PROVE UNCHANGED drawn
<1> USE DEF conf
<1>1. ASSUME ImportCheck(t) \/ ImportOpen(t) \/ ImportFilled(t) \/ ImportLoad(t) \/ ImportSave(t)
             \/ RemoveLoad(t) \/ RemoveUnlink(t) \/ RemoveSave(t) \/ PickDecide(t) \/ PickAdopt(t) \/ CancelChange(t)
      PROVE  UNCHANGED drawn
  BY <1>1 DEF ImportCheck, ImportOpen, ImportFilled, ImportLoad, ImportSave, RemoveLoad, RemoveUnlink, RemoveSave,
     PickDecide, PickAdopt, CancelChange
<1>2. ASSUME ApplyBegin(t) \/ ApplyResolve(t) \/ ApplyTargets(t) \/ MoveOne(t) \/ MoveCopied(t) \/ MoveUnlink(t)
             \/ Rollback(t) \/ MigrateSave(t) \/ EraseOne(t) \/ EraseSave(t) \/ Adopt(t)
      PROVE  UNCHANGED drawn
  BY <1>2 DEF ApplyBegin, ApplyResolve, ApplyTargets, MoveOne, MoveCopied, MoveUnlink, Rollback, MigrateSave,
     EraseOne, EraseSave, Adopt
<1> QED
  BY <1>1, <1>2 DEF LibraryStep

LEMMA ServerAsks ==
  ASSUME NEW t \in Tasks, ServerStep(t, Installed)
  PROVE  \/ UNCHANGED <<settings, drawn>>
         \/ EnsureLoad(t) \/ EnsureReuse(t) \/ ResetToken(t) \/ SaveForm(t)
<1> USE DEF conf
<1>1. ASSUME StartLookup(t, Installed) \/ StartSettings(t) \/ StartSpawn(t) \/ StartInsert(t) \/ StartList(t)
             \/ Unlist(t) \/ StopChild(t) \/ BatchSettings(t) \/ BatchLock(t) \/ BatchLaunch(t, Installed)
      PROVE  UNCHANGED <<settings, drawn>>
  BY <1>1 DEF StartLookup, StartSettings, StartSpawn, StartInsert, StartList, Unlist, StopChild, BatchSettings, BatchLock,
     BatchLaunch
<1>2. ASSUME EnsureEnter(t) \/ EnsureProbe(t) \/ EnsureChoose(t) \/ EnsureSpawn(t) \/ EnsurePoll(t)
             \/ EnsureInsert(t) \/ StatusLoad(t) \/ StatusReap(t) \/ StopGateway(t) \/ StopAdopted(t)
      PROVE  UNCHANGED <<settings, drawn>>
  BY <1>2 DEF EnsureEnter, EnsureProbe, EnsureChoose, EnsureSpawn, EnsurePoll, EnsureInsert, StatusLoad, StatusReap,
     StopGateway, StopAdopted
<1> QED
  BY <1>1, <1>2 DEF ServerStep

LEMMA DismissAsks ==
  ASSUME Typed, NEW t \in Tasks, Dismiss(t)
  PROVE  AskKept /\ UNCHANGED drawn
<1>1. settings # Torn => settings \in Settings /\ [settings EXCEPT !.onboard = TRUE] \in Settings
  BY DEF Typed, TypeOK, Settings
<1> QED
  BY <1>1, TornUnlike DEF Dismiss, SaveSettings, SaveFails, Fault, AskKept, Asked, Disturbed, Settings

(* Steps that no gateway command in progress notices keep it.              *)
LEMMA StillOwned ==
  ASSUME Typed, OwnedFits, NEW t, Evolves(t), clash \subseteq clash', Asked \/ Disturbed, faults' \in {faults, faults + 1},
         children'[Gateway] \in {children[Gateway], None},
         \A u \in Tasks : Op(u)' \in EnsureOps /\ pc'[u] \in AskLabels \cup PidLabels \cup {"stop"}
           => Op(u) = Op(u)' /\ pc[u] = pc'[u] /\ loc[u] = loc'[u],
         \A u \in Tasks : Op(u) \in EnsureOps /\ pc[u] = "stop"
           => children'[Gateway] = None \/ (Op(u)' \in EnsureOps /\ pc'[u] = "stop")
  PROVE  OwnedFits'
<1> SUFFICES ASSUME Apart("gateway")', "overtaken" \notin clash', faults' = 0 PROVE OwnedFits'
  BY DEF OwnedFits
<1>1. Apart("gateway") /\ "overtaken" \notin clash /\ faults = 0 /\ Asked
  BY RunnerConstants DEF Apart, Disturbed, Typed, TypeOK, RunnerConstants
<1>3. ASSUME NEW p \in Pids, p \notin Unused, settings # Torn, Matches(p) PROVE Matches(p)'
  BY <1>1, <1>3 DEF Evolves, Fades, Matches, Asked
<1>4. settings' = Torn <=> settings = Torn
  BY <1>1 DEF Asked
<1>5. \A u \in Tasks : Op(u) \in EnsureOps /\ pc[u] \in PidLabels => loc[u].pid \in Pids /\ loc[u].pid \notin Unused
  BY DEF Typed, TasksTyped, LocalsOf, Unused
<1>6. settings' = Torn =>
        ~GatewayRuns' /\ \A u \in Tasks : Op(u)' \in EnsureOps => pc'[u] \notin AskLabels \cup PidLabels \cup {"stop"}
  BY <1>1, <1>4 DEF OwnedFits, GatewayRuns
<1>7. \A u \in Tasks : Op(u)' \in EnsureOps /\ pc'[u] \in AskLabels =>
        loc'[u].token = settings'.token /\ loc'[u].binding = settings'.binding
  BY <1>1 DEF OwnedFits, Asked
<1>8. \A u \in Tasks : Op(u)' \in EnsureOps /\ pc'[u] \in PidLabels => Matches(loc[u].pid)' /\ loc'[u] = loc[u]
  BY <1>1, <1>3, <1>4, <1>5, <1>6 DEF OwnedFits
<1>9. ASSUME GatewayRuns', Alive(children[Gateway])'
      PROVE  Matches(children[Gateway])' \/ \E u \in Tasks : Op(u)' \in EnsureOps /\ pc'[u] = "stop"
  <2> DEFINE pid == children[Gateway]
  <2>1. children'[Gateway] = pid /\ pid \in Pids /\ pid \notin Unused /\ settings # Torn
    BY <1>4, <1>6, <1>9 DEF GatewayRuns, Typed, TypeOK, Keys, Unused
  <2>2. proc'[pid].st \in {"starting", "up"} /\ GatewayRuns
    BY <1>9, <2>1 DEF Alive, GatewayRuns
  <2>3. proc[pid].st \in {"starting", "up"} /\ proc'[pid].token = proc[pid].token /\ proc'[pid].binding = proc[pid].binding
    BY <2>1, <2>2 DEF Evolves, Fades, Alive
  <2>4. CASE Matches(pid)
    BY <1>1, <2>1, <2>3, <2>4 DEF Matches, Asked
  <2>5. ASSUME NEW u \in Tasks, Op(u) \in EnsureOps, pc[u] = "stop" PROVE Op(u)' \in EnsureOps /\ pc'[u] = "stop"
    BY <1>9, <2>5 DEF GatewayRuns
  <2> QED
    BY <1>1, <2>2, <2>3, <2>4, <2>5 DEF OwnedFits, Alive
<1> QED
  BY <1>6, <1>7, <1>8, <1>9 DEF OwnedFits, Matches

LEMMA QuietOwned ==
  ASSUME Typed, OwnedFits, NEW t \in Tasks, Framed(t), Evolves(t), Asked \/ Disturbed, faults' \in {faults, faults + 1},
         children'[Gateway] \in {children[Gateway], None},
         Op(t) \in EnsureOps => pc'[t] \notin AskLabels \cup PidLabels \cup {"stop"},
         Op(t) \in EnsureOps /\ pc[t] = "stop" => children'[Gateway] = None
  PROVE  OwnedFits'
<1>1. \A u \in Tasks : Op(u)' \in EnsureOps /\ pc'[u] \in AskLabels \cup PidLabels \cup {"stop"}
        => Op(u) = Op(u)' /\ pc[u] = pc'[u] /\ loc[u] = loc'[u]
  BY DEF Framed, Returned, Op, EnsureOps
<1>2. \A u \in Tasks : Op(u) \in EnsureOps /\ pc[u] = "stop"
        => children'[Gateway] = None \/ (Op(u)' \in EnsureOps /\ pc'[u] = "stop")
  BY DEF Framed, Op
<1> QED
  BY <1>1, <1>2, StillOwned DEF Framed

(* Other steps than those of the processes leave them alone.               *)
LEMMA StillEvolves == ASSUME UNCHANGED proc, NEW t PROVE Evolves(t)
BY DEF Evolves, Fades, Alive

LEMMA ServerFaults ==
  ASSUME Inv, NEW t \in Tasks, ServerStep(t, Installed)
  PROVE  faults' \in {faults, faults + 1} /\ (faults' = 0 => faults = 0)
BY ServerWrites DEF Inv

(* The gateway commands, one at a time, keep it themselves.                *)
LEMMA ServerOwned ==
  ASSUME Typed, Inv, Alone, ServersKept, OwnedFits, NEW t \in Tasks, ServerStep(t, Installed), UNCHANGED library
  PROVE  OwnedFits'
<1>0. /\ Framed(t) /\ LocalsOf(t) /\ TasksTyped /\ (cmd[t] # None => cmd[t] \in Commands)
      /\ Gateway \notin Orbs /\ Gateway # None /\ Gateway \in Keys /\ None \notin Pids
      /\ (settings \in Settings \/ settings = Torn)
  BY ServerFrame, ServerConstants DEF Typed, TypeOK, TasksTyped, ServerConstants, Keys
<1>f. faults' \in {faults, faults + 1} /\ (faults' = 0 => faults = 0)
  BY ServerFaults
<1>q. ASSUME ~EnsureSpawn(t), Asked \/ Disturbed, children'[Gateway] \in {children[Gateway], None},
             Op(t) \in EnsureOps => pc'[t] \notin AskLabels \cup PidLabels \cup {"stop"},
             Op(t) \in EnsureOps /\ pc[t] = "stop" => children'[Gateway] = None
      PROVE  OwnedFits'
  BY <1>0, <1>f, <1>q, ServerEvolves, QuietOwned
<1>1. CASE Op(t) \notin EnsureOps
  <2>1. children'[Gateway] \in {children[Gateway], None}
    <3>1. Op(t) \in {"start", "stop", "remove"} => cmd[t].orb # Gateway
      BY <1>0, CommandIs DEF Op, OrbOps
    <3>2. CASE StartInsert(t) \/ StopChild(t)
      BY <1>0, <3>1, <3>2 DEF StartInsert, StopChild, At, Typed, TypeOK
    <3>3. CASE BatchLaunch(t, Installed)
      <4>1. Gateway \notin BatchNew(cmd[t].orbs, Installed)
        BY <1>0, EntryIs DEF BatchNew, Installed, Typed, TypeOK
      <4> QED
        BY <1>0, <3>3, <4>1 DEF BatchLaunch
    <3>4. CASE StatusReap(t) \/ StopGateway(t)
      BY <1>0, <3>4 DEF StatusReap, StopGateway, Typed, TypeOK
    <3> QED
      BY <1>1, <3>2, <3>3, <3>4
      DEF ServerStep, EnsureOps, At, Ensuring, servers, StartLookup, StartSettings, StartSpawn, StartList, Unlist, BatchSettings, BatchLock,
          EnsureEnter, EnsureLoad, EnsureProbe, EnsureReuse, EnsureChoose, EnsureSpawn, EnsurePoll, EnsureInsert,
          StatusLoad, StopAdopted, ResetToken, SaveForm
  <2>2. ~EnsureSpawn(t) /\ ~EnsureLoad(t) /\ ~EnsureReuse(t) /\ ~ResetToken(t) /\ ~SaveForm(t)
    BY <1>1 DEF EnsureSpawn, EnsureLoad, EnsureReuse, ResetToken, SaveForm, Ensuring, At, EnsureOps
  <2> QED
    BY <1>1, <1>q, <2>1, <2>2, ServerAsks DEF Asked
<1>2. CASE Op(t) \in EnsureOps
  <2> SUFFICES ASSUME Apart("gateway")', "overtaken" \notin clash', faults' = 0 PROVE OwnedFits'
    BY DEF OwnedFits
  <2>0. Apart("gateway") /\ "overtaken" \notin clash /\ faults = 0 /\ faults' = faults
    BY <1>0, <1>f DEF Framed, Apart
  <2>a. \A u \in Tasks : Op(u) \in EnsureOps => u = t
    BY <1>2, <2>0, AreasAre, OneAtATime DEF GatewayOps
  <2>1. \A u \in Tasks : Op(u)' \in EnsureOps => u = t
    BY <1>0, <2>a, OthersCarry
  <2>2. Op(t) \in GatewayOps /\ (Op(t)' = Op(t) \/ Returned(t))
    BY <1>0, <1>2 DEF GatewayOps, Framed, Op
  <2>3. pc[t] \in BareLabels => children[Gateway] = None
    BY <2>0, <2>2 DEF GatewayKept, ServersKept
  <2>4. settings = Torn => ~GatewayRuns /\ pc[t] \notin AskLabels \cup PidLabels \cup {"stop"}
    BY <1>2, <2>0 DEF OwnedFits
  <2>5. pc[t] \in AskLabels => loc[t].token = settings.token /\ loc[t].binding = settings.binding
    BY <1>2, <2>0 DEF OwnedFits
  <2>6. pc[t] \in PidLabels => Matches(loc[t].pid)
    BY <1>2, <2>0 DEF OwnedFits
  <2>7. ASSUME \/ Returned(t) /\ (settings' = Torn => ~GatewayRuns')
               \/ settings' # Torn /\ (pc'[t] \in AskLabels => loc'[t].token = settings'.token /\ loc'[t].binding = settings'.binding)
                                   /\ (pc'[t] \in PidLabels => Matches(loc[t].pid)'),
               GatewayRuns' /\ Alive(children[Gateway])' => Matches(children[Gateway])' \/ (Op(t)' \in EnsureOps /\ pc'[t] = "stop")
        PROVE  OwnedFits'
    BY <2>1, <2>7 DEF OwnedFits, Returned, AskLabels, PidLabels, Matches
  <2>8. ASSUME UNCHANGED <<settings, children>>, ~EnsureSpawn(t), pc[t] # "stop"
        PROVE  GatewayRuns' /\ Alive(children[Gateway])' => Matches(children[Gateway])'
    <3> SUFFICES ASSUME GatewayRuns', Alive(children[Gateway])' PROVE Matches(children[Gateway])'
      OBVIOUS
    <3> DEFINE pid == children[Gateway]
    <3>1. GatewayRuns /\ pid \in Pids /\ pid \notin Unused /\ children'[Gateway] = pid /\ Evolves(t)
      BY <1>0, <2>8, ServerEvolves DEF GatewayRuns, Typed, TypeOK, Unused
    <3>2. proc'[pid].st \in {"starting", "up"}
      BY <3>1 DEF Alive
    <3>3. proc[pid].st \in {"starting", "up"} /\ proc'[pid].token = proc[pid].token /\ proc'[pid].binding = proc[pid].binding
      BY <3>1, <3>2 DEF Evolves, Fades, Alive
    <3>4. Matches(pid)
      BY <1>2, <2>0, <2>a, <2>8, <3>1, <3>3 DEF OwnedFits, Alive
    <3> QED
      BY <2>8, <3>1, <3>3, <3>4 DEF Matches
  <2>10. CASE EnsureEnter(t)
    <3>1. UNCHANGED <<settings, children>> /\ pc'[t] \in {"status", "load"} /\ pc[t] \in {"start", "ensure"} /\ ~EnsureSpawn(t)
      BY <1>0, <2>10, GotoIs DEF EnsureEnter, Goto, conf, servers, At, Ensuring, EnsureSpawn
    <3> QED
      BY <1>0, <1>q, <3>1 DEF Asked, AskLabels, PidLabels
  <2>11. CASE EnsureLoad(t)
    <3>1. children[Gateway] = None /\ UNCHANGED children
      BY <2>3, <2>11 DEF EnsureLoad, Ensuring, BareLabels, servers
    <3>2. CASE Returned(t)
      BY <2>7, <3>1, <3>2 DEF GatewayRuns
    <3>3. CASE ~Returned(t)
      <4> DEFINE token == IF settings.token = 0 THEN drawn + 1 ELSE settings.token
                 first == settings.token = 0
      <4>1. /\ settings # Torn /\ Goto(t, "probe")
            /\ settings' = IF first THEN [settings EXCEPT !.token = token] ELSE settings
            /\ loc' = [loc EXCEPT ![t].base = settings.port, ![t].token = token, ![t].binding = settings.binding]
        BY <1>0, <2>11, <3>3, EndIs DEF EnsureLoad, SaveSettings, End
      <4>2. token \in Nat
        BY <1>0, <4>1 DEF Typed, TypeOK, Settings
      <4> HIDE DEF token
      <4>3. settings \in Settings /\ settings' \in Settings /\ settings'.token = token /\ settings'.binding = settings.binding
        BY <1>0, <4>1, <4>2 DEF Settings, token
      <4>4. loc'[t].token = token /\ loc'[t].binding = settings.binding /\ pc'[t] = "probe"
        BY <1>0, <4>1, LocalNames, GotoIs DEF LocalsOf, TasksTyped, Goto
      <4> QED
        BY <2>7, <3>1, <4>3, <4>4, TornUnlike DEF GatewayRuns, PidLabels
    <3> QED
      BY <3>2, <3>3
  <2>12. CASE EnsureProbe(t)
    <3>1. children[Gateway] = None /\ UNCHANGED <<children, settings>> /\ settings # Torn /\ pc[t] = "probe"
      BY <1>2, <2>3, <2>4, <2>12 DEF EnsureProbe, Ensuring, BareLabels, AskLabels, servers, conf
    <3>2. pc'[t] = "reuse" \/ (pc'[t] = "choose" /\ UNCHANGED loc)
      BY <1>0, <2>12, GotoIs DEF EnsureProbe, Goto
    <3> QED
      BY <2>5, <2>7, <3>1, <3>2 DEF GatewayRuns, AskLabels, PidLabels
  <2>13. CASE EnsureReuse(t)
    <3>1. UNCHANGED children /\ pc[t] = "reuse" /\ ~EnsureSpawn(t) /\ Returned(t)
      BY <1>0, <2>13, EndIs DEF EnsureReuse, Ensuring, servers, End, EnsureSpawn
    <3>2. Asked \/ Disturbed
      <4>1. settings # Torn => [settings EXCEPT !.port = loc[t].port] \in Settings
        BY <1>0, <1>2, <3>1 DEF LocalsOf, PortLabels, Settings
      <4> QED
        BY <1>0, <2>13, <4>1, TornUnlike DEF EnsureReuse, StorePort, SaveSettings, SaveFails, Fault, Asked, Disturbed, Settings
    <3> QED
      BY <1>q, <3>1, <3>2 DEF Returned, AskLabels, PidLabels
  <2>14. CASE EnsureChoose(t)
    <3>1. children[Gateway] = None /\ UNCHANGED <<children, settings>> /\ settings # Torn /\ pc[t] = "choose"
      BY <1>2, <2>3, <2>4, <2>14 DEF EnsureChoose, Ensuring, BareLabels, AskLabels, servers, conf
    <3>2. CASE Returned(t)
      BY <2>7, <3>1, <3>2 DEF GatewayRuns
    <3>3. ASSUME NEW port, loc' = [loc EXCEPT ![t].port = port], Goto(t, "spawn") PROVE OwnedFits'
      <4>1. pc'[t] = "spawn" /\ loc'[t].token = loc[t].token /\ loc'[t].binding = loc[t].binding
        BY <1>0, <3>3, LocalNames, GotoIs DEF LocalsOf, TasksTyped, Goto
      <4> QED
        BY <2>5, <2>7, <3>1, <4>1 DEF GatewayRuns, AskLabels, PidLabels
    <3> QED
      BY <1>0, <2>14, <3>2, <3>3, EndIs DEF EnsureChoose, End
  <2>15. CASE EnsureSpawn(t)
    <3>1. children[Gateway] = None /\ UNCHANGED <<children, settings>> /\ settings # Torn /\ pc[t] = "spawn"
      BY <1>2, <2>3, <2>4, <2>15 DEF EnsureSpawn, Ensuring, BareLabels, AskLabels, servers, conf
    <3>2. CASE Returned(t)
      BY <2>7, <3>1, <3>2 DEF GatewayRuns
    <3>3. CASE Spawned(t, loc[t].port, Gateway) /\ Goto(t, "poll")
      <4> DEFINE new == Fresh
      <4>1. /\ new \in Pids /\ loc' = [loc EXCEPT ![t].pid = new]
            /\ proc' = [proc EXCEPT ![new] = Process(Gateway, loc[t].port, loc[t].token, loc[t].binding)]
        BY <3>3, FreshIs DEF Spawned
      <4> HIDE DEF new
      <4>2. pc'[t] = "poll" /\ loc'[t].pid = new
        BY <1>0, <3>3, <4>1, LocalNames, GotoIs DEF LocalsOf, TasksTyped, Goto
      <4>3. proc'[new].token = settings.token /\ proc'[new].binding = settings.binding
        BY <2>5, <3>1, <4>1 DEF Process, Typed, TypeOK, AskLabels
      <4>4. Matches(loc[t].pid)'
        BY <3>1, <4>2, <4>3 DEF Matches
      <4> QED
        BY <2>7, <3>1, <4>2, <4>4 DEF GatewayRuns, AskLabels
    <3> QED
      BY <1>0, <2>15, <3>2, <3>3, EndIs DEF EnsureSpawn, End
  <2>16. CASE EnsurePoll(t)
    <3>1. UNCHANGED <<settings, children>> /\ pc[t] = "poll" /\ ~EnsureSpawn(t) /\ settings # Torn
      BY <1>2, <2>4, <2>16 DEF EnsurePoll, EnsureSpawn, Ensuring, conf, PidLabels
    <3>2. CASE Goto(t, "insert") /\ UNCHANGED <<loc, proc>>
      <4>1. pc'[t] = "insert" /\ Matches(loc[t].pid)'
        BY <1>0, <2>6, <3>1, <3>2, GotoIs DEF Goto, Matches, PidLabels
      <4> QED
        BY <2>7, <2>8, <3>1, <4>1 DEF AskLabels
    <3>3. CASE Returned(t)
      BY <2>7, <2>8, <3>1, <3>3 DEF Returned
    <3> QED
      BY <1>0, <2>16, <3>2, <3>3, EndIs DEF EnsurePoll, End
  <2>17. CASE EnsureInsert(t)
    <3> DEFINE pid == loc[t].pid
    <3>1. /\ UNCHANGED settings /\ pc[t] = "insert" /\ settings # Torn /\ Matches(pid) /\ pid \in Pids
          /\ children' = [children EXCEPT ![Gateway] = pid] /\ proc' = Killed({children[Gateway]})
      BY <1>0, <1>2, <2>4, <2>6, <2>17 DEF EnsureInsert, Ensuring, conf, PidLabels, LocalsOf
    <3>2. pc'[t] \in {"idle", "reuse"}
      BY <1>0, <2>17, GotoIs, EndIs DEF EnsureInsert, Goto, End, Returned
    <3> HIDE DEF pid
    <3>3. children'[Gateway] = pid /\ proc'[pid].token = proc[pid].token /\ proc'[pid].binding = proc[pid].binding
      BY <1>0, <3>1, KilledIs DEF Typed, TypeOK, Tables
    <3>4. Matches(children[Gateway])'
      BY <3>1, <3>3 DEF Matches
    <3> QED
      BY <2>7, <3>1, <3>2, <3>4 DEF AskLabels, PidLabels
  <2>18. CASE StatusLoad(t) \/ StatusReap(t)
    <3>1. UNCHANGED settings /\ ~EnsureSpawn(t) /\ pc[t] \in {"start", "status", "reap"} /\ children'[Gateway] \in {children[Gateway], None}
      BY <1>0, <2>18 DEF StatusLoad, StatusReap, EnsureSpawn, Ensuring, At, conf, servers, Typed, TypeOK
    <3>2. pc'[t] \in {"idle", "reap"}
      BY <1>0, <2>18, GotoIs, EndIs DEF StatusLoad, StatusReap, Goto, End, Returned
    <3> QED
      BY <1>q, <3>1, <3>2 DEF Asked, AskLabels, PidLabels
  <2>19. CASE StopGateway(t) \/ StopAdopted(t)
    <3>1. UNCHANGED settings /\ ~EnsureSpawn(t) /\ pc[t] \in {"stop", "adopted"} /\ children'[Gateway] = None
      BY <1>0, <1>2, <2>3, <2>19
      DEF StopGateway, StopAdopted, EnsureSpawn, Ensuring, Stopping, At, conf, Typed, TypeOK, GatewayRuns, EnsureOps, BareLabels
    <3>2. pc'[t] \in {"idle", "adopted", "ensure"}
      BY <1>0, <2>19, GotoIs, EndIs DEF StopGateway, StopAdopted, Stopped, Goto, End, Returned
    <3> QED
      BY <1>q, <3>1, <3>2 DEF Asked, AskLabels, PidLabels
  <2>20. CASE ResetToken(t)
    <3>1. UNCHANGED children /\ pc[t] = "start" /\ ~EnsureSpawn(t)
      BY <2>20 DEF ResetToken, At, servers, EnsureSpawn, Ensuring
    <3>2. CASE Returned(t)
      <4>1. UNCHANGED settings
        BY <1>0, <2>0, <2>20, <3>2, GotoIs DEF ResetToken, SaveFails, Fault, Goto, Returned, Typed, TypeOK
      <4> QED
        BY <1>q, <3>1, <3>2, <4>1 DEF Asked, Returned, AskLabels, PidLabels
    <3>3. CASE ~Returned(t)
      <4>1. settings # Torn /\ settings' = [settings EXCEPT !.token = drawn + 1] /\ Goto(t, "stop") /\ drawn \in Nat
        BY <1>0, <2>20, <3>3, EndIs DEF ResetToken, SaveSettings, End, Typed, TypeOK
      <4>2. settings' \in Settings
        BY <1>0, <4>1 DEF Settings
      <4>3. Op(t)' = Op(t) /\ pc'[t] = "stop"
        BY <1>0, <4>1, GotoIs DEF Goto, Op
      <4> QED
        BY <1>2, <2>7, <4>2, <4>3, TornUnlike DEF AskLabels, PidLabels
    <3> QED
      BY <3>2, <3>3
  <2>21. CASE SaveForm(t)
    <3> DEFINE current == IF settings = Torn THEN DefaultSettings ELSE settings
               merged == MergeSettings(current, cmd[t].form)
    <3>0. /\ settings' = merged
          /\ IF merged.binding # current.binding THEN \E marks : GotoMarked(t, "stop", marks) /\ UNCHANGED loc
                                                ELSE \E marks : EndMarked(t, marks)
      <4>1. PICK read \in Readable :
              /\ settings' = MergeSettings(read, cmd[t].form)
              /\ \E marks : /\ marks = FormMarks(read, MergeSettings(read, cmd[t].form)) /\ clash' = clash \cup marks
                            /\ IF MergeSettings(read, cmd[t].form).binding # read.binding
                                 THEN GotoMarked(t, "stop", marks) /\ UNCHANGED loc ELSE EndMarked(t, marks)
        BY <2>0, <2>21 DEF SaveForm, SaveSettings, SaveFails, Fault, GotoMarked, EndMarked, Typed, TypeOK
      <4>2. read = current
        BY <4>1 DEF Readable, FormMarks
      <4> QED
        BY <4>1, <4>2
    <3>1. UNCHANGED children /\ pc[t] = "start" /\ ~EnsureSpawn(t) /\ settings' = merged /\ Op(t) = "save"
      BY <2>21, <3>0 DEF SaveForm, At, servers, EnsureSpawn, Ensuring
    <3>2. current \in Settings /\ merged \in Settings /\ merged.token = current.token
      <4>1. current \in Settings
        BY <1>0, DefaultTyped
      <4>2. cmd[t].form \in Forms
        BY <1>0, <3>1, CommandIs DEF Op
      <4> HIDE DEF current
      <4>3. merged.token = current.token
        <5>1. \A c \in Settings, f \in Forms : MergeSettings(c, f).token = c.token
          BY DEF MergeSettings, Settings
        <5> QED
          BY <4>1, <4>2, <5>1
      <4> QED
        BY <4>1, <4>2, <4>3, OverlaysTyped
    <3>3. CASE merged.binding # current.binding
      <4>1. PICK marks : GotoMarked(t, "stop", marks)
        BY <3>0, <3>3
      <4>2. Op(t)' = Op(t) /\ pc'[t] = "stop"
        BY <1>0, <4>1, GotoIs DEF Op
      <4> HIDE DEF merged
      <4> QED
        BY <1>2, <2>7, <3>1, <3>2, <4>2, TornUnlike DEF AskLabels, PidLabels
    <3>4. CASE merged.binding = current.binding
      <4>1. Returned(t)
        BY <1>0, <3>0, <3>4, EndIs
      <4>2. settings' # Torn
        BY <3>1, <3>2, TornUnlike
      <4>3. CASE settings = Torn
        BY <2>4, <2>7, <3>1, <4>1, <4>2, <4>3 DEF GatewayRuns
      <4>4. CASE settings # Torn
        <5>1. Asked
          BY <3>1, <3>2, <3>4, <4>2, <4>4 DEF Asked
        <5> QED
          BY <1>q, <3>1, <4>1, <5>1 DEF Returned, AskLabels, PidLabels
      <4> QED
        BY <4>3, <4>4
    <3> QED
      BY <3>3, <3>4
  <2>22. /\ ~StartLookup(t, Installed) /\ ~StartSettings(t) /\ ~StartSpawn(t) /\ ~StartInsert(t) /\ ~StartList(t)
         /\ ~Unlist(t) /\ ~StopChild(t) /\ ~BatchSettings(t) /\ ~BatchLock(t) /\ ~BatchLaunch(t, Installed)
    BY <1>2 DEF EnsureOps, At, StartLookup, StartSettings, StartSpawn, StartInsert, StartList, Unlist, StopChild,
       BatchSettings, BatchLock, BatchLaunch
  <2> QED
    BY <2>10, <2>11, <2>12, <2>13, <2>14, <2>15, <2>16, <2>17, <2>18, <2>19, <2>20, <2>21, <2>22 DEF ServerStep
<1> QED
  BY <1>1, <1>2

LEMMA LibraryFaults ==
  ASSUME Inv, Typed, NEW t \in Tasks, LibraryStep(t) \/ Dismiss(t)
  PROVE  faults' \in {faults, faults + 1}
<1>1. CASE LibraryStep(t)
  BY <1>1, LibraryWrites
<1>2. CASE Dismiss(t)
  BY <1>2 DEF Dismiss, SaveSettings, SaveFails, Fault
<1> QED
  BY <1>1, <1>2

(* No command on the library is a gateway command.                         *)
LEMMA LibraryApart == ASSUME TasksTyped, NEW t \in Tasks, LibraryStep(t), UNCHANGED servers PROVE Op(t) \notin EnsureOps
<1>1. Op(t) \in LibraryOps \cup {"pick", "cancel"}
  <2>1. ASSUME ImportCheck(t) \/ ImportOpen(t) \/ ImportFilled(t) \/ ImportLoad(t) \/ ImportSave(t)
               \/ RemoveLoad(t) \/ RemoveUnlink(t) \/ RemoveSave(t) \/ PickDecide(t) \/ PickAdopt(t) \/ CancelChange(t)
        PROVE  Op(t) \in LibraryOps \cup {"pick", "cancel"}
    BY <2>1 DEF ImportCheck, ImportOpen, ImportFilled, ImportLoad, ImportSave, RemoveLoad, RemoveUnlink, RemoveSave,
       PickDecide, PickAdopt, CancelChange, At, LibraryOps
  <2>2. ASSUME ApplyBegin(t) \/ ApplyResolve(t) \/ ApplyTargets(t) \/ MoveOne(t) \/ MoveCopied(t) \/ MoveUnlink(t)
               \/ Rollback(t) \/ MigrateSave(t) \/ EraseOne(t) \/ EraseSave(t) \/ Adopt(t)
        PROVE  Op(t) \in LibraryOps
    BY <2>2 DEF ApplyBegin, ApplyResolve, ApplyTargets, MoveOne, MoveCopied, MoveUnlink, Rollback, MigrateSave,
       EraseOne, EraseSave, Adopt, Applying, ApplyOps, LibraryOps
  <2> QED
    BY <2>1, <2>2 DEF LibraryStep
<1> QED
  BY <1>1 DEF LibraryOps, EnsureOps

LEMMA NextOwned == Inv /\ Typed /\ Alone /\ ServersKept /\ OwnedFits /\ [Next]_vars => OwnedFits'
<1> SUFFICES ASSUME Inv, Typed, Alone, ServersKept, OwnedFits, [Next]_vars PROVE OwnedFits'
  OBVIOUS
<1>0. TasksTyped /\ faults \in Nat /\ Gateway \in Keys
  BY DEF Typed, Inv, Keys
<1>1. ASSUME NEW t \in Tasks, LibraryStep(t), UNCHANGED servers PROVE OwnedFits'
  <2>1. Framed(t) /\ Op(t) \notin EnsureOps /\ UNCHANGED <<children, proc>>
    BY <1>0, <1>1, LibraryFrame, LibraryApart DEF servers
  <2>2. (Asked \/ Disturbed) /\ faults' \in {faults, faults + 1}
    BY <1>1, LibraryAsks, LibraryFaults DEF AskKept
  <2> QED
    BY <2>1, <2>2, StillEvolves, QuietOwned
<1>2. ASSUME NEW t \in Tasks, Dismiss(t), UNCHANGED <<library, servers>> PROVE OwnedFits'
  <2>1. Framed(t) /\ Op(t) \notin EnsureOps /\ UNCHANGED <<children, proc>>
    BY <1>0, <1>2, EndIs DEF Dismiss, End, At, servers, EnsureOps
  <2>2. (Asked \/ Disturbed) /\ faults' \in {faults, faults + 1}
    BY <1>2, DismissAsks, LibraryFaults DEF AskKept
  <2> QED
    BY <2>1, <2>2, StillEvolves, QuietOwned
<1>3. ASSUME NEW t \in Tasks, Clear(t) \/ Drain(t) PROVE OwnedFits'
  <2>1. /\ Framed(t) /\ Op(t) \notin EnsureOps /\ UNCHANGED <<proc, settings, faults>>
        /\ children'[Gateway] \in {children[Gateway], None}
    BY <1>0, <1>3, GotoIs DEF Clear, Drain, Goto, At, EnsureOps, conf, TasksTyped
  <2> QED
    BY <2>1, StillEvolves, QuietOwned DEF Asked
<1>4. ASSUME NEW killed, NEW errors, Relaunch(killed, errors) PROVE OwnedFits'
  <2>1. /\ \A t \in Tasks : Op(t)' = "none"
        /\ children'[Gateway] = None
    BY <1>0, <1>4 DEF Relaunch, Gone, Op
  <2> QED
    BY <2>1 DEF OwnedFits, EnsureOps, GatewayRuns
<1>5. ASSUME NEW t \in Tasks, Issue(t), UNCHANGED <<library, servers>> PROVE OwnedFits'
  <2>1. /\ pc' = [pc EXCEPT ![t] = "start"] /\ UNCHANGED <<loc, settings, faults, children, proc>> /\ clash \subseteq clash'
        /\ pc[t] = "idle" /\ \E c \in waiting : cmd' = [cmd EXCEPT ![t] = c]
    BY <1>0, <1>5 DEF Issue, conf, servers, TasksTyped, LocalsOf
  <2>2. /\ pc'[t] = "start"
        /\ \A u \in Tasks \ {t} : pc'[u] = pc[u] /\ Op(u)' = Op(u)
    BY <1>0, <2>1 DEF TasksTyped, Op
  <2>3. \A u \in Tasks : Op(u)' \in EnsureOps /\ pc'[u] \in AskLabels \cup PidLabels \cup {"stop"}
          => Op(u) = Op(u)' /\ pc[u] = pc'[u] /\ loc[u] = loc'[u]
    BY <2>1, <2>2 DEF AskLabels, PidLabels
  <2>4. \A u \in Tasks : Op(u) \in EnsureOps /\ pc[u] = "stop" => Op(u)' \in EnsureOps /\ pc'[u] = "stop"
    BY <2>1, <2>2
  <2> QED
    BY <2>1, <2>3, <2>4, StillOwned, StillEvolves DEF Asked
<1>6. ASSUME UNCHANGED <<tasks, settings, children>>, faults' \in {faults, faults + 1}, \A p \in Pids : Fades(p) PROVE OwnedFits'
  <2>1. \A u \in Tasks : Op(u)' = Op(u) /\ pc'[u] = pc[u] /\ loc'[u] = loc[u]
    BY <1>6 DEF tasks, Op
  <2>2. Evolves(0) /\ clash \subseteq clash'
    BY <1>6 DEF Evolves, tasks
  <2> QED
    BY <1>6, <2>1, <2>2, StillOwned DEF Asked
<1>7. ASSUME NEW q \in Pids, Settles(q) \/ Crashes(q) PROVE OwnedFits'
  <2>1. UNCHANGED <<tasks, settings, children>> /\ faults' \in {faults, faults + 1}
    BY <1>7 DEF Settles, Crashes, conf, Fault
  <2> QED
    BY <1>6, <1>7, <2>1, ProcessFades
<1>8. CASE UNCHANGED vars
  BY <1>6, <1>8 DEF vars, servers, conf, Fades, Alive
<1>10. ASSUME NEW t \in Tasks, AsideStep(t) PROVE OwnedFits'
  <2>1. Framed(t) /\ Op(t) \notin EnsureOps /\ UNCHANGED <<children, proc>>
    BY <1>0, <1>10, AsideIs DEF servers, EnsureOps
  <2>2. (Asked \/ Disturbed) /\ faults' \in {faults, faults + 1}
    BY <1>0, <1>10, AsideIs DEF Asked, Disturbed, Fault
  <2> QED
    BY <2>1, <2>2, StillEvolves, QuietOwned
<1>9. ASSUME NEW t \in Tasks, TaskStep(t) PROVE OwnedFits'
  BY <1>1, <1>2, <1>3, <1>4, <1>9, <1>10, ServerOwned DEF TaskStep, AsideStep, Quit
<1> QED
  BY <1>4, <1>5, <1>7, <1>8, <1>9, <1>10 DEF Next, AsideStep, Kill

LEMMA InitOwned == Init => OwnedFits
<1> SUFFICES ASSUME Init PROVE OwnedFits
  OBVIOUS
<1>1. Gateway \in Keys /\ \A t \in Tasks : Op(t) = "none"
  BY DEF Init, Op, Keys
<1>2. children[Gateway] = None
  BY <1>1 DEF Init
<1> QED
  BY <1>1, <1>2 DEF OwnedFits, EnsureOps, GatewayRuns

LEMMA OwnedHolds == Spec => []OwnedFits
<1>1. Inv /\ Typed /\ Alone /\ ServersKept /\ OwnedFits /\ [Next]_vars => OwnedFits'
  BY NextOwned
<1> QED
  BY <1>1, KeptHolds, InitOwned, PTL DEF Spec

(* Whatever is saved, reset or launched, one gateway command after the     *)
(* other, the gateway the app owns was started with the token and the      *)
(* binding it stores: before the first error, and unless a process beside  *)
(* the app has overtaken the settings.                                     *)
THEOREM OwnedStaysMatched == Spec => []OwnedMatches
<1>1. OwnedFits => OwnedMatches
  <2>1. \A t \in Tasks : Op(t) \in EnsureOps => "gateway" \in Areas(Op(t))
    BY AreasAre DEF GatewayOps
  <2> QED
    BY <2>1 DEF OwnedFits, OwnedMatches, Busy, Matches
<1> QED
  BY <1>1, OwnedHolds, PTL
-----------------------------------------------------------------------------
-----------------------------------------------------------------------------
(* Steps that draw no token, and hand on none but those already drawn.     *)
Redrawn ==
  \/ settings' = Torn \/ (settings # Torn /\ settings'.token = settings.token) \/ settings'.token = 0
  \/ "overtaken" \in clash'

LEMMA StillDrawn ==
  ASSUME Typed, TokensDrawn, UNCHANGED drawn, clash \subseteq clash', Redrawn,
         \A u \in Tasks : /\ loc'[u].token \in {loc[u].token, 0}
                          /\ Op(u)' \in EnsureOps /\ pc'[u] \in AskLabels
                               => Op(u) \in EnsureOps /\ pc[u] \in AskLabels /\ loc'[u].token = loc[u].token,
         \A p \in Pids : proc'[p].token \in {proc[p].token, 0} \/ \E u \in Tasks : proc'[p].token = loc[u].token
  PROVE  TokensDrawn'
<1>1. drawn \in Nat
  BY DEF Typed, TypeOK
<1>2. \A u \in Tasks : Op(u)' \in EnsureOps /\ pc'[u] \in AskLabels => loc'[u].token # 0
  BY DEF TokensDrawn
<1> SUFFICES ASSUME "overtaken" \notin clash'
             PROVE  /\ settings' # Torn => settings'.token <= drawn'
                    /\ \A u \in Tasks : loc'[u].token <= drawn'
                    /\ \A p \in Pids : proc'[p].token <= drawn'
  BY <1>2 DEF TokensDrawn
<1>3. settings' # Torn => settings'.token <= drawn'
  BY <1>1 DEF TokensDrawn, Redrawn
<1>4. \A u \in Tasks : loc'[u].token <= drawn'
  BY <1>1 DEF TokensDrawn
<1>5. \A p \in Pids : proc'[p].token <= drawn'
  BY <1>1 DEF TokensDrawn
<1> QED
  BY <1>3, <1>4, <1>5

LEMMA ServerDrawn ==
  ASSUME Typed, TokensDrawn, NEW t \in Tasks, ServerStep(t, Installed)
  PROVE  TokensDrawn'
<1>0. /\ Framed(t) /\ LocalsOf(t) /\ TasksTyped /\ proc \in Tables /\ drawn \in Nat
      /\ (settings \in Settings \/ settings = Torn) /\ clash \subseteq clash'
      /\ (cmd[t] # None => cmd[t] \in Commands)
  BY ServerFrame DEF Typed, TypeOK, TasksTyped, Tables, Framed
<1>1. \A p \in Pids : proc'[p].token \in {proc[p].token, 0, loc[t].token}
  <2>1. CASE EnsureSpawn(t)
    <3>1. UNCHANGED proc \/ \E port : proc' = [proc EXCEPT ![Fresh] = Process(Gateway, port, loc[t].token, loc[t].binding)]
      BY <2>1 DEF EnsureSpawn, Spawned
    <3> QED
      BY <1>0, <3>1 DEF Process, Tables
  <2>2. CASE ~EnsureSpawn(t)
    BY <2>2, ServerEvolves DEF Evolves, Fades
  <2> QED
    BY <2>1, <2>2
<1>2. \A u \in Tasks \ {t} : loc'[u] = loc[u] /\ pc'[u] = pc[u] /\ Op(u)' = Op(u)
  BY <1>0, OthersCarry
<1>s. ASSUME UNCHANGED drawn, Redrawn,
             loc'[t].token \in {loc[t].token, 0},
             Op(t)' \in EnsureOps /\ pc'[t] \in AskLabels
               => Op(t) \in EnsureOps /\ pc[t] \in AskLabels /\ loc'[t].token = loc[t].token
      PROVE  TokensDrawn'
  <2>1. \A u \in Tasks : /\ loc'[u].token \in {loc[u].token, 0}
                         /\ Op(u)' \in EnsureOps /\ pc'[u] \in AskLabels
                              => Op(u) \in EnsureOps /\ pc[u] \in AskLabels /\ loc'[u].token = loc[u].token
    BY <1>s, <1>2
  <2>2. \A p \in Pids : proc'[p].token \in {proc[p].token, 0} \/ \E u \in Tasks : proc'[p].token = loc[u].token
    BY <1>1
  <2> QED
    BY <1>0, <1>s, <2>1, <2>2, StillDrawn
<1>n. ASSUME drawn' = drawn + 1, settings' # Torn => settings'.token <= drawn + 1,
             "overtaken" \notin clash => loc'[t].token <= drawn + 1,
             pc'[t] \in AskLabels => loc'[t].token # 0
      PROVE  TokensDrawn'
  <2>1. \A u \in Tasks : loc[u].token \in Nat
    BY DEF Typed, TasksTyped, LocalsOf
  <2>2. "overtaken" \notin clash => \A u \in Tasks : loc'[u].token <= drawn'
    BY <1>0, <1>n, <1>2, <2>1 DEF TokensDrawn
  <2>3. \A u \in Tasks : Op(u)' \in EnsureOps /\ pc'[u] \in AskLabels => loc'[u].token # 0
    BY <1>n, <1>2 DEF TokensDrawn
  <2>4. \A p \in Pids : proc[p].token \in Nat
    BY <1>0 DEF Tables, Procs
  <2>5. "overtaken" \notin clash => \A p \in Pids : proc'[p].token <= drawn'
    BY <1>0, <1>1, <1>n, <2>1, <2>4 DEF TokensDrawn
  <2> QED
    BY <1>0, <1>n, <2>2, <2>3, <2>5 DEF TokensDrawn
<1>3. CASE Returned(t) /\ UNCHANGED drawn /\ (settings' = Torn \/ UNCHANGED settings)
  BY <1>s, <1>3 DEF Returned, NoLocals, AskLabels, Redrawn
<1>4. CASE EnsureLoad(t)
  <2>1. CASE Returned(t)
    <3>1. UNCHANGED drawn /\ (settings' = Torn \/ UNCHANGED settings)
      BY <1>0, <2>1, <1>4, GotoIs DEF EnsureLoad, Goto, Returned, SaveFails
    <3> QED
      BY <1>3, <2>1, <3>1
  <2>2. CASE ~Returned(t)
    <3> DEFINE token == IF settings.token = 0 THEN drawn + 1 ELSE settings.token
               first == settings.token = 0
    <3>1. /\ settings # Torn /\ Goto(t, "probe")
          /\ IF first THEN settings' = [settings EXCEPT !.token = token] /\ drawn' = token ELSE UNCHANGED <<settings, drawn>>
          /\ loc' = [loc EXCEPT ![t].base = settings.port, ![t].token = token, ![t].binding = settings.binding]
      BY <1>0, <1>4, <2>2, EndIs DEF EnsureLoad, SaveSettings, End
    <3>2. token \in Nat /\ token # 0 /\ settings.token \in Nat
          /\ ("overtaken" \notin clash => settings.token <= drawn)
      BY <1>0, <3>1 DEF Typed, TypeOK, Settings, TokensDrawn
    <3> HIDE DEF token
    <3>3. loc'[t].token = token /\ pc'[t] = "probe"
      BY <1>0, <3>1, LocalNames, GotoIs DEF LocalsOf, TasksTyped, Goto
    <3>4. CASE first
      <4>1. settings'.token = drawn + 1 /\ drawn' = drawn + 1 /\ token = drawn + 1
        BY <1>0, <3>1, <3>2, <3>4 DEF token, Settings
      <4> QED
        BY <1>0, <1>n, <3>2, <3>3, <4>1
    <3>5. CASE ~first
      <4>1. UNCHANGED <<settings, drawn>> /\ token = settings.token
        BY <3>1, <3>5 DEF token
      <4>2. "overtaken" \notin clash => \A u \in Tasks : loc'[u].token <= drawn'
        BY <1>2, <3>2, <3>3, <4>1 DEF TokensDrawn
      <4>3. \A u \in Tasks : Op(u)' \in EnsureOps /\ pc'[u] \in AskLabels => loc'[u].token # 0
        BY <1>2, <3>2, <3>3 DEF TokensDrawn
      <4>4. "overtaken" \notin clash => \A p \in Pids : proc'[p].token <= drawn'
        BY <1>0, <1>1, <4>1 DEF TokensDrawn
      <4> QED
        BY <1>0, <3>2, <4>1, <4>2, <4>3, <4>4 DEF TokensDrawn
    <3> QED
      BY <3>4, <3>5
  <2> QED
    BY <2>1, <2>2
<1>5. CASE ResetToken(t)
  <2>1. CASE Returned(t)
    <3>1. UNCHANGED drawn /\ (settings' = Torn \/ UNCHANGED settings)
      BY <1>0, <2>1, <1>5, GotoIs DEF ResetToken, Goto, Returned, SaveFails
    <3> QED
      BY <1>3, <2>1, <3>1
  <2>2. CASE ~Returned(t)
    <3>1. settings # Torn /\ settings' = [settings EXCEPT !.token = drawn + 1] /\ drawn' = drawn + 1 /\ Goto(t, "stop") /\ UNCHANGED loc
      BY <1>0, <1>5, <2>2, EndIs DEF ResetToken, SaveSettings, End
    <3>2. settings'.token = drawn + 1 /\ pc'[t] = "stop" /\ loc'[t].token = loc[t].token
      BY <1>0, <3>1, GotoIs DEF Goto, Settings
    <3>3. loc[t].token \in Nat /\ ("overtaken" \notin clash => loc[t].token <= drawn)
      BY <1>0 DEF LocalsOf, TokensDrawn
    <3> QED
      BY <1>0, <1>n, <3>1, <3>2, <3>3 DEF AskLabels
  <2> QED
    BY <2>1, <2>2
<1>6. CASE EnsureReuse(t)
  <2>1. Returned(t) /\ UNCHANGED drawn
    BY <1>0, <1>6, EndIs DEF EnsureReuse, End
  <2>2. settings' = Torn \/ UNCHANGED settings \/ (settings # Torn /\ settings'.token = settings.token)
    BY <1>0, <1>6 DEF EnsureReuse, StorePort, SaveSettings, SaveFails, Settings
  <2> QED
    BY <1>s, <2>1, <2>2 DEF Returned, NoLocals, AskLabels, Redrawn
<1>7. CASE SaveForm(t)
  <2>1. Redrawn
    <3>1. CASE SaveFails
      BY <1>0, <3>1 DEF SaveFails, Redrawn
    <3>2. ASSUME NEW current \in Readable, settings' = MergeSettings(current, cmd[t].form) PROVE Redrawn
      <4>1. current \in Settings /\ (current.token = 0 \/ (settings # Torn /\ current.token = settings.token))
        <5>1. DefaultSettings.token = 0 /\ (current = DefaultSettings \/ (settings # Torn /\ current = settings))
          BY <3>2 DEF Readable, DefaultSettings
        <5> QED
          BY <1>0, <5>1, DefaultTyped
      <4>2. settings'.token = current.token
        BY <3>2, <4>1 DEF MergeSettings, Settings
      <4> QED
        BY <4>1, <4>2 DEF Redrawn
    <3> QED
      BY <1>7, <3>1, <3>2 DEF SaveForm, SaveSettings
  <2>2. UNCHANGED drawn
    BY <1>7 DEF SaveForm
  <2>3. Returned(t) \/ (pc'[t] = "stop" /\ UNCHANGED loc)
    BY <1>0, <1>7, GotoIs, EndIs DEF SaveForm, End
  <2> QED
    BY <1>s, <2>1, <2>2, <2>3 DEF Returned, NoLocals, Op, AskLabels
<1>8. CASE ~EnsureLoad(t) /\ ~ResetToken(t) /\ ~EnsureReuse(t) /\ ~SaveForm(t)
  <2>1. UNCHANGED <<settings, drawn>>
    BY <1>8, ServerAsks
  <2>2. CASE Returned(t)
    BY <1>3, <2>1, <2>2
  <2>3. ASSUME ~Returned(t)
        PROVE  /\ loc'[t].token = loc[t].token
               /\ Op(t)' \in EnsureOps /\ pc'[t] \in AskLabels => Op(t) \in EnsureOps /\ pc[t] \in AskLabels
    <3>0. Op(t)' = Op(t)
      BY <1>0, <2>3 DEF Framed, Op
    <3> USE <1>0, <2>3, <3>0, GotoIs, EndIs, LocalNames DEF Goto, End, LocalsOf, TasksTyped, AskLabels, EnsureOps
    <3>1. CASE StartLookup(t, Installed) \/ Unlist(t) \/ StopChild(t) \/ StartInsert(t) \/ StartList(t)
               \/ BatchLock(t) \/ BatchLaunch(t, Installed)
      BY <3>1 DEF StartLookup, Unlist, StopChild, StartInsert, StartList, BatchLock, BatchLaunch
    <3>2. CASE StartSettings(t)
      BY <3>2 DEF StartSettings, At
    <3>3. CASE BatchSettings(t)
      BY <3>3 DEF BatchSettings, At
    <3>4. CASE StartSpawn(t)
      BY <3>4 DEF StartSpawn, Spawned, At
    <3>5. CASE EnsureEnter(t) \/ StatusLoad(t) \/ StatusReap(t) \/ StopAdopted(t)
      BY <3>5 DEF EnsureEnter, StatusLoad, StatusReap, StopAdopted, Stopped
    <3>6. CASE EnsureProbe(t)
      BY <3>6 DEF EnsureProbe, Ensuring
    <3>7. CASE EnsureChoose(t)
      BY <3>7 DEF EnsureChoose, Ensuring
    <3>8. CASE EnsureSpawn(t)
      <4>1. Goto(t, "poll") /\ Spawned(t, loc[t].port, Gateway)
        BY <3>8 DEF EnsureSpawn
      <4>2. pc'[t] = "poll" /\ loc'[t].token = loc[t].token
        BY <4>1 DEF Spawned
      <4> QED
        BY <4>2
    <3>9. CASE EnsurePoll(t) \/ EnsureInsert(t) \/ StopGateway(t)
      BY <3>9 DEF EnsurePoll, EnsureInsert, StopGateway, Stopped
    <3> QED
      BY <1>8, <3>1, <3>2, <3>3, <3>4, <3>5, <3>6, <3>7, <3>8, <3>9 DEF ServerStep
  <2> QED
    BY <1>s, <2>1, <2>2, <2>3 DEF Redrawn
<1> QED
  BY <1>4, <1>5, <1>6, <1>7, <1>8

(* A launch stores what it has read, with another folder at most.          *)
LEMMA LaunchStores ==
  ASSUME Typed, NEW read \in {settings, Torn}, NEW errors, Launched(read, errors)
  PROVE  /\ clash \subseteq clash'
         /\ settings' # Torn =>
              LET found == IF read = Torn THEN DefaultSettings ELSE read
              IN  settings'.token = found.token /\ settings'.port = found.port
<1> DEFINE found == IF read = Torn THEN DefaultSettings ELSE read
<1>1. PICK folder \in Folders \cup {None} :
        /\ \E save \in LaunchSaves(read, found, folder) : settings' = save[1]
        /\ clash \subseteq clash'
  BY DEF Launched
<1>2. settings' \in {read, Torn, Chosen(read, found, folder)}
  BY <1>1 DEF LaunchSaves
<1>3. found \in Settings
  BY DefaultTyped DEF Typed, TypeOK
<1>4. settings' \in {read, Torn} \/ settings' = [found EXCEPT !.dir = folder, !.mark = folder]
  BY <1>2 DEF Chosen
<1>5. settings' # Torn /\ settings' = read => settings' = found
  OBVIOUS
<1> HIDE DEF found
<1>6. settings' # Torn => settings'.token = found.token /\ settings'.port = found.port
  BY <1>3, <1>4, <1>5 DEF Settings
<1> QED
  BY <1>1, <1>6 DEF found

LEMMA NextDrawn == Inv /\ Typed /\ TokensDrawn /\ [Next]_vars => TokensDrawn'
<1> SUFFICES ASSUME Inv, Typed, TokensDrawn, [Next]_vars PROVE TokensDrawn'
  OBVIOUS
<1>0. TasksTyped
  BY DEF Typed
<1>a. AskKept => Redrawn
  BY DEF AskKept, Asked, Disturbed, Redrawn
<1>b. ASSUME NEW t \in Tasks, Framed(t), UNCHANGED <<proc, drawn>>, AskKept, Op(t)' \notin EnsureOps,
             loc'[t].token \in {loc[t].token, 0}
      PROVE  TokensDrawn'
  <2>1. \A u \in Tasks : /\ loc'[u].token \in {loc[u].token, 0}
                         /\ Op(u)' \in EnsureOps /\ pc'[u] \in AskLabels
                              => Op(u) \in EnsureOps /\ pc[u] \in AskLabels /\ loc'[u].token = loc[u].token
    BY <1>b, OthersCarry
  <2> QED
    BY <1>a, <1>b, <2>1, StillDrawn DEF Framed
<1>1. ASSUME NEW t \in Tasks, LibraryStep(t), UNCHANGED servers PROVE TokensDrawn'
  <2>1. Framed(t) /\ UNCHANGED <<proc, drawn>> /\ AskKept /\ Op(t)' \notin EnsureOps
    BY <1>0, <1>1, LibraryFrame, LibraryApart, LibraryAsks, LibraryDraws DEF servers, Framed, Returned, Op, EnsureOps
  <2>2. loc'[t].token \in {loc[t].token, 0}
    <3>0. LocalsOf(t) /\ DOMAIN loc = Tasks
      BY <1>0 DEF TasksTyped
    <3> USE <1>0, <3>0, EndIs, LocalNames DEF LocalsOf, End, Abort, Returned, NoLocals
    <3>1. ASSUME ImportCheck(t) \/ ImportFilled(t) \/ ImportSave(t) \/ RemoveUnlink(t) \/ RemoveSave(t) \/ PickDecide(t)
                 \/ PickAdopt(t) \/ CancelChange(t) \/ MoveCopied(t) \/ MigrateSave(t) \/ EraseSave(t) \/ Adopt(t)
          PROVE  loc'[t].token \in {loc[t].token, 0}
      BY <3>1 DEF ImportCheck, ImportFilled, ImportSave, RemoveUnlink, RemoveSave, PickDecide, PickAdopt, CancelChange,
         MoveCopied, MoveFails, MigrateSave, EraseSave, Saved, Adopt
    <3>2. CASE ImportOpen(t) \/ ImportLoad(t) \/ RemoveLoad(t)
      BY <3>2 DEF ImportOpen, ImportLoad, RemoveLoad, Load
    <3>3. CASE ApplyBegin(t) \/ ApplyResolve(t) \/ ApplyTargets(t)
      BY <3>3 DEF ApplyBegin, ApplyResolve, ApplyTargets
    <3>4. CASE MoveOne(t)
      BY <3>4 DEF MoveOne, Moved, MoveFails
    <3>5. CASE MoveUnlink(t)
      BY <3>5 DEF MoveUnlink, Moved, MoveFails
    <3>6. CASE Rollback(t) \/ EraseOne(t)
      BY <3>6 DEF Rollback, EraseOne
    <3> QED
      BY <1>1, <3>1, <3>2, <3>3, <3>4, <3>5, <3>6 DEF LibraryStep
  <2> QED
    BY <1>b, <2>1, <2>2
<1>2. ASSUME NEW t \in Tasks, Dismiss(t), UNCHANGED <<library, servers>> PROVE TokensDrawn'
  <2>1. Framed(t) /\ UNCHANGED <<proc, drawn>> /\ AskKept /\ Returned(t)
    BY <1>0, <1>2, EndIs, DismissAsks DEF Dismiss, End, servers
  <2> QED
    BY <1>b, <2>1 DEF Returned, NoLocals, Op, EnsureOps
<1>3. ASSUME NEW t \in Tasks, Clear(t) \/ Drain(t) PROVE TokensDrawn'
  <2>1. /\ Framed(t) /\ Op(t)' \notin EnsureOps /\ UNCHANGED <<proc, settings, drawn>>
        /\ UNCHANGED loc \/ loc' = [loc EXCEPT ![t].moved = Owned]
    BY <1>0, <1>3, GotoIs DEF Clear, Drain, Goto, At, Op, EnsureOps, conf, TasksTyped
  <2>2. loc'[t].token = loc[t].token
    BY <1>0, <2>1, LocalNames DEF TasksTyped, LocalsOf
  <2> QED
    BY <1>b, <2>1, <2>2 DEF AskKept, Asked
<1>4. ASSUME NEW killed, NEW errors, Relaunch(killed, errors) PROVE TokensDrawn'
  <2>1. /\ \A t \in Tasks : Op(t)' = "none" /\ loc'[t].token = 0
        /\ UNCHANGED drawn
    BY <1>0, <1>4 DEF Relaunch, Gone, Op, NoLocals
  <2>2. \A p \in Pids : proc'[p].token = proc[p].token
    BY <1>4, LeftFades DEF Fades
  <2>3. Redrawn /\ clash \subseteq clash'
    <3>1. PICK read \in {settings, Torn} : Launched(read, errors)
      BY <1>4 DEF Relaunch
    <3> QED
      BY <3>1, LaunchStores DEF Redrawn, DefaultSettings
  <2> QED
    BY <2>1, <2>2, <2>3, StillDrawn DEF EnsureOps
<1>5. ASSUME NEW t \in Tasks, Issue(t), UNCHANGED <<library, servers>> PROVE TokensDrawn'
  <2>1. /\ pc' = [pc EXCEPT ![t] = "start"] /\ UNCHANGED <<loc, settings, drawn, proc>>
        /\ \E c \in waiting : cmd' = [cmd EXCEPT ![t] = c]
    BY <1>5 DEF Issue, conf, servers
  <2>2. /\ pc'[t] = "start"
        /\ \A u \in Tasks \ {t} : pc'[u] = pc[u] /\ Op(u)' = Op(u)
    BY <1>0, <2>1 DEF TasksTyped, Op
  <2>3. Redrawn /\ clash \subseteq clash'
    BY <1>5, <2>1 DEF Redrawn, Issue
  <2> QED
    BY <2>1, <2>2, <2>3, StillDrawn DEF AskLabels
<1>6. ASSUME UNCHANGED <<tasks, settings, drawn>>, \A p \in Pids : Fades(p) PROVE TokensDrawn'
  <2>1. \A u \in Tasks : Op(u)' = Op(u) /\ pc'[u] = pc[u] /\ loc'[u] = loc[u]
    BY <1>6 DEF tasks, Op
  <2> QED
    BY <1>6, <2>1, StillDrawn DEF Fades, Redrawn, tasks
<1>7. ASSUME NEW q \in Pids, Settles(q) \/ Crashes(q) PROVE TokensDrawn'
  BY <1>6, <1>7, ProcessFades DEF Settles, Crashes, conf
<1>8. CASE UNCHANGED vars
  BY <1>6, <1>8 DEF vars, servers, conf, Fades, Alive
<1>10. ASSUME NEW t \in Tasks, AsideStep(t) PROVE TokensDrawn'
  <2>1. /\ Framed(t) /\ UNCHANGED <<proc, drawn>> /\ AskKept /\ Op(t)' \notin EnsureOps
    BY <1>0, <1>10, AsideIs DEF servers, Framed, Returned, Op, EnsureOps, AskKept, Asked, Disturbed, Fault
  <2>2. loc'[t].token \in {loc[t].token, 0}
    <3> USE <1>0, EndIs, LocalNames DEF TasksTyped, LocalsOf, End, Returned, NoLocals
    <3>1. CASE MetricsStep(t) \/ Answered(t)
      BY <3>1 DEF MetricsStep, MetricsFile, MetricsAsk, Answered
    <3>2. CASE ProxyResolve(t) \/ ProxyLoad(t)
      BY <3>2 DEF ProxyResolve, ProxyLoad
    <3>3. CASE ProxySave(t)
      BY <3>3 DEF ProxySave
    <3> QED
      BY <1>10, <3>1, <3>2, <3>3 DEF AsideStep, ProxyStep
  <2> QED
    BY <1>b, <2>1, <2>2
<1>9. ASSUME NEW t \in Tasks, TaskStep(t) PROVE TokensDrawn'
  BY <1>1, <1>2, <1>3, <1>4, <1>9, <1>10, ServerDrawn DEF TaskStep, AsideStep, Quit
<1> QED
  BY <1>4, <1>5, <1>7, <1>8, <1>9, <1>10 DEF Next, AsideStep, Kill

LEMMA InitDrawn == Init => TokensDrawn
<1> SUFFICES ASSUME Init PROVE TokensDrawn
  OBVIOUS
<1>1. PICK w \in Worlds : InitiallyIn(w)
  BY DEF Init
<1>2. w.token \in Nat /\ drawn = w.token
  BY <1>1, WorldsGiven DEF InitiallyIn
<1>3. settings.token = w.token
  BY <1>1 DEF InitiallyIn, DefaultSettings
<1>4. \A p \in Pids : proc[p].token \in {w.token, 0}
  BY <1>1 DEF InitiallyIn, Process
<1>5. \A t \in Tasks : loc[t].token = 0 /\ pc[t] = "idle"
  BY DEF Init, NoLocals
<1> QED
  BY <1>2, <1>3, <1>4, <1>5 DEF TokensDrawn, AskLabels

(* Steps that no gateway command in progress notices start no gateway and  *)
(* move none to another port.                                              *)
LEMMA StillServes ==
  ASSUME Typed, OneServes, NEW t, Evolves(t), clash \subseteq clash', AskKept,
         \A u \in Tasks : Op(u)' \in EnsureOps /\ pc'[u] \in AskLabels \cup PidLabels \cup {"reuse"}
           => Op(u) = Op(u)' /\ pc[u] = pc'[u] /\ loc[u] = loc'[u]
  PROVE  OneServes'
<1>1. \A token : \A p \in GatewaysWith(token)' : p \in GatewaysWith(token) /\ proc'[p].port = proc[p].port
  BY DEF GatewaysWith, Evolves, Fades, Unused
<1>2. (\A p, q \in GatewaysWith(0)' : p = q) /\ \A p \in GatewaysWith(0)' : proc'[p].port = BasePort
  BY <1>1 DEF OneServes
<1>3. ASSUME Accounted'
      PROVE  Accounted /\ settings'.port = settings.port /\ settings'.token = settings.token
  BY <1>3 DEF AskKept, Asked, Disturbed, Apart, Accounted
<1>4. \A u \in Tasks : Op(u) \in EnsureOps /\ pc[u] \in PidLabels
        => loc[u].pid \in Pids /\ proc'[loc[u].pid].port = proc[loc[u].pid].port
  BY DEF Typed, TasksTyped, LocalsOf, Unused, Evolves, Fades
<1>5. ASSUME Accounted' PROVE \A p \in Current' : p \in Current /\ proc'[p].port = proc[p].port
  BY <1>1, <1>3, <1>5 DEF GatewaysWith, Current
<1>6. ASSUME Accounted', NEW u \in Tasks, Op(u)' \in EnsureOps PROVE Found(u)'
  BY <1>3, <1>4, <1>5, <1>6 DEF OneServes, Found, AskLabels, Candidates
<1>7. ASSUME Accounted'
      PROVE  (\A p, q \in Current' : p = q) /\ \A p \in Current' : proc'[p].port \in Candidates(settings.port)' 
  BY <1>3, <1>5, <1>7 DEF OneServes, Candidates
<1> QED
  BY <1>2, <1>6, <1>7 DEF OneServes

(* A gateway that is still starting is in the hands of the command that    *)
(* started it.                                                             *)
LEMMA NoneStarting ==
  ASSUME Typed, Alone, ServersKept, Apart("gateway"), NEW t \in Tasks, Op(t) \in EnsureOps,
         pc[t] \in {"probe", "choose"}, NEW p \in Pids, proc[p].key = Gateway, proc[p].st # "dead"
  PROVE  Serving(p)
<1> SUFFICES ASSUME proc[p].st = "starting" PROVE FALSE
  BY DEF Serving, Typed, TypeOK, Procs
<1>0. Gateway \notin Orbs /\ children[Gateway] = None /\ None \notin Pids
  BY ServerConstants DEF ServersKept, GatewayKept, GatewayOps, BareLabels, ServerConstants
<1>1. Held(p)
  BY GatewayHeld DEF ServersKept, Keyed
<1>2. ASSUME NEW k \in Keys, children[k] = p PROVE FALSE
  BY <1>0, <1>2 DEF ServersKept, Keyed
<1>3. PICK u \in Tasks : p \in Carried(u)
  BY <1>1, <1>2 DEF Held
<1>4. LocalsOf(u) /\ (cmd[u] # None => cmd[u] \in Commands)
  BY DEF Typed, TasksTyped
<1>5. u # t
  BY <1>3 DEF Carried, PidLabels, At
<1>6. Op(u) \notin GatewayOps \cup {"close"}
  BY <1>5, AreasAre, OneAtATime DEF GatewayOps
<1>7. pc[u] \in PidLabels /\ p = loc[u].pid /\ Op(u) = "start"
  BY <1>3, <1>4, <1>6 DEF Carried, At, LocalsOf, GatewayOps
<1>8. cmd[u].orb \in Orbs
  BY <1>4, <1>7, CommandIs DEF Op, OrbOps
<1> QED
  BY <1>0, <1>7, <1>8 DEF ServersKept, Keyed, KeyOf

LEMMA ServerServes ==
  ASSUME Typed, Alone, ServersKept, TokensDrawn, OneServes, NEW t \in Tasks, ServerStep(t, Installed)
  PROVE  OneServes'
<1>0. /\ Framed(t) /\ LocalsOf(t) /\ TasksTyped /\ (cmd[t] # None => cmd[t] \in Commands)
      /\ (settings \in Settings \/ settings = Torn) /\ drawn \in Nat /\ PortRange \in Nat /\ Ports \subseteq Nat
      /\ clash \subseteq clash'
  BY ServerFrame, RunnerConstants DEF Typed, TypeOK, TasksTyped, RunnerConstants, Framed
<1>1. \A u \in Tasks \ {t} : Op(u)' = Op(u) /\ pc'[u] = pc[u] /\ loc'[u] = loc[u]
  BY <1>0, OthersCarry
<1>q. ASSUME ~EnsureSpawn(t), AskKept, Op(t)' \in EnsureOps => pc'[t] \notin AskLabels \cup PidLabels \cup {"reuse"}
      PROVE  OneServes'
  BY <1>0, <1>1, <1>q, ServerEvolves, StillServes
<1>2. CASE Op(t) \notin EnsureOps
  <2>1. UNCHANGED settings /\ ~EnsureSpawn(t)
    BY <1>2, ServerAsks DEF EnsureSpawn, EnsureLoad, EnsureReuse, ResetToken, SaveForm, Ensuring, At, EnsureOps
  <2>2. Op(t)' \notin EnsureOps
    BY <1>0, <1>2 DEF Framed, Returned, Op, EnsureOps
  <2> QED
    BY <1>q, <2>1, <2>2 DEF AskKept, Asked
<1>3. CASE Op(t) \in EnsureOps
  <2>0. \A token : \A p \in GatewaysWith(token)' :
          \/ p \in GatewaysWith(token) /\ proc'[p].port = proc[p].port
          \/ EnsureSpawn(t) /\ ~Returned(t) /\ p = Fresh /\ token = loc[t].token
    <3>1. CASE EnsureSpawn(t)
      <4>1. CASE UNCHANGED proc
        BY <4>1 DEF GatewaysWith
      <4>2. CASE Spawned(t, loc[t].port, Gateway) /\ Goto(t, "poll")
        <5>1. Fresh \in Pids /\ proc' = [proc EXCEPT ![Fresh] = Process(Gateway, loc[t].port, loc[t].token, loc[t].binding)]
          BY <4>2, FreshIs DEF Spawned
        <5>2. proc'[Fresh].token = loc[t].token /\ \A p \in Pids \ {Fresh} : proc'[p] = proc[p]
          BY <5>1 DEF Typed, TypeOK, Process
        <5>3. ~Returned(t)
          BY <1>0, <4>2, GotoIs DEF Goto, Returned
        <5> QED
          BY <3>1, <5>2, <5>3 DEF GatewaysWith
      <4> QED
        BY <3>1, <4>1, <4>2 DEF EnsureSpawn
    <3>2. CASE ~EnsureSpawn(t)
      BY <3>2, ServerEvolves DEF GatewaysWith, Evolves, Fades, Unused
    <3> QED
      BY <3>1, <3>2
  <2>1. (\A p, q \in GatewaysWith(0)' : p = q) /\ \A p \in GatewaysWith(0)' : proc'[p].port = BasePort
    <3>1. EnsureSpawn(t) => loc[t].token # 0
      BY DEF EnsureSpawn, Ensuring, AskLabels, TokensDrawn, EnsureOps
    <3>2. \A p \in GatewaysWith(0)' : p \in GatewaysWith(0) /\ proc'[p].port = proc[p].port
      BY <2>0, <3>1
    <3> QED
      BY <3>2 DEF OneServes
  <2>2. ASSUME NEW token, token > drawn, token \in Nat, ~EnsureSpawn(t), "overtaken" \notin clash
        PROVE  GatewaysWith(token)' = {}
    <3>1. \A p \in Pids : proc[p].token \in Nat /\ proc[p].token <= drawn
      BY <2>2 DEF Typed, TypeOK, Procs, TokensDrawn
    <3>2. GatewaysWith(token) = {}
      BY <1>0, <2>2, <3>1 DEF GatewaysWith
    <3>3. \A p \in GatewaysWith(token)' : p \in GatewaysWith(token)
      BY <2>0, <2>2
    <3> QED
      BY <3>2, <3>3
  <2> SUFFICES ASSUME Accounted' PROVE OneServes'
    BY <2>1 DEF OneServes
  <2>3. Apart("gateway") /\ clash \cap {"port", "slow", "overtaken"} = {} /\ settings' # Torn
        /\ "overtaken" \notin clash'
    BY <1>0 DEF Accounted, Apart
  <2>4. \A u \in Tasks : Op(u)' \in EnsureOps => u = t
    <3>1. \A u \in Tasks : Op(u) \in EnsureOps => u = t
      BY <1>3, <2>3, AreasAre, OneAtATime DEF GatewayOps
    <3> QED
      BY <1>1, <3>1
  <2>5. ASSUME \A p, q \in Current' : p = q, \A p \in Current' : proc'[p].port \in Candidates(settings.port)',
               Op(t)' \in EnsureOps => Found(t)'
        PROVE  OneServes'
    BY <2>1, <2>4, <2>5 DEF OneServes
  <2>6. settings # Torn => /\ \A p, q \in Current : p = q
                           /\ \A p \in Current : proc[p].port \in Candidates(settings.port)
                           /\ Found(t)
    BY <1>3, <2>3 DEF OneServes, Accounted
  <2>7. ASSUME ~EnsureSpawn(t), settings # Torn, settings'.token = settings.token
        PROVE  /\ \A p \in Current' : p \in Current /\ proc'[p].port = proc[p].port
               /\ \A p, q \in Current' : p = q
    BY <2>0, <2>6, <2>7 DEF Current, GatewaysWith
  <2>8. ASSUME ~EnsureSpawn(t), UNCHANGED settings
        PROVE  \A p \in Current' : proc'[p].port \in Candidates(settings.port)'
    BY <2>3, <2>6, <2>7, <2>8 DEF Candidates
  <2>9. CASE EnsureEnter(t) \/ StatusLoad(t) \/ StatusReap(t) \/ StopGateway(t) \/ StopAdopted(t)
    <3>1. pc'[t] \in {"idle", "status", "load", "reap", "adopted", "ensure"}
      BY <1>0, <2>9, GotoIs, EndIs
      DEF EnsureEnter, StatusLoad, StatusReap, StopGateway, StopAdopted, Stopped, Goto, End, Returned
    <3>2. UNCHANGED settings /\ ~EnsureSpawn(t)
      BY <2>9 DEF EnsureEnter, StatusLoad, StatusReap, StopGateway, StopAdopted, EnsureSpawn, Ensuring, Stopping, At, conf
    <3> QED
      BY <1>q, <3>1, <3>2 DEF AskKept, Asked, AskLabels, PidLabels
  <2>10. ASSUME Returned(t), ~EnsureSpawn(t), UNCHANGED settings PROVE OneServes'
    BY <1>q, <2>10 DEF Returned, AskKept, Asked, AskLabels, PidLabels
  <2>11. CASE EnsureLoad(t)
    <3>0. ~EnsureSpawn(t)
      BY <2>11 DEF EnsureSpawn, EnsureLoad, Ensuring
    <3>1. CASE Returned(t)
      <4>1. UNCHANGED settings
        BY <1>0, <2>3, <2>11, <3>1, GotoIs DEF EnsureLoad, SaveFails, Goto, Returned
      <4> QED
        BY <2>10, <3>0, <3>1, <4>1
    <3>2. CASE ~Returned(t)
      <4> DEFINE token == IF settings.token = 0 THEN drawn + 1 ELSE settings.token
                 first == settings.token = 0
      <4>1. /\ settings # Torn /\ Goto(t, "probe")
            /\ settings' = IF first THEN [settings EXCEPT !.token = token] ELSE settings
            /\ loc' = [loc EXCEPT ![t].base = settings.port, ![t].token = token, ![t].binding = settings.binding]
        BY <1>0, <2>11, <3>2, EndIs DEF EnsureLoad, SaveSettings, End
      <4>2. token \in Nat
        BY <1>0, <4>1 DEF Settings
      <4> HIDE DEF token
      <4>3. settings'.token = token /\ settings'.port = settings.port
        BY <1>0, <4>1, <4>2 DEF Settings, token
      <4>4. loc'[t].token = token /\ loc'[t].base = settings.port /\ pc'[t] = "probe"
        BY <1>0, <4>1, LocalNames, GotoIs DEF LocalsOf, TasksTyped, Goto
      <4>5. Found(t)'
        BY <4>3, <4>4 DEF Found, PidLabels
      <4>6. CASE first
        <5>1. Current' = {}
          BY <1>0, <2>2, <2>3, <3>0, <4>2, <4>3, <4>6 DEF token, Current
        <5> QED
          BY <2>5, <4>5, <5>1
      <4>7. CASE ~first
        BY <2>5, <2>7, <2>8, <3>0, <4>1, <4>5, <4>7
      <4> QED
        BY <4>6, <4>7
    <3> QED
      BY <3>1, <3>2
  <2>12. CASE EnsureProbe(t)
    <3>0. ~EnsureSpawn(t) /\ UNCHANGED <<settings, proc>> /\ settings # Torn /\ pc[t] = "probe"
          /\ loc[t].token = settings.token /\ loc[t].base = settings.port /\ Current' = Current
      BY <2>3, <2>6, <2>12 DEF EnsureSpawn, EnsureProbe, Ensuring, conf, servers, Found, AskLabels, Current, GatewaysWith
    <3> DEFINE ours == {p \in Candidates(loc[t].base) : Accepts(p, loc[t].token)}
    <3>1. CASE Goto(t, "reuse") /\ ours # {} /\ loc' = [loc EXCEPT ![t].port = First(ours)]
      <4>1. First(ours) \in ours
        <5>1. ours \in SUBSET Ports
          BY DEF Candidates
        <5> QED
          BY <3>1, <5>1, FirstIn
      <4>2. PICK q \in Current : proc[q].port = First(ours)
        BY <3>0, <4>1 DEF Accepts, Accepting, Current, GatewaysWith, Serving
      <4> HIDE DEF ours
      <4>3. pc'[t] = "reuse" /\ loc'[t].port = First(ours)
        BY <1>0, <3>1, LocalNames, GotoIs DEF LocalsOf, TasksTyped, Goto
      <4>4. Found(t)'
        BY <2>6, <3>0, <4>2, <4>3 DEF Found, AskLabels, PidLabels
      <4> QED
        BY <2>5, <2>7, <2>8, <3>0, <4>4
    <3>2. CASE Goto(t, "choose") /\ ours = {} /\ UNCHANGED loc
      <4>1. ASSUME NEW p \in Current PROVE FALSE
        <5>1. Serving(p) /\ p \in Pids /\ proc[p].port \in Candidates(loc[t].base)
              /\ proc[p].key = Gateway /\ proc[p].token = loc[t].token
          BY <1>3, <2>3, <2>6, <3>0, <4>1, NoneStarting DEF Current, GatewaysWith
        <5>2. Accepts(proc[p].port, loc[t].token)
          BY <5>1 DEF Accepts, Accepting
        <5> QED
          BY <3>2, <5>1, <5>2
      <4>2. pc'[t] = "choose"
        BY <1>0, <3>2, GotoIs DEF Goto
      <4>3. Found(t)'
        BY <3>0, <3>2, <4>1, <4>2 DEF Found, AskLabels, PidLabels
      <4> QED
        BY <2>5, <2>7, <2>8, <3>0, <4>3
    <3>3. ~GotoMarked(t, "choose", {"slow"})
      BY DEF GotoMarked, Accounted
    <3> QED
      BY <2>12, <3>1, <3>2, <3>3 DEF EnsureProbe
  <2>13. CASE EnsureReuse(t)
    <3>0. ~EnsureSpawn(t) /\ Returned(t) /\ pc[t] = "reuse" /\ loc[t].port \in Ports
      BY <1>0, <1>3, <2>13, EndIs DEF EnsureSpawn, EnsureReuse, Ensuring, End, LocalsOf, PortLabels
    <3>1. CASE UNCHANGED settings
      BY <2>10, <3>0, <3>1
    <3>2. CASE settings # Torn /\ settings' = [settings EXCEPT !.port = loc[t].port]
      <4>1. settings'.port = loc[t].port /\ settings'.token = settings.token
        BY <1>0, <3>2 DEF Settings
      <4>2. \A p \in Current' : proc'[p].port \in Candidates(settings.port)'
        BY <1>0, <2>6, <2>7, <3>0, <3>2, <4>1 DEF Found, Candidates
      <4>3. Op(t)' \notin EnsureOps
        BY <3>0 DEF Returned, Op, EnsureOps
      <4> QED
        BY <2>5, <2>7, <3>0, <3>2, <4>1, <4>2, <4>3
    <3> QED
      BY <2>3, <2>13, <3>1, <3>2 DEF EnsureReuse, StorePort, SaveSettings, SaveFails
  <2>14. CASE EnsureChoose(t)
    <3>0. ~EnsureSpawn(t) /\ UNCHANGED <<settings, proc>> /\ settings # Torn /\ pc[t] = "choose"
          /\ loc[t].token = settings.token /\ loc[t].base = settings.port /\ Current = {} /\ Current' = Current
      BY <2>3, <2>6, <2>14 DEF EnsureSpawn, EnsureChoose, Ensuring, conf, servers, Found, AskLabels, Current, GatewaysWith
    <3> DEFINE quiet == {p \in Candidates(loc[t].base) : ~Listening(p)}
    <3>1. CASE quiet # {} /\ loc' = [loc EXCEPT ![t].port = First(quiet)] /\ Goto(t, "spawn")
      <4>1. First(quiet) \in quiet
        <5>1. quiet \in SUBSET Ports
          BY DEF Candidates
        <5> QED
          BY <3>1, <5>1, FirstIn
      <4>2. First(quiet) \in Candidates(settings.port)
        BY <3>0, <4>1
      <4> HIDE DEF quiet
      <4>3. pc'[t] = "spawn" /\ loc'[t].port = First(quiet) /\ loc'[t].token = loc[t].token /\ loc'[t].base = loc[t].base
        BY <1>0, <3>1, LocalNames, GotoIs DEF LocalsOf, TasksTyped, Goto
      <4>4. Found(t)'
        BY <3>0, <4>2, <4>3 DEF Found, PidLabels, Candidates
      <4> QED
        BY <2>5, <2>7, <2>8, <3>0, <4>4
    <3> QED
      BY <1>0, <2>10, <2>14, <3>0, <3>1, EndIs DEF EnsureChoose, End
  <2>15. CASE EnsureSpawn(t)
    <3>0. UNCHANGED settings /\ settings # Torn /\ pc[t] = "spawn" /\ Current = {} /\ loc[t].port \in Candidates(settings.port)
      BY <2>3, <2>6, <2>15 DEF EnsureSpawn, Ensuring, conf, Found
    <3>1. CASE Returned(t)
      <4>1. Current' = {}
        BY <2>0, <3>0, <3>1 DEF Current
      <4>2. Op(t)' \notin EnsureOps
        BY <3>1 DEF Returned, Op, EnsureOps
      <4> QED
        BY <2>5, <4>1, <4>2
    <3>2. CASE Spawned(t, loc[t].port, Gateway) /\ Goto(t, "poll")
      <4> DEFINE new == Fresh
      <4>1. /\ new \in Pids /\ loc' = [loc EXCEPT ![t].pid = new]
            /\ proc' = [proc EXCEPT ![new] = Process(Gateway, loc[t].port, loc[t].token, loc[t].binding)]
        BY <3>2, FreshIs DEF Spawned
      <4>2. Current' \subseteq {new}
        BY <2>0, <3>0 DEF Current
      <4> HIDE DEF new
      <4>3. pc'[t] = "poll" /\ loc'[t].pid = new /\ loc'[t].port = loc[t].port
        BY <1>0, <3>2, <4>1, LocalNames, GotoIs DEF LocalsOf, TasksTyped, Goto
      <4>4. proc'[new].port = loc[t].port
        BY <4>1 DEF Process, Typed, TypeOK
      <4>5. Found(t)'
        BY <4>2, <4>3, <4>4 DEF Found, AskLabels
      <4>6. (\A p, q \in Current' : p = q) /\ \A p \in Current' : proc'[p].port \in Candidates(settings.port)'
        BY <3>0, <4>2, <4>4 DEF Candidates
      <4> QED
        BY <2>5, <4>5, <4>6
    <3> QED
      BY <1>0, <2>15, <3>1, <3>2, EndIs DEF EnsureSpawn, End
  <2>16. CASE EnsurePoll(t)
    <3>0. ~EnsureSpawn(t) /\ UNCHANGED settings /\ settings # Torn /\ pc[t] = "poll" /\ proc[loc[t].pid].port = loc[t].port
          /\ Current \subseteq {loc[t].pid}
      BY <2>3, <2>6, <2>16 DEF EnsureSpawn, EnsurePoll, Ensuring, conf, Found, PidLabels
    <3>1. CASE Goto(t, "insert") /\ UNCHANGED <<loc, proc>>
      <4>1. pc'[t] = "insert"
        BY <1>0, <3>1, GotoIs DEF Goto
      <4>2. Found(t)'
        BY <2>7, <3>0, <3>1, <4>1 DEF Found, AskLabels
      <4> QED
        BY <2>5, <2>7, <2>8, <3>0, <4>2
    <3> QED
      BY <1>0, <2>10, <2>16, <3>0, <3>1, EndIs DEF EnsurePoll, End
  <2>17. CASE EnsureInsert(t)
    <3>0. ~EnsureSpawn(t) /\ UNCHANGED settings /\ settings # Torn /\ pc[t] = "insert" /\ proc[loc[t].pid].port = loc[t].port
          /\ Current \subseteq {loc[t].pid}
      BY <2>3, <2>6, <2>17 DEF EnsureSpawn, EnsureInsert, Ensuring, conf, Found, PidLabels
    <3>1. CASE Goto(t, "reuse") /\ UNCHANGED loc
      <4>1. pc'[t] = "reuse"
        BY <1>0, <3>1, GotoIs DEF Goto
      <4>2. Found(t)'
        BY <2>7, <3>0, <3>1, <4>1 DEF Found, AskLabels, PidLabels
      <4> QED
        BY <2>5, <2>7, <2>8, <3>0, <4>2
    <3> QED
      BY <1>0, <2>10, <2>17, <3>0, <3>1, EndIs DEF EnsureInsert, End
  <2>18. CASE ResetToken(t)
    <3>0. ~EnsureSpawn(t)
      BY <2>18 DEF EnsureSpawn, ResetToken, Ensuring, At
    <3>1. CASE Returned(t)
      <4>1. UNCHANGED settings
        BY <1>0, <2>3, <2>18, <3>1, GotoIs DEF ResetToken, SaveFails, Goto, Returned
      <4> QED
        BY <2>10, <3>0, <3>1, <4>1
    <3>2. CASE ~Returned(t)
      <4>1. settings # Torn /\ settings' = [settings EXCEPT !.token = drawn + 1] /\ Goto(t, "stop")
        BY <1>0, <2>18, <3>2, EndIs DEF ResetToken, SaveSettings, End
      <4>2. settings'.token = drawn + 1 /\ pc'[t] = "stop"
        BY <1>0, <4>1, GotoIs DEF Goto, Settings
      <4>3. Current' = {}
        BY <1>0, <2>2, <2>3, <3>0, <4>2 DEF Current
      <4>4. Found(t)'
        BY <4>2 DEF Found, AskLabels, PidLabels
      <4> QED
        BY <2>5, <4>3, <4>4
    <3> QED
      BY <3>1, <3>2
  <2>19. CASE SaveForm(t)
    <3> DEFINE current == IF settings = Torn THEN DefaultSettings ELSE settings
               merged == MergeSettings(current, cmd[t].form)
    <3>0. ~EnsureSpawn(t) /\ Op(t) = "save"
      BY <2>19 DEF EnsureSpawn, SaveForm, Ensuring, At
    <3>1. CASE UNCHANGED settings /\ End(t)
      BY <1>0, <2>10, <3>0, <3>1, EndIs DEF End
    <3>2. ASSUME settings' = merged, NEW marks, merged.port # current.port => "port" \in marks,
                 GotoMarked(t, "stop", marks) \/ EndMarked(t, marks)
          PROVE  OneServes'
      <4>1. pc'[t] \in {"stop", "idle"} /\ marks \subseteq clash'
        BY <1>0, <3>2, GotoIs, EndIs DEF GotoMarked, EndMarked, Returned
      <4>2. merged.token = current.token /\ merged.port = current.port
        <5>1. current \in Settings
          BY <1>0, DefaultTyped
        <5> HIDE DEF current
        <5>2. merged.token = current.token
          BY <5>1 DEF MergeSettings, Settings
        <5> HIDE DEF merged
        <5> QED
          BY <3>2, <4>1, <5>2 DEF Accounted
      <4> HIDE DEF merged
      <4>3. Found(t)'
        BY <4>1 DEF Found, AskLabels, PidLabels
      <4>4. CASE settings = Torn
        <5>1. settings'.token = 0 /\ settings'.port = BasePort
          BY <3>2, <4>2, <4>4 DEF DefaultSettings
        <5>2. BasePort \in Candidates(BasePort)
          BY <1>0, BasePortIs DEF Candidates
        <5>3. \A p \in Current' : proc'[p].port \in Candidates(settings.port)'
          BY <2>1, <5>1, <5>2 DEF Current, Candidates
        <5> QED
          BY <2>1, <2>5, <4>3, <5>1, <5>3 DEF Current
      <4>5. CASE settings # Torn
        <5>1. settings'.token = settings.token /\ settings'.port = settings.port
          BY <3>2, <4>2, <4>5
        <5>2. \A p \in Current' : proc'[p].port \in Candidates(settings.port)'
          BY <2>6, <2>7, <3>0, <4>5, <5>1 DEF Candidates
        <5> QED
          BY <2>5, <2>7, <3>0, <4>3, <4>5, <5>1, <5>2
      <4> QED
        BY <4>4, <4>5
    <3>3. ASSUME NEW read \in Readable, settings' = MergeSettings(read, cmd[t].form),
                 NEW marks, marks = FormMarks(read, MergeSettings(read, cmd[t].form)),
                 GotoMarked(t, "stop", marks) \/ EndMarked(t, marks)
          PROVE  OneServes'
      <4>1. marks \subseteq clash'
        BY <3>3 DEF GotoMarked, EndMarked
      <4>2. read = current
        BY <2>3, <3>3, <4>1 DEF Readable, FormMarks
      <4> HIDE DEF current
      <4>3. (merged.port # current.port => "port" \in marks) /\ settings' = merged
        BY <3>3, <4>2 DEF FormMarks
      <4> QED
        BY <3>2, <3>3, <4>3
    <3> QED
      BY <2>3, <2>19, <3>1, <3>3 DEF SaveForm, SaveSettings, SaveFails
  <2>20. /\ ~StartLookup(t, Installed) /\ ~StartSettings(t) /\ ~StartSpawn(t) /\ ~StartInsert(t) /\ ~StartList(t)
         /\ ~Unlist(t) /\ ~StopChild(t) /\ ~BatchSettings(t) /\ ~BatchLock(t) /\ ~BatchLaunch(t, Installed)
    BY <1>3 DEF EnsureOps, At, StartLookup, StartSettings, StartSpawn, StartInsert, StartList, Unlist, StopChild,
       BatchSettings, BatchLock, BatchLaunch
  <2> QED
    BY <2>9, <2>11, <2>12, <2>13, <2>14, <2>15, <2>16, <2>17, <2>18, <2>19, <2>20 DEF ServerStep
<1> QED
  BY <1>2, <1>3

(* Over a relaunch, no gateway is added to those that are left.            *)
LEMMA RelaunchServes ==
  ASSUME Typed, OneServes, NEW killed, NEW errors, Relaunch(killed, errors)
  PROVE  OneServes'
<1>1. \A token : \A p \in GatewaysWith(token)' : p \in GatewaysWith(token) /\ proc'[p].port = proc[p].port
  BY LeftFades DEF GatewaysWith, Fades
<1>2. (\A p, q \in GatewaysWith(0)' : p = q) /\ \A p \in GatewaysWith(0)' : proc'[p].port = BasePort
  BY <1>1 DEF OneServes
<1> SUFFICES ASSUME Accounted' PROVE OneServes'
  BY <1>2 DEF OneServes
<1>3. \A t \in Tasks : Op(t)' \notin EnsureOps
  BY DEF Relaunch, Gone, Op, EnsureOps
<1>4. PICK read \in {settings, Torn} : Launched(read, errors)
  BY DEF Relaunch
<1>7. settings' # Torn /\ clash \subseteq clash'
  BY <1>4, LaunchStores DEF Accounted
<1>8. CASE read = Torn
  <2>1. settings'.token = 0 /\ settings'.port = BasePort
    BY <1>4, <1>7, <1>8, LaunchStores DEF DefaultSettings
  <2>2. BasePort \in Candidates(BasePort)
    BY BasePortIs, RunnerConstants DEF Candidates, RunnerConstants
  <2>3. \A p \in Current' : proc'[p].port \in Candidates(settings.port)'
    BY <1>2, <2>1, <2>2 DEF Current, Candidates
  <2> QED
    BY <1>2, <1>3, <2>1, <2>3 DEF Current, OneServes
<1>9. CASE read # Torn
  <2>1. read = settings
    BY <1>4, <1>9
  <2>2. settings'.token = settings.token /\ settings'.port = settings.port
    BY <1>4, <1>7, <1>9, <2>1, LaunchStores
  <2>3. Accounted
    BY <1>7, <1>9, <2>1 DEF Accounted, Apart
  <2>4. \A p \in Current' : p \in Current /\ proc'[p].port = proc[p].port
    BY <1>1, <2>2 DEF Current
  <2>5. (\A p, q \in Current' : p = q) /\ \A p \in Current' : proc'[p].port \in Candidates(settings.port)'
    BY <2>2, <2>3, <2>4 DEF OneServes, Candidates
  <2> QED
    BY <1>2, <1>3, <2>5 DEF OneServes
<1> QED
  BY <1>8, <1>9

LEMMA NextServes == Inv /\ Typed /\ Alone /\ ServersKept /\ TokensDrawn /\ OneServes /\ [Next]_vars => OneServes'
<1> SUFFICES ASSUME Inv, Typed, Alone, ServersKept, TokensDrawn, OneServes, [Next]_vars PROVE OneServes'
  OBVIOUS
<1>0. TasksTyped
  BY DEF Typed
<1>a. ASSUME NEW t \in Tasks, Framed(t), UNCHANGED proc, AskKept, Op(t)' \notin EnsureOps PROVE OneServes'
  <2>1. \A u \in Tasks : Op(u)' \in EnsureOps /\ pc'[u] \in AskLabels \cup PidLabels \cup {"reuse"}
          => Op(u) = Op(u)' /\ pc[u] = pc'[u] /\ loc[u] = loc'[u]
    BY <1>a, OthersCarry
  <2> QED
    BY <1>a, <2>1, StillEvolves, StillServes DEF Framed
<1>1. ASSUME NEW t \in Tasks, LibraryStep(t), UNCHANGED servers PROVE OneServes'
  <2>1. Framed(t) /\ UNCHANGED proc /\ AskKept /\ Op(t)' \notin EnsureOps
    BY <1>0, <1>1, LibraryFrame, LibraryApart, LibraryAsks DEF servers, Framed, Returned, Op, EnsureOps
  <2> QED
    BY <1>a, <2>1
<1>2. ASSUME NEW t \in Tasks, Dismiss(t), UNCHANGED <<library, servers>> PROVE OneServes'
  <2>1. Framed(t) /\ UNCHANGED proc /\ AskKept /\ Returned(t)
    BY <1>0, <1>2, EndIs, DismissAsks DEF Dismiss, End, servers
  <2> QED
    BY <1>a, <2>1 DEF Returned, Op, EnsureOps
<1>3. ASSUME NEW t \in Tasks, Clear(t) \/ Drain(t) PROVE OneServes'
  <2>1. Framed(t) /\ Op(t)' \notin EnsureOps /\ UNCHANGED <<proc, settings>>
    BY <1>0, <1>3, GotoIs DEF Clear, Drain, Goto, At, Op, EnsureOps, conf, TasksTyped
  <2> QED
    BY <1>a, <2>1 DEF AskKept, Asked
<1>4. ASSUME NEW t \in Tasks, Issue(t), UNCHANGED <<library, servers>> PROVE OneServes'
  <2>1. /\ pc' = [pc EXCEPT ![t] = "start"] /\ UNCHANGED <<loc, settings, proc>> /\ clash \subseteq clash'
        /\ \E c \in waiting : cmd' = [cmd EXCEPT ![t] = c]
    BY <1>4 DEF Issue, conf, servers
  <2>2. /\ pc'[t] = "start"
        /\ \A u \in Tasks \ {t} : pc'[u] = pc[u] /\ Op(u)' = Op(u)
    BY <1>0, <2>1 DEF TasksTyped, Op
  <2>3. \A u \in Tasks : Op(u)' \in EnsureOps /\ pc'[u] \in AskLabels \cup PidLabels \cup {"reuse"}
          => Op(u) = Op(u)' /\ pc[u] = pc'[u] /\ loc[u] = loc'[u]
    BY <2>1, <2>2 DEF AskLabels, PidLabels
  <2> QED
    BY <2>1, <2>3, StillEvolves, StillServes DEF AskKept, Asked
<1>5. ASSUME UNCHANGED <<tasks, settings>>, \A p \in Pids : Fades(p) PROVE OneServes'
  <2>1. \A u \in Tasks : Op(u)' = Op(u) /\ pc'[u] = pc[u] /\ loc'[u] = loc[u]
    BY <1>5 DEF tasks, Op
  <2>2. Evolves(0) /\ clash \subseteq clash'
    BY <1>5 DEF Evolves, tasks
  <2> QED
    BY <1>5, <2>1, <2>2, StillServes DEF AskKept, Asked
<1>6. ASSUME NEW q \in Pids, Settles(q) \/ Crashes(q) PROVE OneServes'
  BY <1>5, <1>6, ProcessFades DEF Settles, Crashes, conf
<1>7. CASE UNCHANGED vars
  BY <1>5, <1>7 DEF vars, servers, conf, Fades, Alive
<1>9. ASSUME NEW t \in Tasks, AsideStep(t) PROVE OneServes'
  <2>1. Framed(t) /\ UNCHANGED proc /\ AskKept /\ Op(t)' \notin EnsureOps
    BY <1>0, <1>9, AsideIs DEF servers, Framed, Returned, Op, EnsureOps, AskKept, Asked, Disturbed, Fault
  <2> QED
    BY <1>a, <2>1
<1>8. ASSUME NEW t \in Tasks, TaskStep(t) PROVE OneServes'
  BY <1>1, <1>2, <1>3, <1>8, <1>9, ServerServes, RelaunchServes DEF TaskStep, AsideStep, Quit
<1> QED
  BY <1>4, <1>6, <1>7, <1>8, <1>9, RelaunchServes DEF Next, AsideStep, Kill

LEMMA InitServes == Init => OneServes
<1> SUFFICES ASSUME Init PROVE OneServes
  OBVIOUS
<1>1. PICK w \in Worlds : InitiallyIn(w)
  BY DEF Init
<1> DEFINE left == CHOOSE p \in Pids : TRUE
<1>2. \A p \in Pids : proc[p].st # "dead" => p = left /\ proc[p].port = BasePort
  BY <1>1 DEF InitiallyIn, Process
<1> HIDE DEF left
<1>3. \A token : \A p \in GatewaysWith(token) : p = left /\ proc[p].port = BasePort
  BY <1>2 DEF GatewaysWith
<1>4. BasePort \in Candidates(BasePort)
  BY BasePortIs, RunnerConstants DEF Candidates, RunnerConstants
<1>5. settings.port = BasePort
  BY <1>1 DEF InitiallyIn, DefaultSettings
<1>6. \A t \in Tasks : Op(t) \notin EnsureOps
  BY DEF Init, Op, EnsureOps
<1> QED
  BY <1>3, <1>4, <1>5, <1>6 DEF OneServes, Current

(* Over any launches, kills and resets, at most one gateway serves the     *)
(* token in use, since what is already running is found again: as long as  *)
(* the gateway commands do not overlap, nobody edits the port, no probe is *)
(* answered too late and no process beside the app overtakes the settings. *)
THEOREM OneGatewayServes == Spec => []OneGateway
<1>1. OneServes => OneGateway
  <2> SUFFICES ASSUME OneServes, Accounted
               PROVE  Cardinality({p \in Pids : proc[p].st = "up" /\ proc[p].key = Gateway
                                                  /\ proc[p].token = settings.token}) <= 1
    BY DEF OneGateway, Accounted
  <2> DEFINE up == {p \in Pids : proc[p].st = "up" /\ proc[p].key = Gateway /\ proc[p].token = settings.token}
  <2>1. \A p, q \in up : p = q
    BY DEF OneServes, Current, GatewaysWith
  <2>2. up = {} \/ \E p \in up : up = {p}
    BY <2>1
  <2> HIDE DEF up
  <2>3. Cardinality(up) \in {0, 1}
    <3>1. CASE up = {}
      BY <3>1, FS_EmptySet, Zenon
    <3>2. ASSUME NEW p \in up, up = {p}
          PROVE  Cardinality(up) = 1
      BY <3>2, FS_Singleton, Zenon
    <3> QED
      BY <2>2, <3>1, <3>2
  <2>4. Cardinality(up) <= 1
    BY <2>3
  <2> QED
    BY <2>4 DEF up
<1>2. Inv /\ Typed /\ TokensDrawn /\ [Next]_vars => TokensDrawn'
  BY NextDrawn
<1>3. Inv /\ Typed /\ Alone /\ ServersKept /\ TokensDrawn /\ OneServes /\ [Next]_vars => OneServes'
  BY NextServes
<1> QED
  BY <1>1, <1>2, <1>3, KeptHolds, InitDrawn, InitServes, PTL DEF Spec
-----------------------------------------------------------------------------
(* The library. Its commands, when no two overlap, find what they have read*)
(* still true: a registry read is the registry, a ZIP to be moved is where *)
(* the registry says, one that has been moved is whole at the folder, and  *)
(* one that was filled is whole unless it was filled from itself.          *)
Gathering == {"move", "copying", "unlinkold", "rollback", "rewrite"}
Clearing == {"erase", "retain"}

Whole(d, o) == zips[d][o] = "whole"

RegKept(t) == pc[t] \in RegLabels => loc[t].reg = registry

ImportKept(t) ==
  Op(t) = "import" =>
    /\ pc[t] = "filling" =>
         /\ cmd[t].orb \in spoiled /\ zips[loc[t].dir][cmd[t].orb] = "filling"
         /\ cmd[t].from = loc[t].dir => "self" \in clash
    /\ pc[t] \in {"load", "upsert"} => "self" \in clash \/ Whole(loc[t].dir, cmd[t].orb)

MovesKept(t) ==
  /\ pc[t] \in Gathering =>
       /\ \A o \in loc[t].todo : From(t, o) # loc[t].dir /\ Exists(From(t, o), o) /\ o \notin loc[t].moved
       /\ \A o \in loc[t].moved :
            From(t, o) # loc[t].dir /\ (o \notin spoiled => ~Exists(From(t, o), o) /\ Whole(loc[t].dir, o))
  /\ pc[t] = "unlinkold" /\ loc[t].orb \notin spoiled => Whole(loc[t].dir, loc[t].orb)
  /\ pc[t] = "rollback" => faults # 0

ErasesKept(t) ==
  /\ pc[t] \in Clearing => loc[t].todo \subseteq StoredUnder(loc[t].reg, loc[t].olds)
  /\ pc[t] = "retain" => loc[t].todo = {}

PhaseKept(t) == RegKept(t) /\ ImportKept(t) /\ MovesKept(t) /\ ErasesKept(t)

(* The Orbs whose ZIP a command has moved away or changed, and whose entry *)
(* it has still to change with it.                                         *)
MovedBy(t) == IF pc[t] \in Gathering THEN loc[t].moved ELSE {}

SpoiledBy(t) ==
  IF Op(t) = "import" /\ pc[t] \in {"filling", "load", "upsert"} THEN {cmd[t].orb}
  ELSE IF Op(t) = "remove" /\ pc[t] = "drop" THEN {cmd[t].orb}
  ELSE IF pc[t] \in Clearing THEN StoredUnder(loc[t].reg, loc[t].olds) \ loc[t].todo
  ELSE {}

(* Whatever has gone wrong, a registered ZIP is whole, or moved in whole.  *)
Sound ==
  \A o \in Installed \ spoiled :
    Whole(registry[o], o) \/ (~Exists(registry[o], o) /\ \E d \in Dirs : Whole(d, o))

(* Before the first error, and within one volume in the rollback after it, *)
(* what is not in place is accounted for by the command that moved it.     *)
Undoing(t) == faults = 1 /\ pc[t] = "rollback" /\ \A d, e \in Dirs : SameVolume(d, e)

Homed ==
  faults = 0 \/ (\E t \in Tasks : Undoing(t)) =>
    \A o \in Installed \ spoiled : Whole(registry[o], o) \/ \E t \in Tasks : o \in MovedBy(t)

Clean ==
  faults = 0 /\ "self" \notin clash =>
    registry # Torn /\ \A o \in Installed \cap spoiled : \E t \in Tasks : o \in SpoiledBy(t)

LibraryKept == Apart("library") => (\A t \in Tasks : PhaseKept(t)) /\ Sound /\ Homed /\ Clean

(* The same, for the one command of the library.                           *)
HomedBy(t) ==
  faults = 0 \/ Undoing(t) => \A o \in Installed \ spoiled : Whole(registry[o], o) \/ o \in MovedBy(t)

CleanBy(t) ==
  faults = 0 /\ "self" \notin clash => registry # Torn /\ Installed \cap spoiled \subseteq SpoiledBy(t)

LoneKept(t) == PhaseKept(t) /\ Sound /\ HomedBy(t) /\ CleanBy(t)

(* While no library commands overlap, the others have no part in it.       *)
LEMMA OnlyOne ==
  ASSUME Typed, Alone, Apart("library"), NEW t \in Tasks, Op(t) \in LibraryOps \cup {"close"}, NEW u \in Tasks \ {t}
  PROVE  Op(u) \notin LibraryOps \cup {"close"} /\ pc[u] \notin RegLabels
<1>1. Op(u) \notin LibraryOps \cup {"close"}
  BY AreasAre, OneAtATime
<1> QED
  BY <1>1 DEF Typed, TasksTyped, LocalsOf

LEMMA NoPart ==
  ASSUME NEW u \in Tasks, Op(u) \notin LibraryOps, pc[u] \notin RegLabels
  PROVE  MovedBy(u) = {} /\ SpoiledBy(u) = {} /\ PhaseKept(u)
BY DEF MovedBy, SpoiledBy, PhaseKept, RegKept, ImportKept, MovesKept, ErasesKept, Gathering, Clearing, RegLabels, LibraryOps

LEMMA LoneIs ==
  ASSUME Typed, Alone, LibraryKept, Apart("library"), NEW t \in Tasks, Op(t) \in LibraryOps
  PROVE  LoneKept(t)
<1>1. \A u \in Tasks \ {t} : MovedBy(u) = {} /\ SpoiledBy(u) = {}
  BY OnlyOne, NoPart
<1> QED
  BY <1>1 DEF LibraryKept, LoneKept, Homed, HomedBy, Clean, CleanBy

(* What the one command of the library keeps is kept.                      *)
LEMMA LoneKeeps ==
  ASSUME Typed, Alone, Apart("library"), NEW t \in Tasks, Op(t) \in LibraryOps, Framed(t), LoneKept(t)'
  PROVE  LibraryKept'
<1>1. ASSUME NEW u \in Tasks \ {t}
      PROVE  Op(u)' \notin LibraryOps /\ pc'[u] \notin RegLabels
  <2>1. Op(u)' = Op(u) /\ pc'[u] = pc[u]
    BY DEF Framed, Op
  <2> QED
    BY <2>1, OnlyOne
<1>2. ASSUME NEW u \in Tasks \ {t}
      PROVE  PhaseKept(u)' /\ ~Undoing(u)'
  BY <1>1 DEF PhaseKept, RegKept, ImportKept, MovesKept, ErasesKept, Undoing, Gathering, Clearing, RegLabels, LibraryOps
<1>3. Homed'
  BY <1>2 DEF LoneKept, Homed, HomedBy
<1>4. Clean'
  BY DEF LoneKept, Clean, CleanBy
<1> QED
  BY <1>2, <1>3, <1>4 DEF LoneKept, LibraryKept

(* A command that returns leaves nothing in hand.                          *)
LEMMA ReturnedLone ==
  ASSUME NEW t \in Tasks, Returned(t), Sound',
         faults' = 0 => \A o \in (Installed \ spoiled)' : Whole(registry[o], o)',
         faults' = 0 /\ "self" \notin clash' => registry' # Torn /\ (Installed \cap spoiled)' = {}
  PROVE  LoneKept(t)'
<1>1. Op(t)' = "none" /\ pc'[t] = "idle"
  BY DEF Returned, Op
<1>2. PhaseKept(t)' /\ ~Undoing(t)'
  BY <1>1 DEF PhaseKept, RegKept, ImportKept, MovesKept, ErasesKept, Clearing, Undoing, Gathering, RegLabels
<1>3. HomedBy(t)'
  BY <1>2 DEF HomedBy
<1> QED
  BY <1>2, <1>3 DEF LoneKept, CleanBy

(* What is the same if no file and no entry is touched.                    *)
LEMMA SameDisk ==
  ASSUME UNCHANGED disk
  PROVE  /\ Installed' = Installed /\ Sound' = Sound
         /\ \A o, d : Whole(d, o)' = Whole(d, o) /\ Exists(d, o)' = Exists(d, o)
BY DEF disk, Installed, Sound, Whole, Exists

LEMMA ImportCheckLone ==
  ASSUME Typed, NEW t \in Tasks, LoneKept(t), ImportCheck(t)
  PROVE  LoneKept(t)'
<1>0. TasksTyped /\ UNCHANGED <<disk, faults>> /\ pc[t] = "start" /\ Op(t) = "import" /\ clash' = clash
  BY DEF Typed, ImportCheck, library, At, Goto, GotoMarked, End, EndMarked
<1>1. MovedBy(t) = {} /\ SpoiledBy(t) = {}
  BY <1>0 DEF MovedBy, SpoiledBy, Gathering, Clearing
<1>2. /\ Sound' /\ UNCHANGED <<registry, spoiled>> /\ Installed' = Installed
      /\ \A o, d : Whole(d, o)' = Whole(d, o)
      /\ faults = 0 => \A o \in Installed \ spoiled : Whole(registry[o], o)
      /\ faults = 0 /\ "self" \notin clash => registry # Torn /\ Installed \cap spoiled = {}
  BY <1>0, <1>1, SameDisk DEF LoneKept, HomedBy, CleanBy, disk
<1>3. CASE Returned(t)
  BY <1>0, <1>2, <1>3, ReturnedLone
<1>4. CASE Goto(t, "copy")
  <2>1. pc'[t] = "copy" /\ Op(t)' = "import"
    BY <1>0, <1>4, GotoIs DEF Goto, Op
  <2>2. PhaseKept(t)' /\ ~Undoing(t)'
    BY <2>1 DEF PhaseKept, RegKept, ImportKept, MovesKept, ErasesKept, Clearing, Undoing, Gathering, RegLabels
  <2> QED
    BY <1>0, <1>2, <2>2 DEF LoneKept, HomedBy, CleanBy
<1> QED
  BY <1>0, <1>3, <1>4, EndIs DEF ImportCheck, End

(* The ZIP that is opened is truncated, and so in the import's hand.       *)
LEMMA ImportOpenLone ==
  ASSUME Typed, NEW t \in Tasks, LoneKept(t), ImportOpen(t)
  PROVE  LoneKept(t)'
<1> DEFINE o == cmd[t].orb
<1>0. /\ TasksTyped /\ UNCHANGED registry /\ pc[t] = "copy" /\ Op(t) = "import" /\ cmd[t] # None
      /\ o \in Orbs /\ zips \in Shelves /\ orbsDir \in Dirs /\ DOMAIN loc = Tasks
      /\ "dir" \in DOMAIN loc[t] /\ faults \in Nat /\ faults' \in {faults, faults + 1}
      /\ clash \subseteq clash' /\ (registry # Torn => registry \in Entries)
  <2>1. cmd[t] # None /\ cmd[t] \in Commands /\ LocalsOf(t) /\ cmd[t].op = "import"
    BY DEF Typed, TasksTyped, ImportOpen, At, Op
  <2>2. o \in Orbs
    BY <2>1, CommandIs DEF OrbOps
  <2>3. "dir" \in DOMAIN loc[t]
    BY <2>1, LocalNames DEF LocalsOf
  <2>4. faults \in Nat /\ zips \in Shelves /\ orbsDir \in Dirs /\ DOMAIN loc = Tasks /\ TasksTyped
        /\ (registry # Torn => registry \in Entries)
    BY DEF Typed, TypeOK, Shelves, TasksTyped
  <2>5. faults' \in {faults, faults + 1} /\ clash \subseteq clash' /\ UNCHANGED registry
    BY DEF ImportOpen, Fault, GotoMarked, End, EndMarked
  <2> QED
    BY <2>1, <2>2, <2>3, <2>4, <2>5 DEF ImportOpen, At
<1>1. MovedBy(t) = {} /\ SpoiledBy(t) = {}
  BY <1>0 DEF MovedBy, SpoiledBy, Gathering, Clearing
<1>2. /\ faults = 0 => \A x \in Installed \ spoiled : Whole(registry[x], x)
      /\ faults = 0 /\ "self" \notin clash => registry # Torn /\ Installed \cap spoiled = {}
      /\ Sound
  BY <1>0, <1>1 DEF LoneKept, HomedBy, CleanBy
<1>3. CASE End(t) /\ UNCHANGED <<zips, spoiled>>
  <2>1. UNCHANGED disk /\ Returned(t) /\ clash' = clash
    BY <1>0, <1>3, EndIs DEF disk, ImportOpen, End, EndMarked
  <2>2. faults' = 0 => faults = 0
    BY <1>0
  <2> QED
    BY <1>2, <2>1, <2>2, SameDisk, ReturnedLone DEF disk
<1>4. ASSUME zips' = Put(orbsDir, o, "filling"), spoiled' = spoiled \cup {o},
             loc' = [loc EXCEPT ![t].dir = orbsDir],
             GotoMarked(t, "filling", IF cmd[t].from = orbsDir THEN {"self"} ELSE {}), UNCHANGED faults
      PROVE  LoneKept(t)'
  <2>1. pc'[t] = "filling" /\ cmd'[t] = cmd[t] /\ Op(t)' = "import" /\ loc'[t].dir = orbsDir
    BY <1>0, <1>4, GotoIs DEF Op
  <2>2. zips'[orbsDir][o] = "filling" /\ \A d \in Dirs : \A x \in Orbs \ {o} : zips'[d][x] = zips[d][x]
    BY <1>0, <1>4 DEF Put, Shelves
  <2>3. cmd[t].from = orbsDir => "self" \in clash'
    BY <1>4 DEF GotoMarked
  <2>4. PhaseKept(t)' /\ ~Undoing(t)'
    BY <1>4, <2>1, <2>2, <2>3
    DEF PhaseKept, RegKept, ImportKept, MovesKept, ErasesKept, Clearing, Undoing, Gathering, RegLabels
  <2>5. Installed' = Installed /\ Installed \subseteq Orbs /\ \A x \in Installed : registry[x] \in Dirs
    BY <1>0, EntryIs DEF Installed
  <2>6. \A x \in Installed \ spoiled' : x \in Orbs \ {o} /\ x \in Installed \ spoiled
    BY <1>4, <2>5
  <2>7. \A d \in Dirs : \A x \in Orbs \ {o} : Whole(d, x)' = Whole(d, x) /\ Exists(d, x)' = Exists(d, x)
    BY <2>2 DEF Whole, Exists
  <2>8. Sound'
    BY <1>0, <1>2, <2>5, <2>6, <2>7 DEF Sound
  <2>9. HomedBy(t)'
    BY <1>0, <1>2, <1>4, <2>4, <2>5, <2>6, <2>7 DEF HomedBy
  <2>10. SpoiledBy(t)' = {o}
    BY <2>1 DEF SpoiledBy
  <2>11. CleanBy(t)'
    BY <1>0, <1>2, <1>4, <2>5, <2>10 DEF CleanBy
  <2> QED
    BY <2>4, <2>8, <2>9, <2>11 DEF LoneKept
<1> QED
  BY <1>3, <1>4 DEF ImportOpen

(* What holds at every step of a command of the library.                   *)
LEMMA Ground ==
  ASSUME Typed, Inv, NEW t \in Tasks, LibraryStep(t), Op(t) \in LibraryOps
  PROVE  /\ TasksTyped /\ LocalsOf(t) /\ DOMAIN loc = Tasks /\ DOMAIN loc[t] = DOMAIN NoLocals /\ cmd[t] # None
         /\ Op(t) \in {"import", "remove"} => cmd[t].orb \in Orbs
         /\ zips \in Shelves /\ (registry # Torn => registry \in Entries)
         /\ Installed \subseteq Orbs /\ \A o \in Installed : registry[o] \in Dirs
         /\ faults \in Nat /\ faults' \in {faults, faults + 1} /\ clash \subseteq clash'
<1>1. TasksTyped /\ LocalsOf(t) /\ DOMAIN loc = Tasks /\ DOMAIN loc[t] = DOMAIN NoLocals
  BY DEF Typed, TasksTyped, LocalsOf
<1>2. cmd[t] # None /\ cmd[t] \in Commands /\ Op(t) = cmd[t].op
  BY DEF Typed, TasksTyped, Op, LibraryOps
<1>3. Op(t) \in {"import", "remove"} => cmd[t].orb \in Orbs
  BY <1>2, CommandIs DEF OrbOps
<1>4. zips \in Shelves /\ (registry # Torn => registry \in Entries) /\ faults \in Nat
  BY DEF Typed, TypeOK, Shelves
<1>5. Installed \subseteq Orbs /\ \A o \in Installed : registry[o] \in Dirs
  BY <1>4, EntryIs DEF Installed
<1> QED
  BY <1>1, <1>2, <1>3, <1>4, <1>5, LibraryWrites

(* What is filled is whole in the end, unless it was filled from itself.   *)
LEMMA ImportFilledLone ==
  ASSUME Typed, Inv, NEW t \in Tasks, LoneKept(t), ImportFilled(t)
  PROVE  LoneKept(t)'
<1> DEFINE o == cmd[t].orb
           dir == loc[t].dir
           content == Filled(cmd[t], loc[t].dir)
<1>0. At(t, "import", "filling") /\ LibraryStep(t) /\ Op(t) \in LibraryOps /\ UNCHANGED registry
  BY DEF ImportFilled, LibraryStep, LibraryOps, At
<1>g. /\ TasksTyped /\ o \in Orbs /\ dir \in Dirs /\ zips \in Shelves
      /\ Installed \subseteq Orbs /\ (\A x \in Installed : registry[x] \in Dirs)
      /\ faults \in Nat /\ faults' \in {faults, faults + 1} /\ clash \subseteq clash'
  BY <1>0, Ground DEF At, LocalsOf
<1>1. MovedBy(t) = {} /\ SpoiledBy(t) = {o} /\ o \in spoiled /\ zips[dir][o] = "filling"
      /\ (cmd[t].from = dir => "self" \in clash)
  BY <1>0 DEF MovedBy, SpoiledBy, Gathering, At, LoneKept, PhaseKept, ImportKept
<1>2. Installed' = Installed
  BY <1>0 DEF Installed
<1>3. ASSUME NEW new, zips' = Settle(o, new)
      PROVE  zips'[dir][o] = new /\ \A d \in Dirs : \A x \in Orbs \ {o} : zips'[d][x] = zips[d][x]
  BY <1>3, <1>1, <1>g DEF Settle, Shelves
<1>4. \A d \in Dirs : \A x \in Orbs \ {o} : Whole(d, x)' = Whole(d, x) /\ Exists(d, x)' = Exists(d, x)
  BY <1>3 DEF Whole, Exists, ImportFilled
<1>5. spoiled' \subseteq spoiled /\ spoiled \ {o} \subseteq spoiled'
      /\ (o \in Installed \ spoiled' => zips'[registry[o]][o] = "whole")
  <2>1. spoiled' = spoiled \/ (InPlace(registry, zips', o) /\ spoiled' = spoiled \ {o})
    BY DEF ImportFilled
  <2>2. InPlace(registry, zips', o) => zips'[registry[o]][o] = "whole"
    BY DEF InPlace
  <2> QED
    BY <1>1, <2>1, <2>2
<1>p. ASSUME NEW x \in Installed \ spoiled', x # o
      PROVE  x \in Installed \ spoiled /\ x \in Orbs /\ registry[x] \in Dirs
  BY <1>5, <1>p, <1>g
<1>6. Sound'
  <2> SUFFICES ASSUME NEW x \in Installed \ spoiled'
               PROVE  Whole(registry[x], x)' \/ (~Exists(registry[x], x)' /\ \E d \in Dirs : Whole(d, x)')
    BY <1>0, <1>2 DEF Sound
  <2>1. CASE x = o
    BY <1>0, <1>5, <2>1 DEF Whole
  <2>2. CASE x # o
    <3>1. Whole(registry[x], x) \/ (~Exists(registry[x], x) /\ \E d \in Dirs : Whole(d, x))
      BY <1>p, <2>2 DEF LoneKept, Sound
    <3>2. /\ Whole(registry[x], x)' = Whole(registry[x], x) /\ Exists(registry[x], x)' = Exists(registry[x], x)
          /\ \A d \in Dirs : Whole(d, x)' = Whole(d, x)
      BY <1>0, <1>4, <1>p, <2>2 DEF Whole, Exists
    <3> QED
      BY <3>1, <3>2
  <2> QED
    BY <2>1, <2>2
<1>7. faults' = 0 => faults = 0
  BY <1>g
<1>8. faults = 0 => \A x \in (Installed \ spoiled)' : Whole(registry[x], x)'
  <2> SUFFICES ASSUME faults = 0, NEW x \in Installed \ spoiled' PROVE Whole(registry[x], x)'
    BY <1>2
  <2>1. CASE x = o
    BY <1>0, <1>5, <2>1 DEF Whole
  <2>2. CASE x # o
    <3>1. Whole(registry[x], x)
      BY <1>1, <1>p, <2>2 DEF LoneKept, HomedBy
    <3> QED
      BY <1>0, <1>4, <1>p, <2>2, <3>1 DEF Whole
  <2> QED
    BY <2>1, <2>2
<1>9. CASE End(t) /\ Fault
  BY <1>6, <1>9, <1>g, EndIs, ReturnedLone DEF End, Fault
<1>10. CASE zips' = Settle(o, content) /\ Goto(t, "load") /\ UNCHANGED loc
  <2>1. pc'[t] = "load" /\ cmd'[t] = cmd[t] /\ Op(t)' = "import" /\ loc'[t].dir = dir
    BY <1>0, <1>10, <1>g, GotoIs DEF Goto, Op, At
  <2>2. "self" \in clash' \/ zips'[dir][o] = "whole"
    BY <1>1, <1>3, <1>10, <1>g DEF Filled
  <2>3. PhaseKept(t)' /\ ~Undoing(t)'
    BY <2>1, <2>2 DEF PhaseKept, RegKept, ImportKept, MovesKept, ErasesKept, Clearing, Undoing, Gathering, RegLabels, Whole
  <2>4. SpoiledBy(t)' = {o}
    BY <2>1 DEF SpoiledBy
  <2>5. HomedBy(t)'
    BY <1>7, <1>8, <2>3 DEF HomedBy
  <2>6. CleanBy(t)'
    BY <1>0, <1>1, <1>2, <1>5, <1>7, <1>g, <2>4 DEF CleanBy, LoneKept
  <2> QED
    BY <1>6, <2>3, <2>5, <2>6 DEF LoneKept
<1> QED
  BY <1>9, <1>10 DEF ImportFilled

(* While no other command of the library is under way, none saves.         *)
LEMMA ImportLoadLone ==
  ASSUME Typed, Inv, NEW t \in Tasks, LoneKept(t), ImportLoad(t), \A u \in Tasks \ {t} : pc[u] \notin RegLabels
  PROVE  LoneKept(t)'
<1> DEFINE o == cmd[t].orb
<1>0. At(t, "import", "load") /\ LibraryStep(t) /\ Op(t) \in LibraryOps /\ UNCHANGED <<disk, faults>>
  BY DEF ImportLoad, LibraryStep, LibraryOps, At, library
<1>g. TasksTyped /\ DOMAIN loc = Tasks /\ DOMAIN loc[t] = DOMAIN NoLocals
  BY <1>0, Ground
<1>1. /\ MovedBy(t) = {} /\ SpoiledBy(t) = {o} /\ ("self" \in clash \/ Whole(loc[t].dir, o)) /\ clash' = clash
  BY <1>0 DEF MovedBy, SpoiledBy, Gathering, At, LoneKept, PhaseKept, ImportKept, ImportLoad, Load, Goto, GotoMarked, End, EndMarked
<1>2. /\ Sound' /\ UNCHANGED <<registry, spoiled>> /\ Installed' = Installed
      /\ \A x, d : Whole(d, x)' = Whole(d, x)
      /\ faults = 0 => \A x \in Installed \ spoiled : Whole(registry[x], x)
      /\ faults = 0 /\ "self" \notin clash => registry # Torn /\ Installed \cap spoiled \subseteq {o}
  BY <1>0, <1>1, SameDisk DEF LoneKept, HomedBy, CleanBy, disk
<1>3. CASE End(t) /\ LoadFails(t)
  <2>1. registry = Torn
    BY <1>3 DEF LoadFails, SavePoints, RegLabels
  <2>2. Installed' = {} /\ Returned(t)
    BY <1>2, <1>3, <1>g, <2>1, EndIs DEF Installed, End
  <2> QED
    BY <1>0, <1>1, <1>2, <2>1, <2>2, ReturnedLone
<1>4. CASE Load(t, "upsert")
  <2>1. pc'[t] = "upsert" /\ cmd'[t] = cmd[t] /\ Op(t)' = "import"
    BY <1>0, <1>4, <1>g, GotoIs DEF Load, Goto, Op, At
  <2>2. loc'[t].dir = loc[t].dir /\ loc'[t].reg = registry
    BY <1>4, <1>g, LocalNames DEF Load
  <2>3. PhaseKept(t)' /\ ~Undoing(t)'
    BY <1>1, <1>2, <2>1, <2>2 DEF PhaseKept, RegKept, ImportKept, MovesKept, ErasesKept, Clearing, Undoing, Gathering
  <2>4. SpoiledBy(t)' = {o}
    BY <2>1 DEF SpoiledBy
  <2> QED
    BY <1>0, <1>1, <1>2, <2>3, <2>4 DEF LoneKept, HomedBy, CleanBy
<1> QED
  BY <1>3, <1>4 DEF ImportLoad

(* A registry that has been read is no torn one.                           *)
LEMMA ReadIs ==
  ASSUME NEW t \in Tasks, LocalsOf(t), RegKept(t), pc[t] \in RegLabels
  PROVE  loc[t].reg = registry /\ registry \in Entries /\ registry # Torn /\ Installed = DOMAIN registry
BY RegistryUnlike DEF LocalsOf, RegKept, Installed

(* A save that fails leaves the entries as they were, or torn.             *)
LEMMA SaveFailsLone ==
  ASSUME Typed, Inv, NEW t \in Tasks, LoneKept(t), Returned(t), SaveRegistryFails, UNCHANGED <<zips, spoiled>>
  PROVE  LoneKept(t)'
<1>1. faults' # 0
  BY DEF SaveRegistryFails, Fault, Typed, TypeOK
<1>2. registry' = registry \/ Installed' = {}
  BY DEF SaveRegistryFails, Installed
<1>3. Sound'
  BY <1>2 DEF LoneKept, Sound, Installed, Whole, Exists
<1> QED
  BY <1>1, <1>3, ReturnedLone

(* The entry saved is that of the ZIP filled; the others stay.             *)
LEMMA ImportSaveLone ==
  ASSUME Typed, Inv, NEW t \in Tasks, LoneKept(t), ImportSave(t)
  PROVE  LoneKept(t)'
<1> DEFINE o == cmd[t].orb
           dir == loc[t].dir
           reg == Upsert(loc[t].reg, o, dir)
<1>0. At(t, "import", "upsert") /\ LibraryStep(t) /\ Op(t) \in LibraryOps /\ UNCHANGED zips
  BY DEF ImportSave, LibraryStep, LibraryOps, At
<1>g. /\ TasksTyped /\ LocalsOf(t) /\ o \in Orbs /\ dir \in Dirs
      /\ faults \in Nat /\ clash \subseteq clash'
  BY <1>0, Ground DEF At, LocalsOf
<1>1. /\ MovedBy(t) = {} /\ SpoiledBy(t) = {o} /\ ("self" \in clash \/ zips[dir][o] = "whole")
      /\ loc[t].reg = registry /\ registry \in Entries /\ registry # Torn /\ Installed = DOMAIN registry
  BY <1>0, <1>g, ReadIs DEF MovedBy, SpoiledBy, Gathering, At, LoneKept, PhaseKept, ImportKept, Whole, RegLabels
<1>2. Returned(t)
  BY <1>g, EndIs DEF ImportSave, End
<1>3. CASE SaveRegistryFails /\ UNCHANGED spoiled
  BY <1>0, <1>2, <1>3, SaveFailsLone
<1>4. CASE Save(reg) /\ spoiled' = IF InPlace(reg, zips, o) THEN spoiled \ {o} ELSE spoiled \cup {o}
  <2>1. /\ reg # Torn /\ DOMAIN reg = DOMAIN registry \cup {o} /\ reg[o] = dir
        /\ \A x \in DOMAIN registry \ {o} : reg[x] = registry[x]
    BY <1>1, <1>g, UpsertTyped, RegistryUnlike DEF Upsert
  <2> HIDE DEF reg, o, dir
  <2>2. registry' = reg /\ faults' = faults /\ Installed' = DOMAIN reg
    BY <1>4, <2>1 DEF Save, Installed
  <2>3. o \in spoiled' \/ zips[dir][o] = "whole"
    BY <1>4, <2>1 DEF InPlace
  <2>4. ASSUME NEW x \in Installed' \ spoiled', x # o
        PROVE  x \in Installed \ spoiled /\ reg[x] = registry[x]
    BY <1>1, <1>4, <2>1, <2>2, <2>4
  <2>5. Sound'
    <3> SUFFICES ASSUME NEW x \in Installed' \ spoiled'
                 PROVE  zips[reg[x]][x] = "whole" \/ (zips[reg[x]][x] = "absent" /\ \E d \in Dirs : zips[d][x] = "whole")
      BY <1>0, <2>2 DEF Sound, Whole, Exists
    <3>1. CASE x = o
      BY <2>1, <2>3, <3>1
    <3>2. CASE x # o
      BY <2>4, <3>2 DEF LoneKept, Sound, Whole, Exists
    <3> QED
      BY <3>1, <3>2
  <2>6. ASSUME faults' = 0, NEW x \in Installed' \ spoiled'
        PROVE  zips[reg[x]][x] = "whole"
    <3>1. CASE x = o
      BY <2>1, <2>3, <2>6, <3>1
    <3>2. CASE x # o
      BY <1>1, <2>2, <2>4, <2>6, <3>2 DEF LoneKept, HomedBy, Whole
    <3> QED
      BY <3>1, <3>2
  <2>7. ASSUME faults' = 0, "self" \notin clash'
        PROVE  registry' # Torn /\ Installed' \cap spoiled' = {}
    <3>1. "self" \notin clash /\ faults = 0 /\ InPlace(reg, zips, o)
      BY <1>1, <1>g, <2>1, <2>2, <2>7 DEF InPlace
    <3>2. Installed \cap spoiled \subseteq {o}
      BY <1>1, <3>1 DEF LoneKept, CleanBy
    <3> QED
      BY <1>1, <1>4, <2>1, <2>2, <3>1, <3>2
  <2>8. \A x \in (Installed \ spoiled)' : Whole(registry[x], x)' <=> zips[reg[x]][x] = "whole"
    BY <1>0, <2>2 DEF Whole
  <2> QED
    BY <1>2, <2>5, <2>6, <2>7, <2>8, ReturnedLone
<1> QED
  BY <1>3, <1>4 DEF ImportSave

LEMMA RemoveLoadLone ==
  ASSUME Typed, Inv, NEW t \in Tasks, LoneKept(t), RemoveLoad(t)
  PROVE  LoneKept(t)'
<1>0. At(t, "remove", "stopped") /\ LibraryStep(t) /\ Op(t) \in LibraryOps /\ UNCHANGED <<disk, faults>>
  BY DEF RemoveLoad, LibraryStep, LibraryOps, At, library
<1>g. TasksTyped /\ DOMAIN loc = Tasks /\ DOMAIN loc[t] = DOMAIN NoLocals
  BY <1>0, Ground
<1>1. MovedBy(t) = {} /\ SpoiledBy(t) = {} /\ clash' = clash
  BY <1>0 DEF MovedBy, SpoiledBy, Gathering, Clearing, At, RemoveLoad, Load, Goto, GotoMarked, End, EndMarked
<1>2. /\ Sound' /\ UNCHANGED <<registry, spoiled>> /\ Installed' = Installed
      /\ \A x, d : Whole(d, x)' = Whole(d, x)
      /\ faults = 0 => \A x \in Installed \ spoiled : Whole(registry[x], x)
      /\ faults = 0 /\ "self" \notin clash => registry # Torn /\ Installed \cap spoiled = {}
  BY <1>0, <1>1, SameDisk DEF LoneKept, HomedBy, CleanBy, disk
<1>3. CASE End(t)
  BY <1>0, <1>1, <1>2, <1>3, <1>g, EndIs, ReturnedLone DEF End
<1>4. CASE Load(t, "unlink")
  <2>1. pc'[t] = "unlink" /\ cmd'[t] = cmd[t] /\ Op(t)' = "remove"
    BY <1>0, <1>4, <1>g, GotoIs DEF Load, Goto, Op, At
  <2>2. loc'[t].reg = registry
    BY <1>4, <1>g, LocalNames DEF Load
  <2>3. PhaseKept(t)' /\ ~Undoing(t)'
    BY <1>2, <2>1, <2>2 DEF PhaseKept, RegKept, ImportKept, MovesKept, ErasesKept, Clearing, Undoing, Gathering
  <2> QED
    BY <1>0, <1>1, <1>2, <2>3 DEF LoneKept, HomedBy, CleanBy
<1> QED
  BY <1>3, <1>4 DEF RemoveLoad

(* What is unlinked is spoiled; every other ZIP is as it was.              *)
LEMMA UnlinkedIs ==
  ASSUME zips \in Shelves, registry # Torn => registry \in Entries, Sound, UNCHANGED registry,
         NEW o \in Orbs, NEW d, Unlinked(d, o)
  PROVE  /\ Sound' /\ Installed' = Installed
         /\ \A x \in Installed \ spoiled' : x \in Installed \ spoiled /\ Whole(registry[x], x)' = Whole(registry[x], x)
         /\ \A x \in Orbs \ {o} : \A e \in Dirs : Exists(e, x)' = Exists(e, x)
<1>1. Installed' = Installed /\ Installed \subseteq Orbs /\ \A x \in Installed : registry[x] \in Dirs
  BY EntryIs DEF Installed
<1>2. \A x \in Orbs \ {o} : \A e \in Dirs : zips'[e][x] = zips[e][x]
  BY DEF Unlinked, Put, Shelves
<1>3. \A x \in Orbs \ {o} : \A e \in Dirs : Whole(e, x)' = Whole(e, x) /\ Exists(e, x)' = Exists(e, x)
  BY <1>2 DEF Whole, Exists
<1>4. \A x \in Installed \ spoiled' : x \in Installed \ spoiled /\ x \in Orbs \ {o} /\ registry[x] \in Dirs
  BY <1>1 DEF Unlinked
<1>5. \A x \in Installed \ spoiled' : Whole(registry[x], x)' = Whole(registry[x], x) /\ Exists(registry[x], x)' = Exists(registry[x], x)
  BY <1>2, <1>4 DEF Whole, Exists
<1>6. Sound'
  BY <1>1, <1>3, <1>4, <1>5 DEF Sound
<1> QED
  BY <1>1, <1>3, <1>4, <1>5, <1>6

LEMMA RemoveUnlinkLone ==
  ASSUME Typed, Inv, NEW t \in Tasks, LoneKept(t), RemoveUnlink(t)
  PROVE  LoneKept(t)'
<1> DEFINE o == cmd[t].orb
<1>0. At(t, "remove", "unlink") /\ LibraryStep(t) /\ Op(t) \in LibraryOps /\ UNCHANGED <<registry, volume>>
  BY DEF RemoveUnlink, LibraryStep, LibraryOps, At
<1>g. TasksTyped /\ LocalsOf(t) /\ o \in Orbs /\ zips \in Shelves /\ faults \in Nat
  BY <1>0, Ground DEF At
<1>1. /\ MovedBy(t) = {} /\ SpoiledBy(t) = {} /\ clash' = clash
      /\ loc[t].reg = registry /\ registry \in Entries /\ registry # Torn /\ Installed = DOMAIN registry
  BY <1>0, <1>g, ReadIs
  DEF MovedBy, SpoiledBy, Gathering, Clearing, At, LoneKept, PhaseKept, RegLabels, RemoveUnlink, Goto, GotoMarked, End, EndMarked
<1>2. /\ faults = 0 => \A x \in Installed \ spoiled : Whole(registry[x], x)
      /\ faults = 0 /\ "self" \notin clash => Installed \cap spoiled = {}
      /\ Sound
  BY <1>1 DEF LoneKept, HomedBy, CleanBy
<1>3. CASE Fault /\ End(t) /\ UNCHANGED <<zips, spoiled>>
  <2>1. UNCHANGED disk /\ Returned(t) /\ faults' # 0
    BY <1>0, <1>3, <1>g, EndIs DEF disk, End, Fault
  <2> QED
    BY <1>2, <2>1, SameDisk, ReturnedLone
<1>4. CASE Unlinked(loc[t].reg[o], o) /\ Goto(t, "drop") /\ UNCHANGED <<loc, faults>>
  <2>1. pc'[t] = "drop" /\ cmd'[t] = cmd[t] /\ Op(t)' = "remove"
    BY <1>0, <1>4, <1>g, GotoIs DEF Goto, Op, At
  <2>2. PhaseKept(t)' /\ ~Undoing(t)' /\ SpoiledBy(t)' = {o}
    BY <1>0, <1>1, <1>4, <2>1
    DEF PhaseKept, RegKept, ImportKept, MovesKept, ErasesKept, Clearing, Undoing, Gathering, SpoiledBy
  <2>3. /\ Sound' /\ Installed' = Installed
        /\ \A x \in Installed \ spoiled' : x \in Installed \ spoiled /\ Whole(registry[x], x)' = Whole(registry[x], x)
    BY <1>0, <1>1, <1>2, <1>4, <1>g, UnlinkedIs
  <2>4. spoiled' = spoiled \cup {o}
    BY <1>4 DEF Unlinked
  <2>5. HomedBy(t)'
    BY <1>2, <1>4, <2>2, <2>3 DEF HomedBy
  <2>6. CleanBy(t)'
    BY <1>0, <1>1, <1>2, <1>4, <2>2, <2>3, <2>4 DEF CleanBy
  <2> QED
    BY <2>2, <2>3, <2>5, <2>6 DEF LoneKept
<1> QED
  BY <1>3, <1>4 DEF RemoveUnlink

(* An entry goes after its ZIP.                                            *)
LEMMA DroppedLone ==
  ASSUME Typed, Inv, NEW t \in Tasks, LoneKept(t), pc[t] \in RegLabels, MovedBy(t) = {},
         NEW S, SpoiledBy(t) \subseteq S, UNCHANGED <<zips, spoiled>>, clash' = clash,
         Save(Restrict(loc[t].reg, DOMAIN loc[t].reg \ S))
  PROVE  /\ Sound' /\ faults' = faults /\ registry' # Torn /\ Installed' = Installed \ S
         /\ faults = 0 => \A x \in (Installed \ spoiled)' : Whole(registry[x], x)'
         /\ faults = 0 /\ "self" \notin clash => (Installed \cap spoiled)' = {}
<1>1. LocalsOf(t) /\ loc[t].reg = registry /\ registry \in Entries /\ registry # Torn /\ Installed = DOMAIN registry
  BY ReadIs DEF LoneKept, PhaseKept, Typed, TasksTyped
<1>2. /\ registry' = Restrict(registry, DOMAIN registry \ S) /\ faults' = faults
      /\ registry' # Torn /\ Installed' = DOMAIN registry'
  BY <1>1, RestrictTyped, RegistryUnlike DEF Save, Installed
<1>3. Installed' = Installed \ S /\ \A x \in Installed \ S : registry'[x] = registry[x]
  BY <1>1, <1>2 DEF Restrict
<1>4. \A x \in Installed' : /\ Whole(registry[x], x)' = Whole(registry[x], x)
                            /\ Exists(registry[x], x)' = Exists(registry[x], x)
  BY <1>3 DEF Whole, Exists
<1>5. \A d, x : Whole(d, x)' = Whole(d, x)
  BY DEF Whole
<1>6. Sound'
  BY <1>3, <1>4, <1>5 DEF Sound, LoneKept
<1>7. faults = 0 => \A x \in (Installed \ spoiled)' : Whole(registry[x], x)'
  BY <1>3, <1>4 DEF LoneKept, HomedBy
<1>8. faults = 0 /\ "self" \notin clash => (Installed \cap spoiled)' = {}
  BY <1>3 DEF LoneKept, CleanBy
<1> QED
  BY <1>2, <1>3, <1>6, <1>7, <1>8

LEMMA RemoveSaveLone ==
  ASSUME Typed, Inv, NEW t \in Tasks, LoneKept(t), RemoveSave(t)
  PROVE  LoneKept(t)'
<1>0. At(t, "remove", "drop") /\ TasksTyped /\ UNCHANGED <<zips, spoiled>>
  BY DEF RemoveSave, Typed
<1>1. MovedBy(t) = {} /\ SpoiledBy(t) = {cmd[t].orb} /\ pc[t] \in RegLabels
  BY <1>0 DEF MovedBy, SpoiledBy, Gathering, At, RegLabels
<1>2. Returned(t) /\ clash' = clash
  BY <1>0, EndIs DEF RemoveSave, End, EndMarked
<1>3. CASE SaveRegistryFails
  BY <1>0, <1>2, <1>3, SaveFailsLone
<1>4. CASE Save(Restrict(loc[t].reg, DOMAIN loc[t].reg \ {cmd[t].orb}))
  BY <1>0, <1>1, <1>2, <1>4, DroppedLone, ReturnedLone
<1> QED
  BY <1>3, <1>4 DEF RemoveSave

(* A step that touches neither files nor entries, with nothing in hand.    *)
LEMMA QuietLone ==
  ASSUME NEW t \in Tasks, LoneKept(t), UNCHANGED disk, faults \in Nat, faults' \in {faults, faults + 1},
         clash' = clash, MovedBy(t) = {}, SpoiledBy(t) = {}, PhaseKept(t)', pc'[t] # "rollback"
  PROVE  LoneKept(t)'
<1>1. /\ Sound' /\ UNCHANGED <<registry, spoiled>> /\ Installed' = Installed
      /\ \A x, d : Whole(d, x)' = Whole(d, x)
  BY SameDisk DEF LoneKept, disk
<1>2. faults' = 0 => faults = 0
  OBVIOUS
<1>3. HomedBy(t)'
  BY <1>1, <1>2 DEF LoneKept, HomedBy, Undoing
<1>4. CleanBy(t)'
  BY <1>1, <1>2 DEF LoneKept, CleanBy
<1> QED
  BY <1>1, <1>3, <1>4 DEF LoneKept

(* Where nothing is promised of a command of the library.                  *)
LEMMA NothingYet ==
  ASSUME NEW t, Op(t) # "import", pc[t] \notin RegLabels
  PROVE  MovedBy(t) = {} /\ (Op(t) # "remove" => SpoiledBy(t) = {})
BY DEF MovedBy, SpoiledBy, Gathering, Clearing, RegLabels

LEMMA NothingPromised ==
  ASSUME NEW t, Op(t)' # "import", pc'[t] \notin RegLabels
  PROVE  PhaseKept(t)' /\ pc'[t] # "rollback"
BY DEF PhaseKept, RegKept, ImportKept, MovesKept, ErasesKept, Clearing, Gathering, RegLabels

LEMMA ApplyQuietLone ==
  ASSUME Typed, Inv, NEW t \in Tasks, LoneKept(t), ApplyBegin(t) \/ ApplyResolve(t) \/ Adopt(t)
  PROVE  LoneKept(t)'
<1>0. /\ LibraryStep(t) /\ Op(t) \in ApplyOps /\ pc[t] \in {"start", "resolve", "adopt"} /\ UNCHANGED disk
      /\ TasksTyped /\ clash' = clash
  BY DEF LibraryStep, ApplyBegin, ApplyResolve, Adopt, Applying, library, Typed, Goto, GotoMarked, End, EndMarked, Abort
<1>1. Op(t) \in LibraryOps /\ Op(t) # "import" /\ Op(t) # "remove" /\ pc[t] \notin RegLabels
  BY <1>0 DEF ApplyOps, LibraryOps, RegLabels
<1>2. DOMAIN loc = Tasks /\ faults \in Nat /\ faults' \in {faults, faults + 1}
  BY <1>0, <1>1, Ground
<1>3. (cmd'[t] = cmd[t] /\ pc'[t] \in {"resolve", "targets"}) \/ Returned(t)
  BY <1>0, <1>2, GotoIs, EndIs DEF ApplyBegin, ApplyResolve, Adopt, Goto, End, Abort
<1>4. Op(t)' # "import" /\ pc'[t] \notin RegLabels
  BY <1>1, <1>3 DEF Returned, Op, RegLabels
<1> QED
  BY <1>0, <1>1, <1>2, <1>4, NothingYet, NothingPromised, QuietLone

(* The registry is read, and the ZIPs to be moved are all there.           *)
LEMMA ApplyTargetsLone ==
  ASSUME Typed, Inv, NEW t \in Tasks, LoneKept(t), ApplyTargets(t)
  PROVE  LoneKept(t)'
<1>0. /\ LibraryStep(t) /\ Op(t) \in ApplyOps /\ pc[t] = "targets" /\ UNCHANGED <<disk, faults>>
      /\ TasksTyped /\ clash' = clash
  BY DEF LibraryStep, ApplyTargets, Applying, library, Typed, Goto, GotoMarked, End, EndMarked, Abort
<1>1. Op(t) \in LibraryOps /\ Op(t) # "import" /\ Op(t) # "remove" /\ pc[t] \notin RegLabels /\ cmd[t] # None
  BY <1>0 DEF ApplyOps, LibraryOps, RegLabels, Op
<1>2. DOMAIN loc = Tasks /\ DOMAIN loc[t] = DOMAIN NoLocals /\ loc[t].moved = {} /\ faults \in Nat
  BY <1>0, <1>1, Ground DEF LocalsOf
<1>3. PhaseKept(t)' /\ pc'[t] # "rollback"
  <2>1. CASE Abort(t)
    <3>1. Op(t)' # "import" /\ pc'[t] \notin RegLabels
      BY <1>0, <2>1, EndIs DEF Abort, End, Returned, Op, RegLabels
    <3> QED
      BY <3>1, NothingPromised
  <2>2. CASE /\ AllThere(t, registry)
             /\ loc' = [loc EXCEPT ![t].reg = registry, ![t].todo = Targets(t, registry)]
             /\ Goto(t, FirstLabel(t, Targets(t, registry)))
    <3> DEFINE todo == Targets(t, registry)
               label == FirstLabel(t, todo)
    <3>1. cmd'[t] = cmd[t] /\ pc'[t] = label /\ Op(t)' = Op(t)
      BY <1>0, <2>2, GotoIs DEF Goto, Op
    <3>2. /\ loc'[t].reg = registry /\ loc'[t].todo = todo /\ loc'[t].moved = {} /\ loc'[t].dir = loc[t].dir
          /\ loc'[t].olds = loc[t].olds
      BY <1>2, <2>2, LocalNames
    <3>3. label \in {"rewrite", "move", "retain", "erase"} /\ (label = "retain" => todo = {})
          /\ (label \in {"rewrite", "move"} <=> Op(t) = "migrate")
      BY DEF FirstLabel
    <3>4. Op(t) = "migrate" => \A o \in todo : Exists(registry[o], o) /\ registry[o] # loc[t].dir
      BY <2>2 DEF AllThere, Targets, StoredUnder
    <3>8. Op(t) # "migrate" => todo = StoredUnder(registry, loc[t].olds)
      BY DEF Targets
    <3> HIDE DEF todo, label
    <3>5. UNCHANGED registry /\ \A d, o : Exists(d, o)' = Exists(d, o)
      BY <1>0 DEF disk, Exists
    <3>6. RegKept(t)' /\ ImportKept(t)' /\ ErasesKept(t)'
      BY <1>1, <3>1, <3>2, <3>3, <3>5, <3>8 DEF RegKept, ImportKept, ErasesKept, Clearing
    <3>7. MovesKept(t)'
      BY <3>1, <3>2, <3>3, <3>4, <3>5 DEF MovesKept, From, Gathering
    <3> QED
      BY <3>1, <3>3, <3>6, <3>7 DEF PhaseKept
  <2> QED
    BY <2>1, <2>2 DEF ApplyTargets
<1> QED
  BY <1>0, <1>1, <1>2, <1>3, NothingYet, QuietLone

-----------------------------------------------------------------------------
(* Moving. What holds while a command moves ZIPs into the new folder.      *)
LEMMA MoveGround ==
  ASSUME Typed, Inv, NEW t \in Tasks, LoneKept(t), LibraryStep(t), Op(t) \in ApplyOps, pc[t] \in Gathering
  PROVE  /\ TasksTyped /\ LocalsOf(t) /\ DOMAIN loc = Tasks /\ DOMAIN loc[t] = DOMAIN NoLocals /\ cmd[t] # None
         /\ zips \in Shelves /\ faults \in Nat /\ faults' \in {faults, faults + 1}
         /\ loc[t].reg = registry /\ registry \in Entries /\ registry # Torn /\ Installed = DOMAIN registry
         /\ Installed \subseteq Orbs /\ \A o \in Installed : registry[o] \in Dirs
         /\ loc[t].todo \subseteq Installed /\ loc[t].moved \subseteq Installed /\ loc[t].dir \in Dirs
         /\ MovedBy(t) = loc[t].moved /\ SpoiledBy(t) = {}
<1>1. Op(t) \in LibraryOps /\ pc[t] \in RegLabels /\ pc[t] \in MoveLabels /\ Op(t) \notin {"import", "remove"}
      /\ pc[t] # "start"
  BY DEF Gathering, RegLabels, MoveLabels, ApplyOps, LibraryOps
<1>2. /\ TasksTyped /\ LocalsOf(t) /\ DOMAIN loc = Tasks /\ DOMAIN loc[t] = DOMAIN NoLocals /\ cmd[t] # None
      /\ zips \in Shelves /\ faults \in Nat /\ faults' \in {faults, faults + 1}
  BY <1>1, Ground
<1>3. loc[t].reg = registry /\ registry \in Entries /\ registry # Torn /\ Installed = DOMAIN registry
  BY <1>1, <1>2, ReadIs DEF LoneKept, PhaseKept
<1>4. loc[t].todo \subseteq Installed /\ loc[t].moved \subseteq Installed /\ loc[t].dir \in Dirs
  BY <1>1, <1>2, <1>3 DEF LocalsOf, Dirs
<1>5. MovedBy(t) = loc[t].moved /\ SpoiledBy(t) = {}
  BY <1>1 DEF MovedBy, SpoiledBy, Gathering, Clearing
<1> QED
  BY <1>2, <1>3, <1>4, <1>5, EntryIs

(* The ZIPs of one Orb change places: what there is to keep for the others *)
(* is kept, and for this Orb it is what the step sees to.                  *)
LEMMA MoveKeeps ==
  ASSUME Typed, Inv, NEW t \in Tasks, LoneKept(t), LibraryStep(t), Op(t) \in ApplyOps, pc[t] \in Gathering,
         NEW o \in Installed, UNCHANGED <<registry, spoiled>>, clash' = clash,
         \A d \in Dirs : \A x \in Orbs \ {o} : zips'[d][x] = zips[d][x],
         Op(t)' = Op(t), pc'[t] \in Gathering, loc'[t].reg = loc[t].reg, loc'[t].dir = loc[t].dir,
         loc'[t].todo \subseteq loc[t].todo, loc'[t].moved \ {o} = loc[t].moved \ {o},
         registry[o] # loc[t].dir,
         o \in loc'[t].todo => zips'[registry[o]][o] # "absent" /\ o \notin loc'[t].moved,
         o \in loc'[t].moved /\ o \notin spoiled =>
           zips'[registry[o]][o] = "absent" /\ zips'[loc[t].dir][o] = "whole",
         pc'[t] = "unlinkold" => loc'[t].orb = o /\ (o \notin spoiled => zips'[loc[t].dir][o] = "whole"),
         pc'[t] = "rollback" => faults' # 0,
         o \notin spoiled => \/ zips'[registry[o]][o] = "whole"
                             \/ zips'[registry[o]][o] = "absent" /\ zips'[loc[t].dir][o] = "whole",
         faults' = 0 \/ Undoing(t)' => /\ faults = 0 \/ Undoing(t)
                                       /\ o \notin spoiled => zips'[registry[o]][o] = "whole" \/ o \in loc'[t].moved
  PROVE  LoneKept(t)'
<1>g. /\ Installed \subseteq Orbs /\ (\A x \in Installed : registry[x] \in Dirs) /\ loc[t].dir \in Dirs
      /\ loc[t].reg = registry /\ loc[t].todo \subseteq Installed /\ loc[t].moved \subseteq Installed
      /\ MovedBy(t) = loc[t].moved /\ SpoiledBy(t) = {} /\ faults \in Nat /\ faults' \in {faults, faults + 1}
  BY MoveGround
<1>1. Installed' = Installed /\ MovedBy(t)' = loc'[t].moved
  BY DEF Installed, MovedBy
<1>2. MovesKept(t)'
  <2>1. \A x \in loc[t].todo : registry[x] # loc[t].dir /\ zips[registry[x]][x] # "absent" /\ x \notin loc[t].moved
    BY <1>g DEF LoneKept, PhaseKept, MovesKept, From, Exists
  <2>2. \A x \in loc[t].moved : /\ registry[x] # loc[t].dir
                                /\ x \notin spoiled => zips[registry[x]][x] = "absent" /\ zips[loc[t].dir][x] = "whole"
    BY <1>g DEF LoneKept, PhaseKept, MovesKept, From, Exists, Whole
  <2>3. ASSUME NEW x \in loc'[t].todo
        PROVE  registry[x] # loc[t].dir /\ zips'[registry[x]][x] # "absent" /\ x \notin loc'[t].moved
    <3>1. CASE x = o
      BY <3>1
    <3>2. CASE x # o
      BY <2>1, <3>2, <1>g
    <3> QED
      BY <3>1, <3>2
  <2>4. ASSUME NEW x \in loc'[t].moved
        PROVE  /\ registry[x] # loc[t].dir
               /\ x \notin spoiled => zips'[registry[x]][x] = "absent" /\ zips'[loc[t].dir][x] = "whole"
    <3>1. CASE x = o
      BY <3>1
    <3>2. CASE x # o
      BY <2>2, <3>2, <1>g
    <3> QED
      BY <3>1, <3>2
  <2> QED
    BY <1>g, <2>3, <2>4 DEF MovesKept, From, Exists, Whole
<1>3. PhaseKept(t)'
  BY <1>2, <1>g DEF PhaseKept, RegKept, ImportKept, ErasesKept, Clearing, Gathering, ApplyOps
<1>4. ASSUME NEW x \in Installed \ spoiled, x # o
      PROVE  \A d \in Dirs : zips'[d][x] = zips[d][x]
  BY <1>4, <1>g
<1>5. Sound'
  <2> SUFFICES ASSUME NEW x \in Installed \ spoiled
               PROVE  \/ zips'[registry[x]][x] = "whole"
                      \/ zips'[registry[x]][x] = "absent" /\ \E d \in Dirs : zips'[d][x] = "whole"
    BY <1>1 DEF Sound, Whole, Exists
  <2>1. CASE x = o
    BY <2>1, <1>g
  <2>2. CASE x # o
    <3>1. \/ zips[registry[x]][x] = "whole"
          \/ zips[registry[x]][x] = "absent" /\ \E d \in Dirs : zips[d][x] = "whole"
      BY DEF LoneKept, Sound, Whole, Exists
    <3> QED
      BY <3>1, <1>4, <1>g, <2>2
  <2> QED
    BY <2>1, <2>2
<1>6. HomedBy(t)'
  <2> SUFFICES ASSUME faults' = 0 \/ Undoing(t)', NEW x \in Installed \ spoiled
               PROVE  zips'[registry[x]][x] = "whole" \/ x \in loc'[t].moved
    BY <1>1 DEF HomedBy, Whole
  <2>1. CASE x = o
    BY <2>1
  <2>2. CASE x # o
    <3>1. zips[registry[x]][x] = "whole" \/ x \in loc[t].moved
      BY <1>g DEF LoneKept, HomedBy, Whole
    <3> QED
      BY <3>1, <1>4, <1>g, <2>2
  <2> QED
    BY <2>1, <2>2
<1>7. CleanBy(t)'
  BY <1>1, <1>g DEF CleanBy, LoneKept
<1> QED
  BY <1>3, <1>5, <1>6, <1>7 DEF LoneKept

(* The same, if nothing has moved in the end.                              *)
LEMMA MoveFailsLone ==
  ASSUME Typed, Inv, NEW t \in Tasks, LoneKept(t), LibraryStep(t), Op(t) \in ApplyOps, pc[t] \in Gathering,
         NEW o \in loc[t].todo, UNCHANGED <<registry, spoiled>>, MoveFails(t), Fault,
         zips' \in LeftThere(o, From(t, o), loc[t].dir)
  PROVE  LoneKept(t)'
<1>g. /\ TasksTyped /\ Installed \subseteq Orbs /\ (\A x \in Installed : registry[x] \in Dirs) /\ loc[t].dir \in Dirs
      /\ zips \in Shelves /\ loc[t].reg = registry /\ loc[t].todo \subseteq Installed /\ faults \in Nat
      /\ MovedBy(t) = loc[t].moved /\ DOMAIN loc = Tasks
  BY MoveGround
<1>1. cmd'[t] = cmd[t] /\ Op(t)' = Op(t) /\ pc'[t] = "rollback" /\ loc'[t] = loc[t] /\ clash' = clash
  BY <1>g, GotoIs DEF MoveFails, Goto, GotoMarked, Op
<1>2. o \in Installed /\ o \in Orbs /\ registry[o] \in Dirs /\ registry[o] # loc[t].dir
      /\ zips[registry[o]][o] # "absent" /\ o \notin loc[t].moved
  BY <1>g DEF LoneKept, PhaseKept, MovesKept, From, Exists
<1>3. zips'[registry[o]][o] = zips[registry[o]][o] /\ \A d \in Dirs : \A x \in Orbs \ {o} : zips'[d][x] = zips[d][x]
  BY <1>g, <1>2 DEF LeftThere, CopyBegun, Put, Shelves
<1>4. o \notin spoiled => zips[registry[o]][o] = "whole"
  BY <1>2 DEF LoneKept, Sound, Whole, Exists
<1>5. faults' = faults + 1 /\ faults' # 0 /\ (Undoing(t)' => faults = 0)
  BY <1>g DEF Fault, Undoing
<1> QED
  BY <1>1, <1>2, <1>3, <1>4, <1>5, MoveKeeps DEF Gathering

(* A ZIP that has been moved leaves its place, whole.                      *)
LEMMA MovedLone ==
  ASSUME Typed, Inv, NEW t \in Tasks, LoneKept(t), LibraryStep(t), Op(t) \in ApplyOps, pc[t] \in Gathering \ {"rollback"},
         NEW o \in loc[t].todo, UNCHANGED <<registry, spoiled, faults>>, Moved(t, o),
         \A d \in Dirs : \A x \in Orbs \ {o} : zips'[d][x] = zips[d][x],
         zips'[registry[o]][o] = "absent", o \notin spoiled => zips'[loc[t].dir][o] = "whole"
  PROVE  LoneKept(t)'
<1>g. /\ TasksTyped /\ DOMAIN loc = Tasks /\ DOMAIN loc[t] = DOMAIN NoLocals
      /\ loc[t].reg = registry /\ loc[t].todo \subseteq Installed /\ faults \in Nat /\ loc[t].moved \subseteq Installed
  BY MoveGround
<1> DEFINE left == loc[t].todo \ {o}
           label == IF left = {} THEN "rewrite" ELSE "move"
<1>0. Goto(t, label)
  BY DEF Moved
<1>1. cmd'[t] = cmd[t] /\ Op(t)' = Op(t) /\ pc'[t] = label /\ clash' = clash
  <2> HIDE DEF label
  <2> QED
    BY <1>0, <1>g, GotoIs DEF Goto, GotoMarked, Op
<1>2. /\ loc'[t].todo = left /\ loc'[t].moved = loc[t].moved \cup {o}
      /\ loc'[t].reg = loc[t].reg /\ loc'[t].dir = loc[t].dir
  BY <1>g, LocalNames DEF Moved
<1>3. registry[o] # loc[t].dir
  BY <1>g DEF LoneKept, PhaseKept, MovesKept, From
<1>4. label \in {"rewrite", "move"}
  OBVIOUS
<1> HIDE DEF left, label
<1>5. o \in Installed /\ left \subseteq loc[t].todo /\ o \notin left
  BY <1>g DEF left
<1>6. ~Undoing(t)'
  BY <1>1, <1>4 DEF Undoing
<1>7. pc'[t] \in Gathering /\ pc'[t] \notin {"rollback", "unlinkold"} /\ pc[t] \in Gathering
  BY <1>1, <1>4 DEF Gathering
<1>8. loc'[t].moved \ {o} = loc[t].moved \ {o} /\ o \in loc'[t].moved /\ o \notin loc'[t].todo
      /\ loc'[t].todo \subseteq loc[t].todo
  BY <1>2, <1>5
<1> QED
  BY <1>1, <1>2, <1>3, <1>5, <1>6, <1>7, <1>8, MoveKeeps

(* What is to be moved is whole in its place, unless it was spoiled.       *)
LEMMA ToMove ==
  ASSUME Typed, Inv, NEW t \in Tasks, LoneKept(t), LibraryStep(t), Op(t) \in ApplyOps, pc[t] \in Gathering,
         NEW o \in loc[t].todo
  PROVE  /\ o \in Installed /\ o \in Orbs /\ registry[o] \in Dirs /\ loc[t].dir \in Dirs /\ registry[o] # loc[t].dir
         /\ From(t, o) = registry[o] /\ Exists(From(t, o), o) /\ zips[registry[o]][o] # "absent"
         /\ o \notin loc[t].moved
         /\ o \notin spoiled => zips[registry[o]][o] = "whole"
<1>1. /\ Installed \subseteq Orbs /\ (\A x \in Installed : registry[x] \in Dirs) /\ loc[t].dir \in Dirs
      /\ loc[t].reg = registry /\ loc[t].todo \subseteq Installed
  BY MoveGround
<1> QED
  BY <1>1 DEF LoneKept, PhaseKept, MovesKept, From, Exists, Sound, Whole

LEMMA MoveOneLone ==
  ASSUME Typed, Inv, NEW t \in Tasks, LoneKept(t), MoveOne(t)
  PROVE  LoneKept(t)'
<1>0. LibraryStep(t) /\ Op(t) \in ApplyOps /\ pc[t] = "move" /\ UNCHANGED <<registry, spoiled>>
  BY DEF LibraryStep, MoveOne, Applying
<1>1. pc[t] \in Gathering /\ pc[t] \in Gathering \ {"rollback"} /\ TasksTyped /\ zips \in Shelves /\ DOMAIN loc = Tasks
      /\ DOMAIN loc[t] = DOMAIN NoLocals /\ faults \in Nat
  BY <1>0, MoveGround DEF Gathering
<1>2. ASSUME NEW o \in loc[t].todo, zips' = Rename(o, From(t, o), loc[t].dir), Moved(t, o), UNCHANGED faults
      PROVE  LoneKept(t)'
  <2>1. /\ o \in Orbs /\ registry[o] \in Dirs /\ loc[t].dir \in Dirs /\ registry[o] # loc[t].dir
        /\ From(t, o) = registry[o] /\ (o \notin spoiled => zips[registry[o]][o] = "whole")
    BY <1>0, <1>1, ToMove
  <2>2. /\ zips'[registry[o]][o] = "absent" /\ zips'[loc[t].dir][o] = zips[registry[o]][o]
        /\ \A d \in Dirs : \A x \in Orbs \ {o} : zips'[d][x] = zips[d][x]
    BY <1>1, <1>2, <2>1 DEF Rename, Shelves
  <2> QED
    BY <1>0, <1>1, <1>2, <2>1, <2>2, MovedLone
<1>3. ASSUME NEW o \in loc[t].todo, zips' = CopyBegun(o, From(t, o), loc[t].dir), loc' = [loc EXCEPT ![t].orb = o],
             Goto(t, "copying"), Fault \/ UNCHANGED faults
      PROVE  LoneKept(t)'
  <2>1. /\ o \in Installed /\ o \in Orbs /\ registry[o] \in Dirs /\ loc[t].dir \in Dirs /\ registry[o] # loc[t].dir
        /\ zips[registry[o]][o] # "absent" /\ o \notin loc[t].moved
        /\ o \notin spoiled => zips[registry[o]][o] = "whole"
    BY <1>0, <1>1, ToMove
  <2>2. /\ zips'[registry[o]][o] = zips[registry[o]][o]
        /\ \A d \in Dirs : \A x \in Orbs \ {o} : zips'[d][x] = zips[d][x]
    BY <1>1, <1>3, <2>1 DEF CopyBegun, Put, Shelves
  <2>3. cmd'[t] = cmd[t] /\ Op(t)' = Op(t) /\ pc'[t] = "copying" /\ clash' = clash
    BY <1>1, <1>3, GotoIs DEF Goto, GotoMarked, Op
  <2>4. /\ loc'[t].todo = loc[t].todo /\ loc'[t].moved = loc[t].moved
        /\ loc'[t].reg = loc[t].reg /\ loc'[t].dir = loc[t].dir
    BY <1>1, <1>3, LocalNames
  <2>5. ~Undoing(t)' /\ pc'[t] \in Gathering /\ (faults' = 0 => faults = 0)
    BY <1>1, <1>3, <2>3 DEF Undoing, Gathering, Fault
  <2> QED
    BY <1>0, <1>1, <1>3, <2>1, <2>2, <2>3, <2>4, <2>5, MoveKeeps
<1>4. ASSUME NEW o \in loc[t].todo, Fault, zips' \in LeftThere(o, From(t, o), loc[t].dir), MoveFails(t)
      PROVE  LoneKept(t)'
  BY <1>0, <1>1, <1>4, MoveFailsLone
<1>5. \A o \in loc[t].todo : Exists(From(t, o), o)
  BY <1>0, <1>1, ToMove
<1> QED
  BY <1>2, <1>3, <1>4, <1>5 DEF MoveOne

LEMMA MoveCopiedLone ==
  ASSUME Typed, Inv, NEW t \in Tasks, LoneKept(t), MoveCopied(t)
  PROVE  LoneKept(t)'
<1> DEFINE o == loc[t].orb
<1>0. LibraryStep(t) /\ Op(t) \in ApplyOps /\ pc[t] = "copying" /\ UNCHANGED <<registry, spoiled>>
  BY DEF LibraryStep, MoveCopied, Applying
<1>1. pc[t] \in Gathering /\ TasksTyped /\ zips \in Shelves /\ DOMAIN loc = Tasks /\ faults \in Nat /\ o \in loc[t].todo
  BY <1>0, MoveGround DEF Gathering, LocalsOf, CopyLabels
<1>2. /\ o \in Installed /\ o \in Orbs /\ registry[o] \in Dirs /\ loc[t].dir \in Dirs /\ registry[o] # loc[t].dir
      /\ From(t, o) = registry[o] /\ zips[registry[o]][o] # "absent" /\ o \notin loc[t].moved
      /\ o \notin spoiled => zips[registry[o]][o] = "whole"
  BY <1>0, <1>1, ToMove
<1>3. CASE Fault /\ MoveFails(t) /\ UNCHANGED zips
  BY <1>0, <1>1, <1>3, MoveFailsLone DEF LeftThere
<1>4. ASSUME NEW content \in IF zips[From(t, o)][o] = "whole" THEN {"whole"} ELSE {"torn", "whole"},
             zips' = Put(loc[t].dir, o, content), Goto(t, "unlinkold"), UNCHANGED <<loc, faults>>
      PROVE  LoneKept(t)'
  <2>1. o \notin spoiled => content = "whole"
    BY <1>2
  <2>2. /\ zips'[loc[t].dir][o] = content /\ zips'[registry[o]][o] = zips[registry[o]][o]
        /\ \A d \in Dirs : \A x \in Orbs \ {o} : zips'[d][x] = zips[d][x]
    BY <1>1, <1>2, <1>4 DEF Put, Shelves
  <2>3. cmd'[t] = cmd[t] /\ Op(t)' = Op(t) /\ pc'[t] = "unlinkold" /\ clash' = clash
    BY <1>1, <1>4, GotoIs DEF Goto, GotoMarked, Op
  <2>4. ~Undoing(t)' /\ pc'[t] \in Gathering
    BY <2>3 DEF Undoing, Gathering
  <2>5. /\ loc'[t].todo = loc[t].todo /\ loc'[t].moved = loc[t].moved /\ loc'[t].orb = o
        /\ loc'[t].reg = loc[t].reg /\ loc'[t].dir = loc[t].dir
    BY <1>4
  <2> HIDE DEF o
  <2> QED
    BY <1>0, <1>1, <1>2, <1>4, <2>1, <2>2, <2>3, <2>4, <2>5, MoveKeeps
<1> QED
  BY <1>3, <1>4 DEF MoveCopied

LEMMA MoveUnlinkLone ==
  ASSUME Typed, Inv, NEW t \in Tasks, LoneKept(t), MoveUnlink(t)
  PROVE  LoneKept(t)'
<1> DEFINE o == loc[t].orb
<1>0. LibraryStep(t) /\ Op(t) \in ApplyOps /\ pc[t] = "unlinkold" /\ UNCHANGED <<registry, spoiled>>
  BY DEF LibraryStep, MoveUnlink, Applying
<1>1. pc[t] \in Gathering /\ TasksTyped /\ zips \in Shelves /\ DOMAIN loc = Tasks /\ o \in loc[t].todo
      /\ pc[t] \in Gathering \ {"rollback"}
  BY <1>0, MoveGround DEF Gathering, LocalsOf, CopyLabels
<1>2. /\ o \in Orbs /\ registry[o] \in Dirs /\ loc[t].dir \in Dirs /\ registry[o] # loc[t].dir
      /\ From(t, o) = registry[o] /\ Exists(From(t, o), o)
  BY <1>0, <1>1, ToMove
<1>3. o \notin spoiled => zips[loc[t].dir][o] = "whole"
  BY <1>0 DEF LoneKept, PhaseKept, MovesKept, Whole
<1>4. CASE Fault /\ MoveFails(t) /\ UNCHANGED zips
  BY <1>0, <1>1, <1>4, MoveFailsLone DEF LeftThere
<1>5. CASE zips' = Put(From(t, o), o, "absent") /\ Moved(t, o) /\ UNCHANGED faults
  <2>1. /\ zips'[registry[o]][o] = "absent" /\ zips'[loc[t].dir][o] = zips[loc[t].dir][o]
        /\ \A d \in Dirs : \A x \in Orbs \ {o} : zips'[d][x] = zips[d][x]
    BY <1>1, <1>2, <1>5 DEF Put, Shelves
  <2> HIDE DEF o
  <2> QED
    BY <1>0, <1>1, <1>3, <1>5, <2>1, MovedLone
<1> QED
  BY <1>2, <1>4, <1>5 DEF MoveUnlink

(* What is renamed back is in place again; what is not has met an error.   *)
LEMMA RollbackLone ==
  ASSUME Typed, Inv, NEW t \in Tasks, LoneKept(t), Rollback(t)
  PROVE  LoneKept(t)'
<1>0. LibraryStep(t) /\ Op(t) \in ApplyOps /\ pc[t] = "rollback" /\ UNCHANGED <<registry, spoiled, volume>>
  BY DEF LibraryStep, Rollback, Applying
<1>1. /\ pc[t] \in Gathering /\ TasksTyped /\ zips \in Shelves /\ DOMAIN loc = Tasks /\ faults \in Nat
      /\ DOMAIN loc[t] = DOMAIN NoLocals /\ faults' \in {faults, faults + 1} /\ loc[t].reg = registry
      /\ Installed \subseteq Orbs /\ (\A x \in Installed : registry[x] \in Dirs) /\ loc[t].dir \in Dirs
      /\ loc[t].moved \subseteq Installed /\ loc[t].todo \subseteq Installed
  BY <1>0, MoveGround DEF Gathering
<1>2. faults # 0
  BY <1>0 DEF LoneKept, PhaseKept, MovesKept
<1>3. CASE Abort(t) /\ UNCHANGED <<zips, faults>>
  <2>1. UNCHANGED disk /\ Returned(t)
    BY <1>0, <1>1, <1>3, EndIs DEF disk, Abort, End
  <2> QED
    BY <1>2, <1>3, <2>1, SameDisk, ReturnedLone DEF LoneKept
<1>4. ASSUME NEW o \in loc[t].moved,
             \/ RenamesBack(t, o) /\ zips' = Rename(o, loc[t].dir, From(t, o)) /\ UNCHANGED faults
             \/ (IF RenamesBack(t, o) THEN Fault ELSE UNCHANGED faults) /\ UNCHANGED zips,
             loc' = [loc EXCEPT ![t].moved = @ \ {o}], UNCHANGED <<pc, waiting, cmd, clash, settingsLock>>
      PROVE  LoneKept(t)'
  <2>1. /\ o \in Installed /\ o \in Orbs /\ registry[o] \in Dirs /\ registry[o] # loc[t].dir /\ o \notin loc[t].todo
        /\ o \notin spoiled => zips[registry[o]][o] = "absent" /\ zips[loc[t].dir][o] = "whole"
        /\ From(t, o) = registry[o]
    BY <1>1 DEF LoneKept, PhaseKept, MovesKept, From, Exists, Whole
  <2>2. /\ Op(t)' = Op(t) /\ pc'[t] = "rollback" /\ clash' = clash /\ loc'[t].todo = loc[t].todo
        /\ loc'[t].moved = loc[t].moved \ {o} /\ loc'[t].reg = loc[t].reg /\ loc'[t].dir = loc[t].dir
    BY <1>0, <1>1, <1>4, LocalNames DEF Op
  <2>3. Undoing(t)' => Undoing(t) /\ faults' = faults /\ SameVolume(loc[t].dir, registry[o])
    BY <1>0, <1>1, <1>2, <2>1 DEF Undoing, SameVolume
  <2>4. CASE zips' = Rename(o, loc[t].dir, From(t, o)) /\ UNCHANGED faults
    <3>1. /\ zips'[registry[o]][o] = zips[loc[t].dir][o]
          /\ \A d \in Dirs : \A x \in Orbs \ {o} : zips'[d][x] = zips[d][x]
      BY <1>1, <2>1, <2>4 DEF Rename, Shelves
    <3> QED
      BY <1>0, <1>1, <1>2, <2>1, <2>2, <2>3, <2>4, <3>1, MoveKeeps
  <2>5. CASE (IF RenamesBack(t, o) THEN Fault ELSE UNCHANGED faults) /\ UNCHANGED zips
    <3>1. Undoing(t)' => o \in spoiled
      BY <1>1, <2>1, <2>3, <2>5 DEF RenamesBack, Exists, Fault
    <3>2. faults' # 0
      BY <1>1, <1>2
    <3> QED
      BY <1>0, <1>1, <2>1, <2>2, <2>3, <2>5, <3>1, <3>2, MoveKeeps
  <2> QED
    BY <1>4, <2>4, <2>5
<1> QED
  BY <1>3, <1>4 DEF Rollback

(* A command that has nothing left to move or to drop.                     *)
LEMMA RestLone ==
  ASSUME NEW t, Op(t)' # "import", pc'[t] \notin RegLabels, Sound',
         faults' = 0 => \A o \in (Installed \ spoiled)' : Whole(registry[o], o)',
         faults' = 0 /\ "self" \notin clash' => registry' # Torn /\ (Installed \cap spoiled)' = {}
  PROVE  LoneKept(t)'
<1>1. PhaseKept(t)' /\ ~Undoing(t)'
  BY NothingPromised DEF Undoing
<1> QED
  BY <1>1 DEF LoneKept, HomedBy, CleanBy

(* The entries of what has been moved follow it.                           *)
LEMMA MigrateSaveLone ==
  ASSUME Typed, Inv, NEW t \in Tasks, LoneKept(t), MigrateSave(t)
  PROVE  LoneKept(t)'
<1> DEFINE reg == Rewritten(t)
<1>0. LibraryStep(t) /\ Op(t) \in ApplyOps /\ pc[t] = "rewrite" /\ UNCHANGED <<zips, spoiled>>
  BY DEF LibraryStep, MigrateSave, Applying
<1>1. /\ TasksTyped /\ DOMAIN loc = Tasks /\ faults \in Nat /\ loc[t].reg = registry /\ registry \in Entries
      /\ registry # Torn /\ Installed = DOMAIN registry /\ loc[t].dir \in Dirs /\ loc[t].moved \subseteq Installed
      /\ MovedBy(t) = loc[t].moved /\ SpoiledBy(t) = {} /\ pc[t] \in Gathering
  BY <1>0, MoveGround DEF Gathering
<1>2. CASE SaveRegistryFails /\ Abort(t)
  <2>1. Returned(t)
    BY <1>1, <1>2, EndIs DEF Abort, End
  <2> QED
    BY <1>0, <1>2, <2>1, SaveFailsLone
<1>3. CASE Save(reg) /\ Goto(t, "adopt") /\ UNCHANGED loc
  <2>1. reg # Torn /\ DOMAIN reg = Installed
        /\ \A x \in Installed : reg[x] = IF x \in loc[t].moved THEN loc[t].dir ELSE registry[x]
    BY <1>1, RewrittenTyped, RegistryUnlike DEF Rewritten
  <2> HIDE DEF reg
  <2>2. registry' = reg /\ faults' = faults /\ Installed' = Installed /\ clash' = clash
    BY <1>3, <2>1 DEF Save, Installed, Goto, GotoMarked
  <2>3. cmd'[t] = cmd[t] /\ Op(t)' = Op(t) /\ pc'[t] = "adopt"
    BY <1>1, <1>3, GotoIs DEF Goto, Op
  <2>4. \A x \in loc[t].moved : x \notin spoiled => zips[loc[t].dir][x] = "whole"
    BY <1>1 DEF LoneKept, PhaseKept, MovesKept, Whole
  <2>5. Sound'
    <3> SUFFICES ASSUME NEW x \in Installed \ spoiled
                 PROVE  zips[reg[x]][x] = "whole" \/ (zips[reg[x]][x] = "absent" /\ \E d \in Dirs : zips[d][x] = "whole")
      BY <1>0, <2>2 DEF Sound, Whole, Exists
    <3>1. CASE x \in loc[t].moved
      BY <2>1, <2>4, <3>1
    <3>2. CASE x \notin loc[t].moved
      BY <2>1, <3>2 DEF LoneKept, Sound, Whole, Exists
    <3> QED
      BY <3>1, <3>2
  <2>6. ASSUME faults' = 0, NEW x \in Installed \ spoiled
        PROVE  zips[reg[x]][x] = "whole"
    <3>1. CASE x \in loc[t].moved
      BY <2>1, <2>4, <3>1
    <3>2. CASE x \notin loc[t].moved
      BY <1>1, <2>1, <2>2, <2>6, <3>2 DEF LoneKept, HomedBy, Whole
    <3> QED
      BY <3>1, <3>2
  <2>7. \A x \in Installed : Whole(registry[x], x)' <=> zips[reg[x]][x] = "whole"
    BY <1>0, <2>2 DEF Whole
  <2>8. faults' = 0 /\ "self" \notin clash' => registry' # Torn /\ (Installed \cap spoiled)' = {}
    BY <1>0, <1>1, <2>1, <2>2 DEF LoneKept, CleanBy
  <2>9. Op(t)' # "import" /\ pc'[t] \notin RegLabels
    BY <1>0, <2>3 DEF ApplyOps, RegLabels
  <2>10. faults' = 0 => \A x \in (Installed \ spoiled)' : Whole(registry[x], x)'
    BY <1>0, <2>2, <2>6, <2>7
  <2> QED
    BY <2>5, <2>8, <2>9, <2>10, RestLone
<1> QED
  BY <1>2, <1>3 DEF MigrateSave, Saved

(* What holds while a command deletes.                                     *)
LEMMA EraseGround ==
  ASSUME Typed, Inv, NEW t \in Tasks, LoneKept(t), LibraryStep(t), Op(t) \in ApplyOps, pc[t] \in Clearing
  PROVE  /\ TasksTyped /\ LocalsOf(t) /\ DOMAIN loc = Tasks /\ DOMAIN loc[t] = DOMAIN NoLocals /\ pc[t] \in RegLabels
         /\ zips \in Shelves /\ faults \in Nat /\ loc[t].reg = registry /\ registry \in Entries /\ registry # Torn
         /\ Installed = DOMAIN registry /\ Installed \subseteq Orbs
         /\ loc[t].todo \subseteq StoredUnder(registry, loc[t].olds) /\ (pc[t] = "retain" => loc[t].todo = {})
         /\ MovedBy(t) = {} /\ SpoiledBy(t) = StoredUnder(registry, loc[t].olds) \ loc[t].todo
<1>1. Op(t) \in LibraryOps /\ pc[t] \in RegLabels /\ Op(t) \notin {"import", "remove"}
  BY DEF Clearing, RegLabels, ApplyOps, LibraryOps
<1>2. /\ TasksTyped /\ LocalsOf(t) /\ DOMAIN loc = Tasks /\ DOMAIN loc[t] = DOMAIN NoLocals
      /\ zips \in Shelves /\ faults \in Nat /\ Installed \subseteq Orbs
  BY <1>1, Ground
<1>3. loc[t].reg = registry /\ registry \in Entries /\ registry # Torn /\ Installed = DOMAIN registry
  BY <1>1, <1>2, ReadIs DEF LoneKept, PhaseKept
<1>4. loc[t].todo \subseteq StoredUnder(registry, loc[t].olds) /\ (pc[t] = "retain" => loc[t].todo = {})
  BY <1>3 DEF LoneKept, PhaseKept, ErasesKept
<1>5. MovedBy(t) = {} /\ SpoiledBy(t) = StoredUnder(registry, loc[t].olds) \ loc[t].todo
  BY <1>1, <1>3 DEF MovedBy, SpoiledBy, Gathering, Clearing
<1> QED
  BY <1>1, <1>2, <1>3, <1>4, <1>5

LEMMA EraseOneLone ==
  ASSUME Typed, Inv, NEW t \in Tasks, LoneKept(t), EraseOne(t)
  PROVE  LoneKept(t)'
<1> DEFINE cleared == StoredUnder(registry, loc[t].olds)
<1>0. LibraryStep(t) /\ Op(t) \in ApplyOps /\ pc[t] = "erase" /\ UNCHANGED <<registry, volume>>
  BY DEF LibraryStep, EraseOne, Applying
<1>1. /\ TasksTyped /\ DOMAIN loc = Tasks /\ DOMAIN loc[t] = DOMAIN NoLocals
      /\ zips \in Shelves /\ faults \in Nat /\ loc[t].reg = registry /\ registry \in Entries /\ registry # Torn
      /\ Installed \subseteq Orbs /\ loc[t].todo \subseteq cleared /\ cleared \subseteq Installed
      /\ MovedBy(t) = {} /\ SpoiledBy(t) = cleared \ loc[t].todo
  BY <1>0, EraseGround DEF Clearing, StoredUnder
<1>2. /\ faults = 0 => \A x \in Installed \ spoiled : Whole(registry[x], x)
      /\ faults = 0 /\ "self" \notin clash => Installed \cap spoiled \subseteq cleared \ loc[t].todo
      /\ Sound
  BY <1>1 DEF LoneKept, HomedBy, CleanBy
<1>3. CASE Fault /\ Abort(t) /\ UNCHANGED <<zips, spoiled>>
  <2>1. UNCHANGED disk /\ Returned(t) /\ faults' # 0
    BY <1>0, <1>1, <1>3, EndIs DEF disk, Abort, End, Fault
  <2> QED
    BY <1>2, <2>1, SameDisk, ReturnedLone
<1>4. ASSUME NEW o \in loc[t].todo, Unlinked(From(t, o), o), loc' = [loc EXCEPT ![t].todo = loc[t].todo \ {o}],
             Goto(t, IF loc[t].todo \ {o} = {} THEN "retain" ELSE "erase"), UNCHANGED faults
      PROVE  LoneKept(t)'
  <2> DEFINE label == IF loc[t].todo \ {o} = {} THEN "retain" ELSE "erase"
  <2>1. cmd'[t] = cmd[t] /\ Op(t)' = Op(t) /\ pc'[t] = label /\ clash' = clash
    BY <1>1, <1>4, GotoIs DEF Goto, GotoMarked, Op
  <2>2. loc'[t].todo = loc[t].todo \ {o} /\ loc'[t].reg = registry /\ loc'[t].olds = loc[t].olds
    BY <1>1, <1>4, LocalNames
  <2>3. label \in Clearing /\ (label = "retain" => loc'[t].todo = {})
    BY <2>2 DEF Clearing
  <2> HIDE DEF label
  <2>4. PhaseKept(t)' /\ ~Undoing(t)'
    BY <1>0, <1>1, <2>1, <2>2, <2>3
    DEF PhaseKept, RegKept, ImportKept, MovesKept, ErasesKept, Clearing, Undoing, Gathering, ApplyOps
  <2>5. SpoiledBy(t)' = cleared \ (loc[t].todo \ {o})
    BY <1>0, <2>1, <2>2, <2>3 DEF SpoiledBy, Clearing, ApplyOps
  <2>6. /\ Sound' /\ Installed' = Installed
        /\ \A x \in Installed \ spoiled' : x \in Installed \ spoiled /\ Whole(registry[x], x)' = Whole(registry[x], x)
    BY <1>0, <1>1, <1>2, <1>4, UnlinkedIs
  <2>7. spoiled' = spoiled \cup {o}
    BY <1>4 DEF Unlinked
  <2>8. HomedBy(t)'
    BY <1>2, <1>4, <2>4, <2>6 DEF HomedBy
  <2>9. CleanBy(t)'
    BY <1>0, <1>1, <1>2, <1>4, <2>1, <2>5, <2>6, <2>7 DEF CleanBy
  <2> QED
    BY <2>4, <2>6, <2>8, <2>9 DEF LoneKept
<1> QED
  BY <1>3, <1>4 DEF EraseOne

LEMMA EraseSaveLone ==
  ASSUME Typed, Inv, NEW t \in Tasks, LoneKept(t), EraseSave(t)
  PROVE  LoneKept(t)'
<1> DEFINE cleared == StoredUnder(loc[t].reg, loc[t].olds)
<1>0. LibraryStep(t) /\ Op(t) \in ApplyOps /\ pc[t] = "retain" /\ UNCHANGED <<zips, spoiled>>
  BY DEF LibraryStep, EraseSave, Applying
<1>1. TasksTyped /\ MovedBy(t) = {} /\ SpoiledBy(t) \subseteq cleared /\ pc[t] \in RegLabels
  BY <1>0, EraseGround DEF Clearing
<1>2. CASE SaveRegistryFails /\ Abort(t)
  <2>1. Returned(t)
    BY <1>1, <1>2, EndIs DEF Abort, End
  <2> QED
    BY <1>0, <1>2, <2>1, SaveFailsLone
<1>3. CASE Save(Restrict(loc[t].reg, DOMAIN loc[t].reg \ cleared)) /\ Goto(t, "adopt")
  <2>1. cmd'[t] = cmd[t] /\ Op(t)' = Op(t) /\ pc'[t] = "adopt" /\ clash' = clash
    BY <1>1, <1>3, GotoIs DEF Goto, GotoMarked, Op
  <2>2. Op(t)' # "import" /\ pc'[t] \notin RegLabels
    BY <1>0, <2>1 DEF ApplyOps, RegLabels
  <2> HIDE DEF cleared
  <2> QED
    BY <1>0, <1>1, <1>3, <2>1, <2>2, DroppedLone, RestLone
<1> QED
  BY <1>2, <1>3 DEF EraseSave, Saved

(* Every step of the one command of the library.                           *)
LEMMA LibraryLone ==
  ASSUME Typed, Inv, NEW t \in Tasks, LoneKept(t), LibraryStep(t), Op(t) \in LibraryOps,
         \A u \in Tasks \ {t} : pc[u] \notin RegLabels
  PROVE  LoneKept(t)'
<1>1. ~PickDecide(t) /\ ~PickAdopt(t) /\ ~CancelChange(t)
  BY DEF PickDecide, PickAdopt, CancelChange, At, LibraryOps
<1> QED
  BY <1>1, ImportCheckLone, ImportOpenLone, ImportFilledLone, ImportLoadLone, ImportSaveLone, RemoveLoadLone,
     RemoveUnlinkLone, RemoveSaveLone, ApplyQuietLone, ApplyTargetsLone, MoveOneLone, MoveCopiedLone, MoveUnlinkLone,
     RollbackLone, MigrateSaveLone, EraseOneLone, EraseSaveLone
  DEF LibraryStep

-----------------------------------------------------------------------------
(* A command that has nothing of the library in hand.                      *)
Idle(u) == pc[u] \notin RegLabels /\ (Op(u) = "import" => pc[u] \notin {"filling", "load"})

LEMMA IdleIs ==
  ASSUME NEW u, Idle(u)
  PROVE  MovedBy(u) = {} /\ SpoiledBy(u) = {} /\ PhaseKept(u) /\ ~Undoing(u)
BY DEF Idle, MovedBy, SpoiledBy, PhaseKept, RegKept, ImportKept, MovesKept, ErasesKept, Undoing, Gathering, Clearing, RegLabels

LEMMA IdleNext ==
  ASSUME NEW u, Idle(u)'
  PROVE  PhaseKept(u)' /\ ~Undoing(u)'
BY DEF Idle, PhaseKept, RegKept, ImportKept, MovesKept, ErasesKept, Undoing, Gathering, Clearing, RegLabels

(* The files and the entries stay, and so does what commands have in hand. *)
LEMMA StillKept ==
  ASSUME LibraryKept, UNCHANGED disk, clash \subseteq clash', faults \in Nat, faults' \in {faults, faults + 1},
         \A u \in Tasks : \/ UNCHANGED <<pc[u], cmd[u], loc[u]>>
                          \/ Idle(u) /\ Idle(u)'
  PROVE  LibraryKept'
<1> SUFFICES ASSUME Apart("library")' PROVE (\A t \in Tasks : PhaseKept(t)') /\ Sound' /\ Homed' /\ Clean'
  BY DEF LibraryKept
<1>1. (\A t \in Tasks : PhaseKept(t)) /\ Sound /\ Homed /\ Clean
  BY DEF LibraryKept, Apart
<1>2. /\ Sound' /\ UNCHANGED <<registry, spoiled, zips, volume>> /\ Installed' = Installed
      /\ \A x, d : Whole(d, x)' = Whole(d, x) /\ Exists(d, x)' = Exists(d, x)
  BY <1>1, SameDisk DEF disk
<1>3. faults' = 0 => faults = 0
  OBVIOUS
<1>4. ASSUME NEW u \in Tasks, UNCHANGED <<pc[u], cmd[u], loc[u]>>
      PROVE  /\ MovedBy(u)' = MovedBy(u) /\ SpoiledBy(u)' = SpoiledBy(u) /\ PhaseKept(u)'
             /\ Undoing(u)' => faults = 0 \/ Undoing(u)
  <2>1. Op(u)' = Op(u) /\ PhaseKept(u)
    BY <1>1, <1>4 DEF Op
  <2>2. MovedBy(u)' = MovedBy(u) /\ SpoiledBy(u)' = SpoiledBy(u)
    BY <1>4, <2>1 DEF MovedBy, SpoiledBy, StoredUnder
  <2>3. RegKept(u)' /\ ImportKept(u)' /\ ErasesKept(u)'
    BY <1>2, <1>4, <2>1 DEF PhaseKept, RegKept, ImportKept, ErasesKept, StoredUnder
  <2>4. MovesKept(u)'
    BY <1>2, <1>4, <2>1 DEF PhaseKept, MovesKept, From
  <2>5. Undoing(u)' => faults = 0 \/ Undoing(u)
    BY <1>2, <1>4 DEF Undoing, SameVolume
  <2> QED
    BY <2>2, <2>3, <2>4, <2>5 DEF PhaseKept
<1>5. \A u \in Tasks : PhaseKept(u)'
  BY <1>4, IdleNext
<1>6. \A u \in Tasks : MovedBy(u) \subseteq MovedBy(u)' /\ SpoiledBy(u) \subseteq SpoiledBy(u)'
  BY <1>4, IdleIs
<1>7. \A u \in Tasks : Undoing(u)' => faults = 0 \/ Undoing(u)
  BY <1>4, IdleNext
<1>8. Homed'
  BY <1>1, <1>2, <1>3, <1>6, <1>7 DEF Homed
<1>9. Clean'
  BY <1>1, <1>2, <1>3, <1>6 DEF Clean
<1> QED
  BY <1>2, <1>5, <1>8, <1>9

(* A step of a command that is not at work on the library.                 *)
LEMMA IdleStep ==
  ASSUME Typed, LibraryKept, NEW t \in Tasks, Framed(t), UNCHANGED disk, faults' \in {faults, faults + 1},
         Idle(t), Idle(t)'
  PROVE  LibraryKept'
<1>1. faults \in Nat /\ clash \subseteq clash'
  BY DEF Typed, TypeOK, Framed
<1>2. \A u \in Tasks \ {t} : UNCHANGED <<pc[u], cmd[u], loc[u]>>
  BY DEF Framed
<1> QED
  BY <1>1, <1>2, StillKept

(* The commands on the servers have steps of their own.                    *)
LEMMA ServerIdle ==
  ASSUME TasksTyped, NEW t \in Tasks, ServerStep(t, Installed)
  PROVE  Idle(t) /\ Idle(t)'
<1>1. pc[t] \notin RegLabels /\ Op(t) # "import" /\ (cmd'[t] = cmd[t] => Op(t)' = Op(t)) /\ pc'[t] \notin RegLabels
  <2> USE GotoIs, EndIs DEF TasksTyped, Goto, End, At, RegLabels, Returned, Op, Ensuring, Stopping, EnsureOps
  <2>1. CASE StartLookup(t, Installed)
    BY <2>1 DEF StartLookup
  <2>2. CASE StartSettings(t)
    BY <2>2 DEF StartSettings
  <2>3. CASE StartSpawn(t)
    BY <2>3 DEF StartSpawn
  <2>4. CASE StartInsert(t)
    BY <2>4 DEF StartInsert
  <2>5. CASE StartList(t)
    BY <2>5 DEF StartList
  <2>6. CASE Unlist(t)
    BY <2>6 DEF Unlist
  <2>7. CASE StopChild(t)
    BY <2>7 DEF StopChild
  <2>8. CASE BatchSettings(t)
    BY <2>8 DEF BatchSettings
  <2>9. CASE BatchLock(t) \/ BatchLaunch(t, Installed)
    BY <2>9 DEF BatchLock, BatchLaunch
  <2>10. CASE EnsureEnter(t)
    BY <2>10 DEF EnsureEnter
  <2>11. CASE EnsureLoad(t)
    BY <2>11 DEF EnsureLoad
  <2>12. CASE EnsureProbe(t)
    BY <2>12 DEF EnsureProbe
  <2>13. CASE EnsureReuse(t)
    BY <2>13 DEF EnsureReuse
  <2>14. CASE EnsureChoose(t)
    BY <2>14 DEF EnsureChoose
  <2>15. CASE EnsureSpawn(t)
    <3>1. Ensuring(t, "spawn") /\ (Goto(t, "poll") \/ End(t))
      BY <2>15 DEF EnsureSpawn
    <3>2. (cmd'[t] = cmd[t] /\ pc'[t] = "poll") \/ Returned(t)
      BY <3>1
    <3> QED
      BY <3>1, <3>2
  <2>16. CASE EnsurePoll(t)
    BY <2>16 DEF EnsurePoll, GivesUp
  <2>17. CASE EnsureInsert(t)
    BY <2>17 DEF EnsureInsert
  <2>18. CASE StatusLoad(t)
    BY <2>18 DEF StatusLoad
  <2>19. CASE StatusReap(t)
    BY <2>19 DEF StatusReap
  <2>20. CASE StopGateway(t)
    BY <2>20 DEF StopGateway, Stopped
  <2>21. CASE StopAdopted(t)
    BY <2>21 DEF StopAdopted, Stopped
  <2>22. CASE ResetToken(t)
    BY <2>22 DEF ResetToken
  <2>23. CASE SaveForm(t)
    BY <2>23 DEF SaveForm
  <2> QED
    BY <2>1, <2>2, <2>3, <2>4, <2>5, <2>6, <2>7, <2>8, <2>9, <2>10, <2>11, <2>12, <2>13, <2>14, <2>15, <2>16,
       <2>17, <2>18, <2>19, <2>20, <2>21, <2>22, <2>23
    DEF ServerStep
<1>2. cmd'[t] = cmd[t] \/ Returned(t)
  BY ServerFrame DEF Framed
<1> QED
  BY <1>1, <1>2 DEF Idle, Returned, Op

(* Nothing is half done when the app is closed; what a kill interrupts has *)
(* left its ZIPs where they are accounted for.                             *)
LEMMA RelaunchLibrary ==
  ASSUME Typed, LibraryKept, NEW killed, NEW errors \in Nat, Relaunch(killed, errors),
         errors = 0 /\ Apart("library") => \A u \in Tasks : Idle(u)
  PROVE  LibraryKept'
<1> SUFFICES ASSUME Apart("library")' PROVE (\A t \in Tasks : PhaseKept(t)') /\ Sound' /\ Homed' /\ Clean'
  BY DEF LibraryKept
<1>1. PICK read : Launched(read, errors)
  BY DEF Relaunch
<1>2. faults \in Nat /\ faults' \in Nat /\ (faults' = 0 => faults = 0 /\ errors = 0) /\ clash \subseteq clash'
  <2>1. faults \in Nat
    BY DEF Typed, TypeOK
  <2>2. faults' \in Nat /\ faults' >= faults + errors /\ clash \subseteq clash'
    BY <1>1, <2>1, LaunchWrites
  <2> QED
    BY <2>1, <2>2
<1>3. Apart("library") /\ Sound /\ Homed /\ Clean
  BY <1>2 DEF LibraryKept, Apart
<1>4. /\ \A t \in Tasks : pc'[t] = "idle" /\ Op(t)' = "none"
      /\ zips' = [d \in Dirs |-> [o \in Orbs |-> IF zips[d][o] = "filling" THEN "torn" ELSE zips[d][o]]]
      /\ registry' = registry \/ (registry' = Torn /\ \E t \in Tasks : pc[t] \in SavePoints)
      /\ UNCHANGED spoiled
  BY DEF Relaunch, Gone, Op
<1>5. \A t \in Tasks : PhaseKept(t)' /\ ~Undoing(t)'
  BY <1>4, IdleNext DEF Idle, RegLabels
<1>6. /\ Installed \subseteq Orbs /\ (\A o \in Installed : registry[o] \in Dirs)
      /\ registry' = registry => Installed' = Installed
      /\ registry' = Torn => Installed' = {}
  BY EntryIs DEF Installed, Typed, TypeOK
<1>7. \A d \in Dirs : \A o \in Orbs : Whole(d, o)' = Whole(d, o) /\ Exists(d, o)' = Exists(d, o)
  BY <1>4 DEF Whole, Exists, Typed, TypeOK
<1>8. Sound'
  <2> SUFFICES ASSUME registry' = registry PROVE Sound'
    BY <1>4, <1>6 DEF Sound
  <2>1. Installed' = Installed
    BY <1>6
  <2> SUFFICES ASSUME NEW o \in Installed \ spoiled
               PROVE  Whole(registry[o], o)' \/ (~Exists(registry[o], o)' /\ \E d \in Dirs : Whole(d, o)')
    BY <1>4, <2>1 DEF Sound
  <2>2. Whole(registry[o], o)' = Whole(registry[o], o) /\ Exists(registry[o], o)' = Exists(registry[o], o)
    BY <1>4, <1>6, <1>7 DEF Whole, Exists
  <2>3. \A d \in Dirs : Whole(d, o)' = Whole(d, o)
    BY <1>6, <1>7
  <2> QED
    BY <1>3, <2>2, <2>3 DEF Sound
<1>9. ASSUME faults' = 0
      PROVE  /\ UNCHANGED registry /\ Installed' = Installed
             /\ \A o \in Installed \ spoiled : Whole(registry[o], o)
             /\ "self" \notin clash => registry # Torn /\ Installed \cap spoiled = {}
  <2>1. \A u \in Tasks : Idle(u)
    BY <1>2, <1>3, <1>9
  <2>2. \A u \in Tasks : MovedBy(u) = {} /\ SpoiledBy(u) = {} /\ pc[u] \notin SavePoints
    BY <2>1, IdleIs DEF Idle, RegLabels, SavePoints
  <2> QED
    BY <1>2, <1>3, <1>4, <1>6, <1>9, <2>2 DEF Homed, Clean
<1>10. Homed'
  <2> SUFFICES ASSUME faults' = 0, NEW o \in Installed \ spoiled PROVE Whole(registry[o], o)'
    BY <1>4, <1>5, <1>9 DEF Homed
  <2> QED
    BY <1>4, <1>6, <1>7, <1>9 DEF Whole
<1>11. Clean'
  BY <1>2, <1>4, <1>9 DEF Clean
<1> QED
  BY <1>5, <1>8, <1>10, <1>11

LEMMA NextLibrary == Inv /\ Typed /\ Alone /\ LibraryKept /\ [Next]_vars => LibraryKept'
<1> SUFFICES ASSUME Inv, Typed, Alone, LibraryKept, [Next]_vars PROVE LibraryKept'
  OBVIOUS
<1>0. TasksTyped /\ faults \in Nat
  BY DEF Typed, TypeOK
<1>1. ASSUME NEW t \in Tasks, LibraryStep(t), Op(t) \in LibraryOps PROVE LibraryKept'
  <2> SUFFICES ASSUME Apart("library")' PROVE LibraryKept'
    BY DEF LibraryKept
  <2>1. Framed(t) /\ Apart("library")
    BY <1>0, <1>1, LibraryFrame DEF Framed, Apart
  <2>2. LoneKept(t) /\ \A u \in Tasks \ {t} : pc[u] \notin RegLabels
    BY <1>1, <2>1, LoneIs, OnlyOne
  <2> QED
    BY <1>1, <2>1, <2>2, LibraryLone, LoneKeeps
<1>2. ASSUME NEW t \in Tasks, LibraryStep(t), Op(t) \notin LibraryOps PROVE LibraryKept'
  <2>1. PickDecide(t) \/ PickAdopt(t) \/ CancelChange(t)
    BY <1>2 DEF LibraryStep, ImportCheck, ImportOpen, ImportFilled, ImportLoad, ImportSave, RemoveLoad, RemoveUnlink,
         RemoveSave, ApplyBegin, ApplyResolve, ApplyTargets, MoveOne, MoveCopied, MoveUnlink, Rollback, MigrateSave,
         EraseOne, EraseSave, Adopt, At, Applying, ApplyOps, LibraryOps
  <2>2. UNCHANGED disk /\ Op(t) # "import" /\ pc[t] \in {"start", "adopt"}
    BY <2>1 DEF PickDecide, PickAdopt, CancelChange, At
  <2>3. Framed(t) /\ faults' \in {faults, faults + 1}
    BY <1>0, <1>2, LibraryFrame, LibraryWrites
  <2>4. (cmd'[t] = cmd[t] /\ pc'[t] = "adopt") \/ Returned(t)
    BY <1>0, <2>1, GotoIs, EndIs DEF PickDecide, PickAdopt, CancelChange, Goto, End
  <2>5. Idle(t) /\ Idle(t)'
    BY <2>2, <2>4 DEF Idle, RegLabels, Returned, Op
  <2> QED
    BY <2>2, <2>3, <2>5, IdleStep
<1>3. ASSUME NEW t \in Tasks, ServerStep(t, Installed), UNCHANGED library PROVE LibraryKept'
  <2>1. faults' \in {faults, faults + 1}
    BY <1>0, <1>3, ServerWrites
  <2> QED
    BY <1>0, <1>3, <2>1, ServerFrame, ServerIdle, IdleStep DEF library
<1>4. ASSUME NEW t \in Tasks, Dismiss(t), UNCHANGED <<library, servers>> PROVE LibraryKept'
  <2>1. Framed(t) /\ Returned(t) /\ pc[t] = "start" /\ Op(t) = "dismiss" /\ UNCHANGED disk
    BY <1>0, <1>4, EndIs DEF Dismiss, End, At, library
  <2>2. faults' \in {faults, faults + 1}
    BY <1>4 DEF Dismiss, SaveSettings, SaveFails, Fault
  <2>3. Idle(t) /\ Idle(t)'
    BY <2>1 DEF Idle, RegLabels, Returned, Op
  <2> QED
    BY <2>1, <2>2, <2>3, IdleStep
<1>5. ASSUME NEW t \in Tasks, Clear(t) \/ Drain(t) PROVE LibraryKept'
  <2>1. /\ UNCHANGED <<disk, faults>> /\ clash' = clash /\ pc[t] \in {"start", "cleared"} /\ Op(t) = "close"
        /\ cmd' = cmd /\ pc'[t] \in {"cleared", "exit"}
        /\ \A u \in Tasks \ {t} : pc'[u] = pc[u] /\ loc'[u] = loc[u]
    BY <1>0, <1>5 DEF Clear, Drain, At, library, Goto, GotoMarked, TasksTyped
  <2>2. Idle(t) /\ Idle(t)'
    BY <2>1 DEF Idle, RegLabels, Op
  <2> QED
    BY <1>0, <2>1, <2>2, StillKept
<1>6. ASSUME NEW t \in Tasks, Quit(t) PROVE LibraryKept'
  <2>1. Op(t) = "close" /\ pc[t] = "exit" /\ Relaunch(loc[t].moved, 0)
    BY <1>6 DEF Quit, At
  <2>2. ASSUME Apart("library"), NEW u \in Tasks PROVE Idle(u)
    <3>1. CASE u = t
      BY <2>1, <3>1 DEF Idle, RegLabels
    <3>2. CASE u # t
      <4>1. Op(u) \notin LibraryOps /\ pc[u] \notin RegLabels
        BY <2>1, <2>2, <3>2, OnlyOne
      <4> QED
        BY <4>1 DEF Idle, LibraryOps
    <3> QED
      BY <3>1, <3>2
  <2> QED
    BY <2>1, <2>2, RelaunchLibrary
<1>7. CASE Kill
  BY <1>7, RelaunchLibrary DEF Kill
<1>8. ASSUME NEW t \in Tasks, Issue(t), UNCHANGED <<library, servers>> PROVE LibraryKept'
  <2>1. /\ UNCHANGED <<disk, loc, faults>> /\ clash \subseteq clash' /\ cmd[t] = None
        /\ pc' = [pc EXCEPT ![t] = "start"] /\ \E c \in waiting : cmd' = [cmd EXCEPT ![t] = c]
    BY <1>8 DEF Issue, library
  <2>2. pc[t] = "idle" /\ pc'[t] = "start" /\ \A u \in Tasks \ {t} : pc'[u] = pc[u] /\ cmd'[u] = cmd[u] /\ loc'[u] = loc[u]
    BY <2>1 DEF Typed, TasksTyped, LocalsOf
  <2>3. Idle(t) /\ Idle(t)'
    BY <2>2 DEF Idle, RegLabels
  <2> QED
    BY <1>0, <2>1, <2>2, <2>3, StillKept
<1>9. ASSUME NEW p \in Pids, Settles(p) \/ Crashes(p), UNCHANGED library PROVE LibraryKept'
  <2>1. UNCHANGED <<disk, tasks>> /\ faults' \in {faults, faults + 1}
    BY <1>9 DEF Settles, Crashes, Fault, library
  <2> QED
    BY <1>0, <2>1, StillKept DEF tasks
<1>10. CASE UNCHANGED vars
  BY <1>0, <1>10, StillKept DEF vars, library, tasks
<1>11. ASSUME NEW t \in Tasks, AsideStep(t) PROVE LibraryKept'
  <2>1. /\ Framed(t) /\ UNCHANGED disk /\ faults' \in {faults, faults + 1} /\ Op(t) \in {"metrics", "proxy"}
        /\ pc[t] \notin RegLabels /\ pc'[t] \notin RegLabels
    BY <1>0, <1>11, AsideIs DEF library, Fault, RegLabels, AsideLabels
  <2>2. Op(t)' # "import"
    BY <2>1 DEF Framed, Returned, Op
  <2>3. Idle(t) /\ Idle(t)'
    BY <2>1, <2>2 DEF Idle
  <2> QED
    BY <2>1, <2>3, IdleStep
<1>12. ASSUME NEW t \in Tasks, TaskStep(t) PROVE LibraryKept'
  BY <1>1, <1>2, <1>3, <1>4, <1>5, <1>6, <1>11, <1>12 DEF TaskStep, AsideStep
<1> QED
  BY <1>7, <1>8, <1>9, <1>10, <1>11, <1>12 DEF Next, AsideStep

LEMMA InitLibrary == Init => LibraryKept
<1> SUFFICES ASSUME Init PROVE LibraryKept
  OBVIOUS
<1>1. PICK w \in Worlds : InitiallyIn(w)
  BY DEF Init
<1>2. spoiled = {} /\ \A t \in Tasks : pc[t] = "idle" /\ Op(t) = "none"
  BY DEF Init, Op
<1>3. \A t \in Tasks : PhaseKept(t) /\ ~Undoing(t)
  BY <1>2, NoPart DEF RegLabels, LibraryOps, Undoing
<1>4. registry \in Entries /\ registry # Torn
  BY <1>1, WorldsGiven, RegistryUnlike DEF InitiallyIn
<1>5. \A o \in Installed : Whole(registry[o], o)
  BY <1>1, <1>4, EntryIs DEF InitiallyIn, Installed, Whole
<1> QED
  BY <1>2, <1>3, <1>4, <1>5 DEF LibraryKept, Sound, Homed, Clean

LEMMA LibraryHolds == Spec => [](Inv /\ Typed /\ Alone /\ LibraryKept)
<1>1. Inv /\ Typed /\ Alone /\ LibraryKept /\ [Next]_vars => LibraryKept'
  BY NextLibrary
<1> QED
  BY <1>1, AloneHolds, InitLibrary, PTL DEF Spec

(* No Orb is lost to an error or a kill: an installed one that no command  *)
(* has unlinked or truncated has a whole ZIP somewhere.                    *)
THEOREM NoOrbLost == Spec => []NothingLost
<1>1. Typed /\ LibraryKept => NothingLost
  <2> SUFFICES ASSUME Typed, LibraryKept, Apart("library"), NEW o \in Installed \ spoiled
               PROVE  \E d \in Dirs : zips[d][o] = "whole"
    BY DEF NothingLost
  <2>1. registry[o] \in Dirs
    BY EntryIs DEF Installed, Typed, TypeOK
  <2> QED
    BY <2>1 DEF LibraryKept, Sound, Whole
<1> QED
  BY <1>1, LibraryHolds, PTL

(* Between commands that met no error, what registry.json says is so.      *)
THEOREM LibraryStaysIntact == Spec => []LibraryIntact
<1>1. Typed /\ LibraryKept => LibraryIntact
  <2> SUFFICES ASSUME Typed, LibraryKept, Apart("library"), ~Busy("library"), faults = 0, "self" \notin clash
               PROVE  registry # Torn /\ \A o \in DOMAIN registry : zips[registry[o]][o] = "whole"
    BY DEF LibraryIntact
  <2>1. \A u \in Tasks : Op(u) \notin LibraryOps
    BY AreasAre DEF Busy
  <2>2. \A u \in Tasks : MovedBy(u) = {} /\ SpoiledBy(u) = {}
    BY <2>1, NoPart DEF Typed, TasksTyped, LocalsOf
  <2> QED
    BY <2>2 DEF LibraryKept, Homed, Clean, Whole, Installed
<1> QED
  BY <1>1, LibraryHolds, PTL

(* Before its entries are rewritten, what a migration has moved is whole.  *)
LEMMA RewriteWhole ==
  ASSUME Typed, Alone, LibraryKept, Apart("library"), NEW t \in Tasks, Op(t) \in ApplyOps, pc[t] = "rewrite",
         faults = 0, NEW o \in Installed \ spoiled
  PROVE  Whole(LeftAt(t, o), o)
<1>1. LoneKept(t) /\ Applying(t, "rewrite")
  BY LoneIs DEF ApplyOps, LibraryOps, Applying
<1>2. \A x \in loc[t].moved : x \notin spoiled => Whole(loc[t].dir, x)
  BY <1>1 DEF LoneKept, PhaseKept, MovesKept, Gathering
<1>3. Whole(registry[o], o) \/ o \in loc[t].moved
  BY <1>1 DEF LoneKept, HomedBy, MovedBy
<1> QED
  BY <1>1, <1>2, <1>3 DEF LeftAt

(* A migration that fails within one volume: a failed move has been undone *)
(* when it returns; a failed save has changed no ZIP.                      *)
LEMMA FailedStep ==
  ASSUME Inv, Typed, Alone, LibraryKept, [Next]_vars, NEW t \in Tasks, Failing(t), Apart("library"),
         \A d, e \in Dirs : SameVolume(d, e), NEW o \in Installed \ spoiled
  PROVE  zips'[LeftAt(t, o)][o] = "whole"
<1>0. /\ TasksTyped /\ LocalsOf(t) /\ faults \in Nat /\ Op(t) \in ApplyOps /\ Op(t) \in LibraryOps
      /\ cmd[t] # None /\ cmd'[t] = None
      /\ \/ pc[t] = "rollback" /\ faults = 1 /\ faults' = 1
         \/ pc[t] = "rewrite" /\ faults = 0 /\ faults' = 1
  BY DEF Typed, TypeOK, TasksTyped, Failing, Applying, Op, ApplyOps, LibraryOps
<1>1. \A u \in Tasks \ {t} : Op(u) # "close" /\ MovedBy(u) = {}
  BY <1>0, OnlyOne, NoPart
<1>2. LibraryStep(t) \/ (pc[t] = "rewrite" /\ \E killed : Gone(killed))
  <2>1. ASSUME Kill PROVE pc[t] = "rewrite" /\ \E killed : Gone(killed)
    <3>1. Gone({}) /\ \E read : Launched(read, 1)
      BY <2>1 DEF Kill, Relaunch
    <3>2. faults' >= faults + 1
      BY <1>0, <3>1, LaunchWrites
    <3> QED
      BY <1>0, <3>1, <3>2
  <2>2. ASSUME NEW u \in Tasks, u # t, Framed(u) PROVE FALSE
    BY <1>0, <2>2 DEF Framed
  <2>3. ASSUME NEW u \in Tasks, Dismiss(u) PROVE Framed(u) /\ Op(u) = "dismiss"
    BY <1>0, <2>3, EndIs DEF Dismiss, End, At
  <2>4. ~ServerStep(t, Installed)
    BY <1>0, ServerIdle DEF Idle, RegLabels
  <2>5. ASSUME NEW u \in Tasks, Quit(u) PROVE FALSE
    BY <1>0, <1>1, <2>5 DEF Quit, At, ApplyOps
  <2>6. \A u \in Tasks : ~Issue(u)
    <3> SUFFICES ASSUME NEW u \in Tasks, Issue(u) PROVE FALSE
      OBVIOUS
    <3>1. PICK c \in waiting : cmd' = [cmd EXCEPT ![u] = c]
      BY DEF Issue
    <3>2. c # None
      BY <3>1, CommandIs, <1>0 DEF TasksTyped
    <3> QED
      BY <1>0, <3>1, <3>2 DEF TasksTyped
  <2>7. cmd' # cmd
    BY <1>0
  <2>8. Kill \/ \E u \in Tasks : TaskStep(u) \/ AsideStep(u)
    BY <2>6, <2>7 DEF Next, Settles, Crashes, tasks, vars, AsideStep
  <2>9. ASSUME NEW u \in Tasks, TaskStep(u) \/ AsideStep(u)
        PROVE  LibraryStep(u) \/ ServerStep(u, Installed) \/ Dismiss(u) \/ AsideStep(u)
    BY <2>5, <2>7, <2>9 DEF TaskStep, AsideStep, Clear, Drain, Goto, GotoMarked
  <2>10. \A u \in Tasks : AsideStep(u) => Framed(u) /\ Op(u) \in {"metrics", "proxy"}
    BY <1>0, AsideIs
  <2>11. ASSUME NEW u \in Tasks, TaskStep(u) \/ AsideStep(u) PROVE u = t
    BY <1>0, <2>2, <2>3, <2>9, <2>10, <2>11, LibraryFrame, ServerFrame
  <2> QED
    BY <1>0, <2>1, <2>3, <2>4, <2>8, <2>9, <2>10, <2>11 DEF ApplyOps
<1>3. o \in Orbs /\ registry[o] \in Dirs /\ (pc[t] = "rewrite" => loc[t].dir \in Dirs) /\ LeftAt(t, o) \in Dirs
      /\ (pc[t] = "rollback" => LeftAt(t, o) = registry[o])
  <2>1. o \in Orbs /\ registry[o] \in Dirs
    BY EntryIs DEF Installed, Typed, TypeOK
  <2>2. pc[t] = "rewrite" => loc[t].dir \in Dirs
    BY <1>0 DEF LocalsOf, MoveLabels, Dirs
  <2> QED
    BY <2>1, <2>2 DEF LeftAt, Applying
<1>4. CASE LibraryStep(t)
  <2>1. Rollback(t) \/ MigrateSave(t)
    BY <1>0, <1>4 DEF LibraryStep, ImportCheck, ImportOpen, ImportFilled, ImportLoad, ImportSave, RemoveLoad, RemoveUnlink,
       RemoveSave, PickDecide, PickAdopt, CancelChange, ApplyBegin, ApplyResolve, ApplyTargets, MoveOne, MoveCopied,
       MoveUnlink, EraseOne, EraseSave, Adopt, At, Applying
  <2>2. UNCHANGED zips /\ (pc[t] = "rollback" => loc[t].moved = {})
    BY <1>0, <2>1 DEF Rollback, MigrateSave, Applying
  <2>3. CASE pc[t] = "rollback"
    <3>1. Undoing(t)
      BY <1>0, <2>3 DEF Undoing
    <3>2. \A u \in Tasks : MovedBy(u) = {}
      BY <1>1, <2>2, <2>3 DEF MovedBy
    <3>3. Whole(registry[o], o)
      BY <3>1, <3>2 DEF LibraryKept, Homed
    <3> QED
      BY <1>3, <2>2, <2>3, <3>3 DEF Whole
  <2>4. CASE pc[t] = "rewrite"
    BY <1>0, <2>2, <2>4, RewriteWhole DEF Whole
  <2> QED
    BY <1>0, <2>3, <2>4
<1>5. CASE pc[t] = "rewrite" /\ \E killed : Gone(killed)
  <2>1. zips[LeftAt(t, o)][o] = "whole"
    BY <1>0, <1>5, RewriteWhole DEF Whole
  <2> QED
    BY <1>3, <1>5, <2>1 DEF Gone
<1> QED
  BY <1>2, <1>4, <1>5

(* A failing move has put every ZIP back by the time the migration returns *)
(* (migrate_orbs, which rolls moved files back); a failing save of the     *)
(* registry leaves those it has moved whole in the new folder.             *)
THEOREM FailedMigrationPutBack == Spec => FailedMigrationUndone
<1>1. Inv /\ Typed /\ Alone /\ LibraryKept /\ [Next]_vars =>
        [\A t \in Tasks : Failing(t) /\ Apart("library") /\ (\A d, e \in Dirs : SameVolume(d, e))
           => \A o \in Installed \ spoiled : zips'[LeftAt(t, o)][o] = "whole"]_vars
  BY FailedStep
<1> QED
  BY <1>1, LibraryHolds, PTL DEF Spec, FailedMigrationUndone
=============================================================================
