------------------------------ MODULE OrbLibrary ------------------------------
(***************************************************************************)
(* The installed Orbs: registry.json, the ZIPs it names, and the library   *)
(* folder (crates/mcporb-runtime-app-core/src/{registry,zip_import}.rs and *)
(* the library commands of the app). The registry is loaded, changed and   *)
(* saved without a lock; the files are changed beside it, one by one.      *)
(***************************************************************************)
EXTENDS RunnerState, Functions

VARIABLES
  registry,  \* registry.json: where each installed Orb's ZIP is, or Torn
  zips,      \* the ZIP of each Orb in each directory
  volume,    \* the volume each directory is on
  orbsDir,   \* RegistryStore.orbs_dir_override: where imports go
  pending,   \* AppState.pending_library_pick
  spoiled    \* Orbs one of whose ZIPs a command unlinked or truncated, and whose
             \* registered ZIP has not been whole since (for the properties)

disk == <<registry, zips, volume, spoiled>>
library == <<disk, orbsDir, pending>>

(* A ZIP being copied in is Filling: the same file under whatever name a   *)
(* rename gives it meanwhile.                                              *)
Contents == {"absent", "filling", "torn", "whole"}
Entries == UNION {[S -> Dirs] : S \in SUBSET Orbs}

ASSUME RegistryUnlike == Torn \notin Entries

Installed == IF registry = Torn THEN {} ELSE DOMAIN registry
Put(d, o, content) == [zips EXCEPT ![d][o] = content]
Exists(d, o) == zips[d][o] # "absent"

(* For the properties: whether an entry names a whole ZIP.                 *)
InPlace(reg, files, o) == reg # Torn /\ o \in DOMAIN reg /\ files[reg[o]][o] = "whole"

-----------------------------------------------------------------------------
(* RegistryStore::load: a file that another command is saving right now    *)
(* may be read truncated.                                                  *)
SavePoints == {"upsert", "drop", "rewrite", "retain"}
Load(t, label) ==
  /\ registry # Torn
  /\ loc' = [loc EXCEPT ![t].reg = registry]
  /\ Goto(t, label)

LoadFails(t) == registry = Torn \/ \E u \in Tasks \ {t} : pc[u] \in SavePoints

Save(reg) == registry' = reg /\ UNCHANGED faults
SaveRegistryFails == Fault /\ registry' \in {registry, Torn}

(* upsert_orb: the entry with this SHA-256 is replaced, or one is added.   *)
Upsert(reg, o, d) == [x \in DOMAIN reg \cup {o} |-> IF x = o THEN d ELSE reg[x]]

StoredUnder(reg, dirs) == {o \in DOMAIN reg : reg[o] \in dirs}

-----------------------------------------------------------------------------
(* import_orb_zip of a ZIP outside the library or in one of its            *)
(* directories. cmd.valid: validate_archive takes it, the password is right*)
Source(c) == IF c.from = None THEN "whole" ELSE zips[c.from][c.orb]

ImportCheck(t) ==
  /\ At(t, "import", "start")
  /\ \/ cmd[t].valid /\ Source(cmd[t]) = "whole" /\ Goto(t, "copy") /\ UNCHANGED loc
     \/ ~(cmd[t].valid /\ Source(cmd[t]) = "whole") /\ End(t)
  /\ UNCHANGED <<library, conf, faults>>

(* import_zip validates once more and opens the copy, truncating it.       *)
ImportOpen(t) ==
  /\ At(t, "import", "copy")
  /\ \/ /\ Source(cmd[t]) = "whole"
        /\ zips' = Put(orbsDir, cmd[t].orb, "filling")
        /\ spoiled' = spoiled \cup {cmd[t].orb}
        /\ loc' = [loc EXCEPT ![t].dir = orbsDir]
        /\ GotoMarked(t, "filling", IF cmd[t].from = orbsDir THEN {"self"} ELSE {})
        /\ UNCHANGED faults
     \/ /\ IF Source(cmd[t]) = "whole" THEN Fault ELSE UNCHANGED faults
        /\ End(t)
        /\ UNCHANGED <<zips, spoiled>>
  /\ UNCHANGED <<registry, volume, orbsDir, pending, conf>>

(* fs::copy onto itself reads back what it has just truncated.             *)
Filled(c, d) == IF c.from = d THEN "torn" ELSE "whole"

(* What was being filled is now so, wherever it has been renamed to.       *)
Settle(o, content) ==
  [d \in Dirs |-> [zips[d] EXCEPT ![o] = IF @ = "filling" THEN content ELSE @]]

ImportFilled(t) ==
  /\ At(t, "import", "filling")
  /\ LET o == cmd[t].orb
         content == Filled(cmd[t], loc[t].dir)
     IN \/ /\ zips' = Settle(o, content)
           /\ spoiled' = IF InPlace(registry, zips', o) THEN spoiled \ {o} ELSE spoiled
           /\ Goto(t, "load")
           /\ UNCHANGED <<loc, faults>>
        \/ /\ Fault
           /\ zips' = Settle(o, "torn")
           /\ End(t)
           /\ UNCHANGED spoiled
  /\ UNCHANGED <<registry, volume, orbsDir, pending, conf>>

ImportLoad(t) ==
  /\ At(t, "import", "load")
  /\ \/ Load(t, "upsert")
     \/ LoadFails(t) /\ End(t)
  /\ UNCHANGED <<library, conf, faults>>

ImportSave(t) ==
  /\ At(t, "import", "upsert")
  /\ LET o == cmd[t].orb
         reg == Upsert(loc[t].reg, o, loc[t].dir)
     IN \/ /\ Save(reg)
           /\ spoiled' = IF InPlace(reg, zips, o) THEN spoiled \ {o} ELSE spoiled \cup {o}
        \/ SaveRegistryFails /\ UNCHANGED spoiled
  /\ End(t)
  /\ UNCHANGED <<zips, volume, orbsDir, pending, conf>>

-----------------------------------------------------------------------------
(* remove_orb, once the Orb's server has been stopped: the ZIP goes first, *)
(* then the entry.                                                         *)
RemoveLoad(t) ==
  /\ At(t, "remove", "stopped")
  /\ \/ registry # Torn /\ cmd[t].orb \in DOMAIN registry /\ Load(t, "unlink")
     \/ registry # Torn /\ cmd[t].orb \notin DOMAIN registry /\ End(t)
     \/ LoadFails(t) /\ End(t)
  /\ UNCHANGED <<library, conf, faults>>

Unlinked(d, o) == zips' = Put(d, o, "absent") /\ spoiled' = spoiled \cup {o}

RemoveUnlink(t) ==
  /\ At(t, "remove", "unlink")
  /\ \/ /\ Unlinked(loc[t].reg[cmd[t].orb], cmd[t].orb)
        /\ Goto(t, "drop")
        /\ UNCHANGED <<loc, faults>>
     \/ /\ Fault
        /\ End(t)
        /\ UNCHANGED <<zips, spoiled>>
  /\ UNCHANGED <<registry, volume, orbsDir, pending, conf>>

RemoveSave(t) ==
  /\ At(t, "remove", "drop")
  /\ \/ Save(Restrict(loc[t].reg, DOMAIN loc[t].reg \ {cmd[t].orb}))
     \/ SaveRegistryFails
  /\ End(t)
  /\ UNCHANGED <<zips, volume, spoiled, orbsDir, pending, conf>>

-----------------------------------------------------------------------------
(* choose_orb_library_dir: the panel has returned a folder. Orbs in the    *)
(* folder used so far, or in the app's own, make the pick a pending one.   *)
Outside(current) == {Legacy} \cup (IF current.dir = None THEN {} ELSE {current.dir})

LeftBehind(current, folder) == StoredUnder(registry, Outside(current) \ {folder})

PickDecide(t) ==
  /\ At(t, "pick", "start")
  /\ LockFree
  /\ LET folder == cmd[t].folder
         moves == settings # Torn /\ settings.dir # folder
     IN \/ /\ settings # Torn
           /\ moves => registry # Torn /\ LeftBehind(settings, folder) = {}
           /\ settingsLock' = t
           /\ loc' = [loc EXCEPT ![t].seen = settings]
           /\ Goto(t, "adopt")
           /\ UNCHANGED pending
        \/ /\ moves /\ registry # Torn /\ LeftBehind(settings, folder) # {}
           /\ pending' = folder
           /\ End(t)
           /\ UNCHANGED settingsLock
        \/ /\ LoadSettingsFails \/ (moves /\ LoadFails(t))
           /\ End(t)
           /\ UNCHANGED <<pending, settingsLock>>
  /\ UNCHANGED <<disk, orbsDir, settings, drawn, faults>>

PickAdopt(t) ==
  /\ At(t, "pick", "adopt")
  /\ \/ SaveSettings(WithLibrary(loc[t].seen, cmd[t].folder)) /\ orbsDir' = cmd[t].folder
     \/ SaveFails /\ UNCHANGED orbsDir
  /\ Unlock(t)
  /\ End(t)
  /\ UNCHANGED <<disk, pending, drawn>>

CancelChange(t) ==
  /\ At(t, "cancel", "start")
  /\ pending' = None
  /\ End(t)
  /\ UNCHANGED <<disk, orbsDir, conf, faults>>
=============================================================================
