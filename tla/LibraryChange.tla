---------------------------- MODULE LibraryChange ----------------------------
(***************************************************************************)
(* apply_orb_library_change: the Orbs outside the newly picked folder are  *)
(* moved into it ("migrate") or deleted, the registry is rewritten, and    *)
(* only then the settings name the folder. The settings stay locked        *)
(* throughout; the registry and the files do not.                          *)
(***************************************************************************)
EXTENDS OrbLibrary

ApplyOps == {"migrate", "delete"}
Applying(t, label) == Op(t) \in ApplyOps /\ pc[t] = label

Abort(t) == Unlock(t) /\ End(t)

ApplyBegin(t) ==
  /\ Applying(t, "start")
  /\ \/ /\ pending # None
        /\ loc' = [loc EXCEPT ![t].dir = pending]
        /\ Goto(t, "resolve")
     \/ pending = None /\ End(t)
  /\ UNCHANGED <<library, conf, faults>>

(* Both bookmarks are resolved before anything changes. Only the new one   *)
(* has to: without the old one, just the app's own directory is emptied.   *)
ApplyResolve(t) ==
  /\ Applying(t, "resolve")
  /\ LockFree
  /\ \/ /\ settings # Torn
        /\ settingsLock' = t
        /\ \/ /\ loc' = [loc EXCEPT ![t].olds = {Legacy, settings.mark} \ {None}]
              /\ UNCHANGED faults
           \/ /\ settings.mark # None /\ Fault
              /\ loc' = [loc EXCEPT ![t].olds = {Legacy}]
        /\ Goto(t, "targets")
     \/ /\ IF LoadSettingsFails THEN UNCHANGED faults ELSE Fault
        /\ End(t)
        /\ UNCHANGED settingsLock
  /\ UNCHANGED <<library, settings, drawn>>

(* The registry is read; a migration gives up when a ZIP is missing.       *)
Targets(t, reg) ==
  StoredUnder(reg, IF Op(t) = "migrate" THEN loc[t].olds \ {loc[t].dir} ELSE loc[t].olds)

AllThere(t, reg) ==
  Op(t) = "migrate" => \A o \in Targets(t, reg) : Exists(reg[o], o)

FirstLabel(t, todo) ==
  IF Op(t) = "migrate" THEN IF todo = {} THEN "rewrite" ELSE "move"
                       ELSE IF todo = {} THEN "retain" ELSE "erase"

ApplyTargets(t) ==
  /\ Applying(t, "targets")
  /\ \/ /\ registry # Torn
        /\ AllThere(t, registry)
        /\ loc' = [loc EXCEPT ![t].reg = registry, ![t].todo = Targets(t, registry)]
        /\ Goto(t, FirstLabel(t, Targets(t, registry)))
        /\ UNCHANGED settingsLock
     \/ /\ LoadFails(t) \/ (registry # Torn /\ ~AllThere(t, registry))
        /\ Abort(t)
  /\ UNCHANGED <<library, settings, drawn, faults>>

-----------------------------------------------------------------------------
(* migrate_orbs moves one ZIP after the other. move_file renames, and      *)
(* where that fails, as it does from volume to volume, copies and unlinks. *)
SameVolume(d, e) == volume[d] = volume[e]

From(t, o) == loc[t].reg[o]

Moved(t, o) ==
  LET left == loc[t].todo \ {o} IN
  /\ loc' = [loc EXCEPT ![t].todo = left, ![t].moved = @ \cup {o}]
  /\ Goto(t, IF left = {} THEN "rewrite" ELSE "move")

(* A stale ZIP at the destination goes first.                              *)
Rename(o, d, e) ==
  [x \in Dirs |-> [zips[x] EXCEPT ![o] =
     IF x = e THEN zips[d][o] ELSE IF x = d THEN "absent" ELSE @]]

(* Mutant: the original is unlinked before it has been copied.             *)
OriginalGone(o, d, e) == [Rename(o, d, e) EXCEPT ![e][o] = "torn"]

CopyBegun(o, d, e) == Put(e, o, "torn")

MoveFails(t) == Goto(t, "rollback") /\ UNCHANGED loc

(* Removing the stale ZIP fails, or renaming and then copying does.        *)
LeftThere(o, d, e) == {zips, Put(e, o, "absent"), CopyBegun(o, d, e)}

MoveOne(t) ==
  /\ Applying(t, "move")
  /\ \E o \in loc[t].todo :
       \/ /\ Exists(From(t, o), o)
          /\ SameVolume(From(t, o), loc[t].dir)
          /\ zips' = Rename(o, From(t, o), loc[t].dir)
          /\ Moved(t, o)
          /\ UNCHANGED faults
       \/ /\ Exists(From(t, o), o)
          /\ IF SameVolume(From(t, o), loc[t].dir) THEN Fault ELSE UNCHANGED faults
          /\ zips' = CopyBegun(o, From(t, o), loc[t].dir)
          /\ loc' = [loc EXCEPT ![t].orb = o]
          /\ Goto(t, "copying")
       \/ /\ Exists(From(t, o), o)
          /\ Fault
          /\ zips' \in LeftThere(o, From(t, o), loc[t].dir)
          /\ MoveFails(t)
       \/ /\ ~Exists(From(t, o), o)
          /\ zips' = Put(loc[t].dir, o, "absent")
          /\ MoveFails(t)
          /\ UNCHANGED faults
  /\ UNCHANGED <<registry, volume, spoiled, orbsDir, pending, conf>>

(* What is copied is read while others may unlink or truncate it.          *)
MoveCopied(t) ==
  /\ Applying(t, "copying")
  /\ LET o == loc[t].orb IN
     \/ /\ \E content \in IF zips[From(t, o)][o] = "whole" THEN {"whole"} ELSE {"torn", "whole"} :
             zips' = Put(loc[t].dir, o, content)
        /\ Goto(t, "unlinkold")
        /\ UNCHANGED <<loc, faults>>
     \/ Fault /\ MoveFails(t) /\ UNCHANGED zips
  /\ UNCHANGED <<registry, volume, spoiled, orbsDir, pending, conf>>

MoveUnlink(t) ==
  /\ Applying(t, "unlinkold")
  /\ LET o == loc[t].orb IN
     \/ /\ Exists(From(t, o), o)
        /\ zips' = Put(From(t, o), o, "absent")
        /\ Moved(t, o)
        /\ UNCHANGED faults
     \/ /\ IF Exists(From(t, o), o) THEN Fault ELSE UNCHANGED faults
        /\ MoveFails(t)
        /\ UNCHANGED zips
  /\ UNCHANGED <<registry, volume, spoiled, orbsDir, pending, conf>>

(* Mutant: the rollback looks for the ZIP where it came from.              *)
StillThere(t, o) == Exists(From(t, o), o) /\ SameVolume(loc[t].dir, From(t, o))

(* What has been moved is renamed back, which works on one volume; an      *)
(* error is ignored.                                                       *)
RenamesBack(t, o) == Exists(loc[t].dir, o) /\ SameVolume(loc[t].dir, From(t, o))

Rollback(t) ==
  /\ Applying(t, "rollback")
  /\ \/ /\ loc[t].moved = {}
        /\ Abort(t)
        /\ UNCHANGED <<zips, faults>>
     \/ /\ \E o \in loc[t].moved :
             /\ \/ /\ RenamesBack(t, o)
                   /\ zips' = Rename(o, loc[t].dir, From(t, o))
                   /\ UNCHANGED faults
                \/ /\ IF RenamesBack(t, o) THEN Fault ELSE UNCHANGED faults
                   /\ UNCHANGED zips
             /\ loc' = [loc EXCEPT ![t].moved = @ \ {o}]
        /\ UNCHANGED <<pc, waiting, cmd, clash, settingsLock>>
  /\ UNCHANGED <<registry, volume, spoiled, orbsDir, pending, settings, drawn>>

(* Mutant: the registry is saved as it was read.                           *)
LeftAsRead(t) == loc[t].reg

(* The entries are rewritten once every ZIP has been moved.                *)
Rewritten(t) == [o \in DOMAIN loc[t].reg |-> IF o \in loc[t].moved THEN loc[t].dir ELSE loc[t].reg[o]]

Saved(t, reg) ==
  \/ Save(reg) /\ Goto(t, "adopt") /\ UNCHANGED <<loc, settingsLock>>
  \/ SaveRegistryFails /\ Abort(t)

MigrateSave(t) ==
  /\ Applying(t, "rewrite")
  /\ Saved(t, Rewritten(t))
  /\ UNCHANGED <<zips, volume, spoiled, orbsDir, pending, settings, drawn>>

-----------------------------------------------------------------------------
(* delete_orbs: the ZIPs go first, then the entries.                       *)
EraseOne(t) ==
  /\ Applying(t, "erase")
  /\ \E o \in loc[t].todo :
       LET left == loc[t].todo \ {o} IN
       \/ /\ Unlinked(From(t, o), o)
          /\ loc' = [loc EXCEPT ![t].todo = left]
          /\ Goto(t, IF left = {} THEN "retain" ELSE "erase")
          /\ UNCHANGED <<faults, settingsLock>>
       \/ /\ Fault
          /\ Abort(t)
          /\ UNCHANGED <<zips, spoiled>>
  /\ UNCHANGED <<registry, volume, orbsDir, pending, settings, drawn>>

EraseSave(t) ==
  /\ Applying(t, "retain")
  /\ Saved(t, Restrict(loc[t].reg, DOMAIN loc[t].reg \ StoredUnder(loc[t].reg, loc[t].olds)))
  /\ UNCHANGED <<zips, volume, spoiled, orbsDir, pending, settings, drawn>>

-----------------------------------------------------------------------------
(* The pick is consumed, whether or not the settings can then be read once *)
(* more and saved.                                                         *)
Adopt(t) ==
  /\ Applying(t, "adopt")
  /\ pending' = None
  /\ \/ settings # Torn /\ SaveSettings(WithLibrary(settings, loc[t].dir)) /\ orbsDir' = loc[t].dir
     \/ LoadSettingsFails /\ UNCHANGED <<settings, orbsDir, faults>>
     \/ settings # Torn /\ SaveFails /\ UNCHANGED orbsDir
  /\ Abort(t)
  /\ UNCHANGED <<disk, drawn>>

LibraryStep(t) ==
  \/ ImportCheck(t) \/ ImportOpen(t) \/ ImportFilled(t) \/ ImportLoad(t) \/ ImportSave(t)
  \/ RemoveLoad(t) \/ RemoveUnlink(t) \/ RemoveSave(t)
  \/ PickDecide(t) \/ PickAdopt(t) \/ CancelChange(t)
  \/ ApplyBegin(t) \/ ApplyResolve(t) \/ ApplyTargets(t)
  \/ MoveOne(t) \/ MoveCopied(t) \/ MoveUnlink(t) \/ Rollback(t) \/ MigrateSave(t)
  \/ EraseOne(t) \/ EraseSave(t) \/ Adopt(t)
=============================================================================
