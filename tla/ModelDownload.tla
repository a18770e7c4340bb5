----------------------------- MODULE ModelDownload -----------------------------
(***************************************************************************)
(* The cache of the embedding model (crates/mcporb-embed), a directory     *)
(* shared by the runtimes of all Orbs on a machine. A runtime that finds   *)
(* no model in current/ fetches the bundle into .tmp/, unpacks it in       *)
(* .staging/ and renames that over current/.                               *)
(*                                                                         *)
(* A directory is a function from the names in it to their contents, None  *)
(* when it does not exist. Steps are single file-system operations, save   *)
(* that the removal of .tmp/ and .staging/ is one: what a crash leaves     *)
(* there is removed by the next attempt in any case.                       *)
(***************************************************************************)
EXTENDS Naturals, FiniteSets

CONSTANTS
  Procs,       \* runtimes that use the cache
  Files,       \* files of the bundle
  Sources,     \* number of URLs that are tried in turn (MODEL_URLS)
  MaxCrashes,  \* bound: how often a runtime ends early and is launched again
  None         \* no such file or directory

ASSUME DownloadConstants ==
  /\ Files # {}
  /\ "marker" \notin Files
  /\ Sources \in Nat \ {0}
  /\ MaxCrashes \in Nat

VARIABLES
  current,  \* the installed model
  staging,  \* the directory a bundle is unpacked in
  tmp,      \* the directory a bundle is fetched to exists
  bundle,   \* the bundle in it: what it holds, and who has opened it to write
  pc,       \* where each runtime is
  attempt,  \* the source it is trying
  got,      \* what its stream, and then the bundle it unpacks, has held
  seen,     \* the files it has unpacked
  slot,     \* its EmbedderSlot: the quality of the model loaded
  crashes   \* how often a runtime has ended early

dirs == <<current, staging, tmp, bundle>>
locals == <<attempt, got, seen>>
vars == <<dirs, pc, locals, slot, crashes>>

Names == Files \cup {"marker"}

(* "good" is the pinned bundle or a file of it, "bad" any other that can   *)
(* be unpacked, "old" of an earlier release; a "partial" bundle breaks off.*)
Qualities == {"good", "bad", "old"}
FullDirs == UNION {[D -> Qualities] : D \in SUBSET Names}
Dirs == FullDirs \cup {None}
Bundles == [data : {"good", "bad", "partial"}, writers : SUBSET Procs]

ASSUME NoneIsNone == None \notin FullDirs /\ None \notin Bundles /\ None \notin Qualities

PCs == {"start", "load", "remove", "create", "request", "stream", "verify",
        "cleanup", "extract", "unpack", "marker", "replace", "rename", "tidy",
        "hotload", "loaded", "failed", "gaveup"}

TypeOK ==
  /\ current \in Dirs
  /\ staging \in Dirs
  /\ tmp \in BOOLEAN
  /\ bundle \in Bundles \cup {None}
  /\ pc \in [Procs -> PCs]
  /\ attempt \in [Procs -> 1..Sources]
  /\ got \in [Procs -> {"good", "bad", "partial"}]
  /\ seen \in [Procs -> SUBSET Files]
  /\ slot \in [Procs -> Qualities \cup {None}]
  /\ crashes \in 0..MaxCrashes

-----------------------------------------------------------------------------
Goto(p, label) == pc' = [pc EXCEPT ![p] = label]

Whole(q) == [n \in Names |-> q]
Put(d, name, q) == [n \in DOMAIN d \cup {name} |-> IF n = name THEN q ELSE d[n]]
Without(d, name) == [n \in DOMAIN d \ {name} |-> d[n]]
Entries(d) == IF d = None THEN {} ELSE DOMAIN d
Present(d, name) == name \in Entries(d)

(* is_ready: the marker names the pinned bundle.                           *)
Ready(d) == Present(d, "marker") /\ d["marker"] = "good"
Complete(d) == \A f \in Files : Present(d, f) /\ d[f] = "good"

(* The next source, or none is left. Mutants: one source too many; the     *)
(* last one is tried for ever.                                             *)
OneTooMany(p) ==
  IF attempt[p] <= Sources
    THEN attempt' = [attempt EXCEPT ![p] = @ + 1] /\ Goto(p, "remove")
    ELSE UNCHANGED attempt /\ Goto(p, "gaveup")
LastForEver(p) ==
  IF attempt[p] < Sources
    THEN attempt' = [attempt EXCEPT ![p] = @ + 1] /\ Goto(p, "remove")
    ELSE UNCHANGED attempt /\ Goto(p, "remove")
NextSource(p) ==
  IF attempt[p] < Sources
    THEN attempt' = [attempt EXCEPT ![p] = @ + 1] /\ Goto(p, "remove")
    ELSE UNCHANGED attempt /\ Goto(p, "gaveup")

(* The model a launch finds may be of an earlier release, or damaged.      *)
Init ==
  /\ current \in {None, Whole("good"), Whole("old"), Put(Whole("bad"), "marker", "good")}
  /\ staging = None
  /\ tmp = FALSE
  /\ bundle = None
  /\ pc = [p \in Procs |-> "start"]
  /\ attempt = [p \in Procs |-> 1]
  /\ got = [p \in Procs |-> "partial"]
  /\ seen = [p \in Procs |-> {}]
  /\ slot = [p \in Procs |-> None]
  /\ crashes = 0

(* start_for_manifest: the cached model, or a download in the background.  *)
Start(p) ==
  /\ pc[p] = "start"
  /\ Goto(p, IF Ready(current) THEN "load" ELSE "remove")
  /\ UNCHANGED <<dirs, locals, slot, crashes>>

(* TractEmbedder::load. Files that are not the bundle's may load or not.   *)
Loads(p, otherwise) ==
  \/ /\ \A f \in Files : Present(current, f)
     /\ slot' = [slot EXCEPT ![p] = IF Complete(current) THEN "good" ELSE "bad"]
     /\ Goto(p, "loaded")
  \/ /\ ~Complete(current)
     /\ Goto(p, otherwise)
     /\ UNCHANGED slot

Load(p) ==
  /\ pc[p] = "load"
  /\ Loads(p, "remove")
  /\ UNCHANGED <<dirs, locals, crashes>>

HotLoad(p) ==
  /\ pc[p] = "hotload"
  /\ Loads(p, "failed")
  /\ UNCHANGED <<dirs, locals, crashes>>

-----------------------------------------------------------------------------
(* try_one begins with fresh temporary directories, and removes them when  *)
(* it fails before the marker is written.                                  *)
NoTemps == tmp' = FALSE /\ bundle' = None /\ staging' = None

RemoveTemps(p) ==
  /\ pc[p] = "remove"
  /\ NoTemps
  /\ Goto(p, "create")
  /\ UNCHANGED <<current, locals, slot, crashes>>

CreateTemps(p) ==
  /\ pc[p] = "create"
  /\ tmp' = TRUE
  /\ staging' = IF staging = None THEN [n \in {} |-> "good"] ELSE staging
  /\ Goto(p, "request")
  /\ UNCHANGED <<current, bundle, locals, slot, crashes>>

(* Creating a directory, writing the marker and renaming fail without      *)
(* cleaning up.                                                            *)
Fails(p) ==
  /\ pc[p] \in {"create", "marker", "rename"}
  /\ NextSource(p)
  /\ UNCHANGED <<dirs, got, seen, slot, crashes>>

Cleanup(p) ==
  /\ pc[p] = "cleanup"
  /\ NoTemps
  /\ NextSource(p)
  /\ UNCHANGED <<current, got, seen, slot, crashes>>

(* The source answers, and the bundle is created: truncated, if another    *)
(* runtime has it there already.                                           *)
Request(p) ==
  /\ pc[p] = "request"
  /\ tmp
  /\ bundle' = [data |-> "partial",
                writers |-> IF bundle = None THEN {p} ELSE bundle.writers \cup {p}]
  /\ Goto(p, "stream")
  /\ UNCHANGED <<current, staging, tmp, locals, slot, crashes>>

(* It does not, or there is nowhere to write to.                           *)
RequestFails(p) ==
  /\ pc[p] = "request"
  /\ Goto(p, "cleanup")
  /\ UNCHANGED <<dirs, locals, slot, crashes>>

(* The stream ends. Its hash is of what this runtime received; the file    *)
(* holds that too unless others write to it, or have replaced it.          *)
Stream(p) ==
  /\ pc[p] = "stream"
  /\ \E q \in {"good", "bad"} :
       /\ got' = [got EXCEPT ![p] = q]
       /\ IF bundle = None \/ p \notin bundle.writers
            THEN UNCHANGED bundle
            ELSE \E d \in IF bundle.writers = {p} THEN {q} ELSE {q, "partial"} :
                   bundle' = [bundle EXCEPT !.data = d]
  /\ Goto(p, "verify")
  /\ UNCHANGED <<current, staging, tmp, attempt, seen, slot, crashes>>

StreamBreaksOff(p) ==
  /\ pc[p] = "stream"
  /\ Goto(p, "cleanup")
  /\ UNCHANGED <<dirs, locals, slot, crashes>>

(* The hash is compared with the pinned one; mutant: it is not.            *)
AnyHash(p) == TRUE
HashMatches(p) == got[p] = "good"

Verify(p) ==
  /\ pc[p] = "verify"
  /\ Goto(p, IF HashMatches(p) THEN "extract" ELSE "cleanup")
  /\ UNCHANGED <<dirs, locals, slot, crashes>>

(* extract_bundle opens the bundle by its path, and unpacks file by file.  *)
Extract(p) ==
  /\ pc[p] = "extract"
  /\ seen' = [seen EXCEPT ![p] = {}]
  /\ IF bundle = None
       THEN UNCHANGED got /\ Goto(p, "cleanup")
       ELSE got' = [got EXCEPT ![p] = bundle.data] /\ Goto(p, "unpack")
  /\ UNCHANGED <<dirs, attempt, slot, crashes>>

Unpack(p) ==
  /\ pc[p] = "unpack"
  /\ staging # None
  /\ \E f \in Files \ seen[p] :
       /\ staging' = Put(staging, f, IF got[p] = "bad" THEN "bad" ELSE "good")
       /\ seen' = [seen EXCEPT ![p] = @ \cup {f}]
  /\ UNCHANGED <<current, tmp, bundle, pc, attempt, got, slot, crashes>>

(* Something in it is rejected, it breaks off, or a write fails.           *)
UnpackFails(p) ==
  /\ pc[p] = "unpack"
  /\ Goto(p, "cleanup")
  /\ UNCHANGED <<dirs, locals, slot, crashes>>

(* The bundle has had every file; mutant: whatever came is enough.         *)
SomethingSeen(p) == seen[p] # {}
AllSeen(p) == seen[p] = Files

Unpacked(p) ==
  /\ pc[p] = "unpack"
  /\ got[p] # "partial"
  /\ AllSeen(p)
  /\ Goto(p, "marker")
  /\ UNCHANGED <<dirs, locals, slot, crashes>>

(* Mutant: the marker is forgotten.                                        *)
Unmarked == staging
Marked == Put(staging, "marker", "good")

WriteMarker(p) ==
  /\ pc[p] = "marker"
  /\ staging # None
  /\ staging' = Marked
  /\ Goto(p, "replace")
  /\ UNCHANGED <<current, tmp, bundle, locals, slot, crashes>>

-----------------------------------------------------------------------------
(* The old model is removed, one entry at a time, in any order; an error   *)
(* is ignored.                                                             *)
RemoveEntry(p) ==
  /\ pc[p] = "replace"
  /\ \E n \in Entries(current) : current' = Without(current, n)
  /\ UNCHANGED <<staging, tmp, bundle, pc, locals, slot, crashes>>

Removed(p) ==
  /\ pc[p] = "replace"
  /\ Entries(current) = {}
  /\ current' = None
  /\ Goto(p, "rename")
  /\ UNCHANGED <<staging, tmp, bundle, locals, slot, crashes>>

RemovalFails(p) ==
  /\ pc[p] = "replace"
  /\ Goto(p, "rename")
  /\ UNCHANGED <<dirs, locals, slot, crashes>>

(* A directory is renamed only over nothing, or over an empty one.         *)
Rename(p) ==
  /\ pc[p] = "rename"
  /\ staging # None
  /\ Entries(current) = {}
  /\ current' = staging
  /\ staging' = None
  /\ Goto(p, "tidy")
  /\ UNCHANGED <<tmp, bundle, locals, slot, crashes>>

Tidy(p) ==
  /\ pc[p] = "tidy"
  /\ tmp' = FALSE
  /\ bundle' = None
  /\ Goto(p, "hotload")
  /\ UNCHANGED <<current, staging, locals, slot, crashes>>

(* A runtime ends, at whatever point it is, and is launched again.         *)
Relaunch(p) ==
  /\ crashes < MaxCrashes
  /\ crashes' = crashes + 1
  /\ Goto(p, "start")
  /\ attempt' = [attempt EXCEPT ![p] = 1]
  /\ got' = [got EXCEPT ![p] = "partial"]
  /\ seen' = [seen EXCEPT ![p] = {}]
  /\ slot' = [slot EXCEPT ![p] = None]
  /\ UNCHANGED dirs

(* What depends on the source, and what a runtime does by itself.          *)
Fetch(p) == Request(p) \/ RequestFails(p) \/ Stream(p) \/ StreamBreaksOff(p)

Work(p) ==
  \/ Start(p) \/ Load(p) \/ HotLoad(p)
  \/ RemoveTemps(p) \/ CreateTemps(p) \/ Verify(p)
  \/ Extract(p) \/ Unpack(p) \/ UnpackFails(p) \/ Unpacked(p) \/ WriteMarker(p)
  \/ RemoveEntry(p) \/ Removed(p) \/ RemovalFails(p) \/ Rename(p) \/ Tidy(p)
  \/ Fails(p) \/ Cleanup(p)

Next == \E p \in Procs : Fetch(p) \/ Work(p) \/ Relaunch(p)

Spec == Init /\ [][Next]_vars

(* A runtime that is up goes on working. A source promises nothing: the    *)
(* client that fetches from it has no timeout.                             *)
FairSpec == Spec /\ \A p \in Procs : WF_vars(Work(p))

-----------------------------------------------------------------------------
(* What comes to count as cached is the whole pinned bundle: its hash has  *)
(* been verified before anything is unpacked from it (downloader.rs:23-25).*)
InstallsVerified == [][~Ready(current) /\ Ready(current') => Complete(current')]_vars

(* An old model is touched only when a whole new one waits in .staging/,   *)
(* whatever has failed or crashed before: no failure up to the commit      *)
(* loses it. The commit itself can: try_one removes current/ (160) before  *)
(* a rename that may fail (161), so downloader.rs:10-11, which says that   *)
(* it is left untouched on any failure, holds only up to there.            *)
OldGoesLast ==
  [][current' # current => \/ Ready(staging) /\ Complete(staging)
                           \/ Ready(current') /\ Complete(current')]_vars

(* A download that is reported as installed can be loaded: neither the     *)
(* marker nor a file of it is missing (spawn_background_download).         *)
HotLoadFinds == \A p \in Procs : pc[p] = "hotload" => Ready(current) /\ Complete(current)

(* Every launch comes to an end of its attempts, with the model loaded or  *)
(* without, unless a source neither goes on sending nor breaks off         *)
(* (download, spawn_background_download).                                  *)
EveryLaunchSettles ==
  \A p \in Procs : \/ []<>(pc[p] \in {"loaded", "failed", "gaveup"})
                   \/ <>[](pc[p] \in {"request", "stream"})
=============================================================================
