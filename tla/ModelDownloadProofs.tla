-------------------------- MODULE ModelDownloadProofs --------------------------
(***************************************************************************)
(* The safety properties of ModelDownload, for any bundle, any number of   *)
(* sources and of crashes. TypeOK holds for any number of runtimes, the    *)
(* others for one that has the cache to itself.                            *)
(***************************************************************************)
EXTENDS ModelDownload, TLAPS

(* Writing a file into a directory, and removing one, gives a directory.   *)
LEMMA PutIsDir ==
  ASSUME NEW d \in Dirs, d # None, NEW n \in Names, NEW q \in Qualities
  PROVE  /\ Put(d, n, q) \in Dirs
         /\ Put(d, n, q) # None
         /\ Entries(Put(d, n, q)) = Entries(d) \cup {n}
         /\ Put(d, n, q)[n] = q
         /\ \A m \in Entries(d) \ {n} : Put(d, n, q)[m] = d[m]
<1>1. PICK D \in SUBSET Names : d \in [D -> Qualities]
  BY DEF Dirs, FullDirs
<1>2. Put(d, n, q) \in [D \cup {n} -> Qualities]
  BY <1>1 DEF Put
<1>3. D \cup {n} \in SUBSET Names
  BY <1>1
<1>4. Put(d, n, q) \in FullDirs
  BY <1>2, <1>3 DEF FullDirs
<1>5. Put(d, n, q) # None
  BY <1>4, NoneIsNone
<1> QED
  BY <1>1, <1>2, <1>4, <1>5 DEF Dirs, Entries, Put

(* The same of removing a file.                                            *)
LEMMA WithoutIsDir ==
  ASSUME NEW d \in Dirs, NEW n \in Entries(d)
  PROVE  Without(d, n) \in Dirs
<1>1. d # None
  BY DEF Entries
<1>2. PICK D \in SUBSET Names : d \in [D -> Qualities]
  BY <1>1 DEF Dirs, FullDirs
<1>3. Without(d, n) \in [D \ {n} -> Qualities]
  BY <1>2 DEF Without
<1>4. D \ {n} \in SUBSET Names
  BY <1>2
<1> QED
  BY <1>3, <1>4 DEF Dirs, FullDirs

(* The directories a launch may find, and an empty one.                    *)
LEMMA FirstDirs ==
  /\ \A q \in Qualities : Whole(q) \in Dirs /\ Whole(q) # None
  /\ [n \in {} |-> "good"] \in Dirs
  /\ [n \in {} |-> "good"] # None
  /\ Entries([n \in {} |-> "good"]) = {}
<1>1. ASSUME NEW q \in Qualities PROVE Whole(q) \in FullDirs
  <2>1. Whole(q) \in [Names -> Qualities]
    BY DEF Whole
  <2> QED
    BY <2>1 DEF FullDirs
<1>2. [n \in {} |-> "good"] \in FullDirs
  <2>1. [n \in {} |-> "good"] \in [{} -> Qualities] /\ {} \in SUBSET Names
    OBVIOUS
  <2> QED
    BY <2>1 DEF FullDirs
<1> QED
  BY <1>1, <1>2, NoneIsNone DEF Dirs, Entries

(* The types hold initially.                                               *)
LEMMA TypesFirst == Init => TypeOK
<1> SUFFICES ASSUME Init PROVE TypeOK
  OBVIOUS
<1>1. "good" \in Qualities /\ "bad" \in Qualities /\ "old" \in Qualities /\ "marker" \in Names
  BY DEF Qualities, Names
<1>2. Put(Whole("bad"), "marker", "good") \in Dirs
  BY <1>1, FirstDirs, PutIsDir
<1>3. current \in Dirs /\ staging \in Dirs
  BY <1>1, <1>2, FirstDirs DEF Init, Dirs
<1>4. tmp \in BOOLEAN /\ bundle \in Bundles \cup {None}
  BY DEF Init
<1>5. attempt \in [Procs -> 1..Sources] /\ crashes \in 0..MaxCrashes
  BY DownloadConstants DEF Init
<1>6. /\ pc \in [Procs -> PCs]
      /\ got \in [Procs -> {"good", "bad", "partial"}]
      /\ seen \in [Procs -> SUBSET Files]
      /\ slot \in [Procs -> Qualities \cup {None}]
  BY DEF Init, PCs
<1> QED
  BY <1>3, <1>4, <1>5, <1>6 DEF TypeOK

(* Trying the next source keeps attempt and pc in their types.             *)
LEMMA NextSourceTypes ==
  ASSUME TypeOK, NEW p \in Procs, NextSource(p)
  PROVE  attempt' \in [Procs -> 1..Sources] /\ pc' \in [Procs -> PCs]
BY DownloadConstants DEF NextSource, Goto, TypeOK, PCs

(* Every step keeps the types.                                             *)
LEMMA TypesStep == TypeOK /\ [Next]_vars => TypeOK'
<1> SUFFICES ASSUME TypeOK, [Next]_vars PROVE TypeOK'
  OBVIOUS
<1> USE DownloadConstants
<1>1. CASE UNCHANGED vars
  BY <1>1 DEF TypeOK, vars, dirs, locals
<1>2. ASSUME NEW p \in Procs, Fetch(p) PROVE TypeOK'
  <2>1. ASSUME Request(p) PROVE bundle' \in Bundles
    <3>1. bundle = None \/ bundle.writers \in SUBSET Procs
      BY DEF TypeOK, Bundles
    <3> QED
      BY <2>1, <3>1 DEF Request, Bundles
  <2>2. ASSUME Stream(p) PROVE bundle' \in Bundles \cup {None}
    <3>1. CASE bundle = None \/ p \notin bundle.writers
      BY <2>2, <3>1 DEF Stream, TypeOK
    <3>2. CASE ~(bundle = None \/ p \notin bundle.writers)
      <4>1. PICK d \in {"good", "bad", "partial"} : bundle' = [bundle EXCEPT !.data = d]
        BY <2>2, <3>2 DEF Stream
      <4>2. bundle \in Bundles
        BY <3>2 DEF TypeOK
      <4> QED
        BY <4>1, <4>2 DEF Bundles
    <3> QED
      BY <3>1, <3>2
  <2> QED
    BY <1>2, <2>1, <2>2
    DEF Fetch, Request, RequestFails, Stream, StreamBreaksOff, Goto, TypeOK, PCs, dirs, locals
<1>3. ASSUME NEW p \in Procs, Start(p) \/ Load(p) \/ HotLoad(p) \/ RemoveTemps(p)
                              \/ Verify(p) \/ Removed(p) \/ RemovalFails(p) \/ Tidy(p)
                              \/ UnpackFails(p) \/ Unpacked(p)
      PROVE TypeOK'
  BY <1>3 DEF Start, Load, HotLoad, Loads, RemoveTemps, Verify, Removed, RemovalFails, Tidy,
              UnpackFails, Unpacked, NoTemps, Goto, TypeOK, PCs, dirs, locals, Dirs, Qualities
<1>4. ASSUME NEW p \in Procs, CreateTemps(p) PROVE TypeOK'
  BY <1>4, FirstDirs DEF CreateTemps, Goto, TypeOK, PCs, locals
<1>5. ASSUME NEW p \in Procs, Extract(p) PROVE TypeOK'
  BY <1>5 DEF Extract, Goto, TypeOK, PCs, dirs, Bundles
<1>6. ASSUME NEW p \in Procs, Unpack(p) PROVE TypeOK'
  <2>1. PICK f \in Files \ seen[p] :
          /\ staging' = Put(staging, f, IF got[p] = "bad" THEN "bad" ELSE "good")
          /\ seen' = [seen EXCEPT ![p] = @ \cup {f}]
    BY <1>6 DEF Unpack
  <2>2. f \in Names /\ (IF got[p] = "bad" THEN "bad" ELSE "good") \in Qualities
    BY DEF Names, Qualities
  <2>3. staging' \in Dirs
    BY <1>6, <2>1, <2>2, PutIsDir DEF Unpack, TypeOK
  <2> QED
    BY <1>6, <2>1, <2>3 DEF Unpack, TypeOK
<1>7. ASSUME NEW p \in Procs, WriteMarker(p) PROVE TypeOK'
  <2>1. "marker" \in Names /\ "good" \in Qualities
    BY DEF Names, Qualities
  <2>2. staging' \in Dirs
    BY <1>7, <2>1, PutIsDir DEF WriteMarker, Marked, TypeOK
  <2> QED
    BY <1>7, <2>2 DEF WriteMarker, Goto, TypeOK, PCs, locals
<1>8. ASSUME NEW p \in Procs, RemoveEntry(p) PROVE TypeOK'
  <2>1. current' \in Dirs
    BY <1>8, WithoutIsDir DEF RemoveEntry, TypeOK
  <2> QED
    BY <1>8, <2>1 DEF RemoveEntry, TypeOK, locals
<1>9. ASSUME NEW p \in Procs, Rename(p) PROVE TypeOK'
  BY <1>9 DEF Rename, Goto, TypeOK, PCs, locals, Dirs
<1>10. ASSUME NEW p \in Procs, Fails(p) \/ Cleanup(p) PROVE TypeOK'
  <2>1. NextSource(p)
    BY <1>10 DEF Fails, Cleanup
  <2> QED
    BY <1>10, <2>1, NextSourceTypes DEF Fails, Cleanup, NoTemps, TypeOK, dirs, Dirs
<1>11. ASSUME NEW p \in Procs, Relaunch(p) PROVE TypeOK'
  BY <1>11 DEF Relaunch, Goto, TypeOK, PCs, dirs
<1> QED
  BY <1>1, <1>2, <1>3, <1>4, <1>5, <1>6, <1>7, <1>8, <1>9, <1>10, <1>11 DEF Next, Work

(* The directories, the bundle and every runtime's place keep their types, *)
(* however many runtimes share the cache.                                  *)
THEOREM TypeCorrect == Spec => []TypeOK
BY TypesFirst, TypesStep, PTL DEF Spec
-----------------------------------------------------------------------------
(* A runtime has the cache to itself.                                      *)
Alone == \A p, q \in Procs : p = q

(* What an attempt has established when it comes to each of its steps.     *)
Fetched(p) ==
  /\ pc[p] \in {"create", "request"} => bundle = None
  /\ pc[p] = "stream" => bundle # None /\ bundle.writers = {p}
  /\ pc[p] = "verify" => bundle # None /\ bundle.data = got[p]
  /\ pc[p] = "extract" => bundle # None /\ bundle.data = "good"

Unpacking(p) ==
  /\ pc[p] = "unpack" =>
       /\ got[p] = "good"
       /\ \A f \in seen[p] : Present(staging, f) /\ staging[f] = "good"
  /\ pc[p] = "marker" => Complete(staging)
  /\ pc[p] \in {"replace", "rename"} => Ready(staging) /\ Complete(staging)

Installed(p) == pc[p] \in {"tidy", "hotload"} => Ready(current) /\ Complete(current)

Attempts == \A p \in Procs : Fetched(p) /\ Unpacking(p) /\ Installed(p)

Inv == TypeOK /\ Attempts

(* The marker completes a directory that has every file.                   *)
LEMMA MarkerReadies ==
  ASSUME TypeOK, staging # None, Complete(staging)
  PROVE  Ready(Marked) /\ Complete(Marked)
<1>1. "marker" \in Names /\ "good" \in Qualities /\ staging \in Dirs
  BY DEF Names, Qualities, TypeOK
<1>2. /\ Entries(Marked) = Entries(staging) \cup {"marker"}
      /\ Marked["marker"] = "good"
      /\ \A m \in Entries(staging) \ {"marker"} : Marked[m] = staging[m]
  BY <1>1, PutIsDir DEF Marked
<1> QED
  BY <1>2, DownloadConstants DEF Ready, Complete, Present

(* Unpacking a file of a good bundle keeps those unpacked before.          *)
LEMMA UnpackKeeps ==
  ASSUME TypeOK, NEW p \in Procs, Unpacking(p), Unpack(p)
  PROVE  \A f \in seen'[p] : Present(staging', f) /\ staging'[f] = "good"
<1>1. PICK f \in Files \ seen[p] :
        /\ staging' = Put(staging, f, IF got[p] = "bad" THEN "bad" ELSE "good")
        /\ seen' = [seen EXCEPT ![p] = @ \cup {f}]
  BY DEF Unpack
<1>2. /\ pc[p] = "unpack" /\ got[p] = "good" /\ staging # None
      /\ \A g \in seen[p] : Present(staging, g) /\ staging[g] = "good"
  BY DEF Unpack, Unpacking
<1>3. staging' = Put(staging, f, "good") /\ seen'[p] = seen[p] \cup {f}
  BY <1>1, <1>2 DEF TypeOK
<1>4. f \in Names /\ "good" \in Qualities /\ staging \in Dirs
  BY DEF Names, Qualities, TypeOK
<1>5. /\ Entries(staging') = Entries(staging) \cup {f}
      /\ staging'[f] = "good"
      /\ \A m \in Entries(staging) \ {f} : staging'[m] = staging[m]
  BY <1>2, <1>3, <1>4, PutIsDir
<1> QED
  BY <1>2, <1>3, <1>5 DEF Present

(* Every step of a runtime that has the cache to itself keeps what its     *)
(* attempt has established.                                                *)
LEMMA AttemptsStep ==
  ASSUME Alone, Inv, [Next]_vars
  PROVE  Attempts'
<1> SUFFICES ASSUME NEW p \in Procs
             PROVE  Fetched(p)' /\ Unpacking(p)' /\ Installed(p)'
  BY DEF Attempts
<1> USE DEF Inv, Attempts
<1>1. CASE UNCHANGED vars
  BY <1>1 DEF vars, dirs, locals, Fetched, Unpacking, Installed, Ready, Complete, Present, Entries
<1>2. ASSUME Next PROVE Fetch(p) \/ Work(p) \/ Relaunch(p)
  BY <1>2 DEF Next, Alone
<1>3. pc \in [Procs -> PCs] /\ got \in [Procs -> {"good", "bad", "partial"}]
  BY DEF TypeOK
<1>4. CASE \/ Start(p) \/ Load(p) \/ HotLoad(p) \/ UnpackFails(p) \/ RequestFails(p)
           \/ StreamBreaksOff(p) \/ Relaunch(p)
  BY <1>3, <1>4
  DEF Start, Load, HotLoad, Loads, UnpackFails, RequestFails, StreamBreaksOff, Relaunch, Goto,
      Fetched, Unpacking, Installed
<1>5. CASE RemoveTemps(p) \/ Fails(p) \/ Cleanup(p)
  BY <1>3, <1>5
  DEF RemoveTemps, Fails, Cleanup, NoTemps, NextSource, Goto, Fetched, Unpacking, Installed
<1>6. CASE CreateTemps(p)
  BY <1>3, <1>6 DEF CreateTemps, Goto, Fetched, Unpacking, Installed
<1>7. CASE Request(p)
  <2>1. bundle = None /\ bundle' = [data |-> "partial", writers |-> {p}]
    BY <1>7 DEF Request, Fetched
  <2>2. bundle' # None
    BY <2>1, NoneIsNone DEF Bundles
  <2> QED
    BY <1>3, <1>7, <2>1, <2>2 DEF Request, Goto, Fetched, Unpacking, Installed
<1>8. CASE Stream(p)
  <2>1. bundle \in Bundles /\ bundle.writers = {p}
    BY <1>8 DEF Stream, Fetched, TypeOK
  <2>2. PICK q \in {"good", "bad"} : got' = [got EXCEPT ![p] = q] /\ bundle' = [bundle EXCEPT !.data = q]
    BY <1>8, <2>1, NoneIsNone DEF Stream
  <2>3. bundle'.data = q /\ bundle' \in Bundles /\ got'[p] = q
    BY <1>3, <2>1, <2>2 DEF Bundles
  <2>4. bundle' # None
    BY <2>3, NoneIsNone
  <2> QED
    BY <1>3, <1>8, <2>3, <2>4 DEF Stream, Goto, Fetched, Unpacking, Installed
<1>9. CASE Verify(p)
  BY <1>3, <1>9 DEF Verify, HashMatches, dirs, locals, Goto, Fetched, Unpacking, Installed
<1>10. CASE Extract(p)
  <2>1. pc' = [pc EXCEPT ![p] = "unpack"] /\ got' = [got EXCEPT ![p] = "good"]
    BY <1>10 DEF Extract, Goto, Fetched
  <2>2. seen'[p] = {}
    BY <1>10 DEF Extract, TypeOK
  <2> QED
    BY <1>3, <2>1, <2>2 DEF Fetched, Unpacking, Installed
<1>11. CASE Unpack(p)
  <2>1. \A f \in seen'[p] : Present(staging, f)' /\ staging'[f] = "good"
    BY <1>11, UnpackKeeps DEF Present, Entries
  <2>2. pc[p] = "unpack" /\ UNCHANGED <<pc, got>>
    BY <1>11 DEF Unpack
  <2> QED
    BY <2>1, <2>2 DEF Fetched, Unpacking, Installed
<1>12. CASE Unpacked(p)
  <2>1. Complete(staging)
    BY <1>12 DEF Unpacked, AllSeen, Unpacking, Complete
  <2> QED
    BY <1>3, <1>12, <2>1
    DEF Unpacked, Goto, dirs, Fetched, Unpacking, Installed, Complete, Present, Entries
<1>13. CASE WriteMarker(p)
  <2>1. Ready(Marked) /\ Complete(Marked)
    BY <1>13, MarkerReadies DEF WriteMarker, Unpacking
  <2>2. Ready(staging') /\ Complete(staging')
    BY <1>13, <2>1 DEF WriteMarker
  <2>3. pc' = [pc EXCEPT ![p] = "replace"]
    BY <1>13 DEF WriteMarker, Goto
  <2> QED
    BY <1>3, <2>2, <2>3 DEF Fetched, Unpacking, Installed
<1>14. CASE RemoveEntry(p) \/ Removed(p) \/ RemovalFails(p)
  <2>1. Ready(staging) /\ Complete(staging) /\ staging' = staging
    BY <1>14 DEF RemoveEntry, Removed, RemovalFails, dirs, Unpacking
  <2>2. pc'[p] \in {"replace", "rename"}
    BY <1>3, <1>14 DEF RemoveEntry, Removed, RemovalFails, Goto
  <2>3. Ready(staging') /\ Complete(staging')
    BY <2>1
  <2> QED
    BY <2>2, <2>3 DEF Fetched, Unpacking, Installed
<1>15. CASE Rename(p)
  <2>1. Ready(staging) /\ Complete(staging) /\ current' = staging
    BY <1>15 DEF Rename, Unpacking
  <2>2. Ready(current') /\ Complete(current') /\ pc'[p] = "tidy"
    BY <1>3, <1>15, <2>1 DEF Rename, Goto
  <2> QED
    BY <2>2 DEF Fetched, Unpacking, Installed
<1>16. CASE Tidy(p)
  <2>1. Ready(current) /\ Complete(current) /\ current' = current
    BY <1>16 DEF Tidy, Installed
  <2>2. Ready(current') /\ Complete(current') /\ pc'[p] = "hotload"
    BY <1>3, <1>16, <2>1 DEF Tidy, Goto
  <2> QED
    BY <2>2 DEF Fetched, Unpacking, Installed
<1> QED
  BY <1>1, <1>2, <1>4, <1>5, <1>6, <1>7, <1>8, <1>9, <1>10, <1>11, <1>12, <1>13, <1>14, <1>15,
     <1>16 DEF Fetch, Work

(* The inductive invariant, for one runtime.                               *)
LEMMA InvHolds == ASSUME Alone PROVE Spec => []Inv
<1>1. Init => Inv
  <2> SUFFICES ASSUME Init PROVE Inv
    OBVIOUS
  <2>1. \A p \in Procs : pc[p] = "start"
    BY DEF Init
  <2> QED
    BY <2>1, TypesFirst DEF Inv, Attempts, Fetched, Unpacking, Installed
<1>2. Inv /\ [Next]_vars => Inv'
  BY TypesStep, AttemptsStep DEF Inv
<1> QED
  BY <1>1, <1>2, PTL DEF Spec

(* A runtime that reports a download finds a complete model to load.       *)
THEOREM DownloadsLoad == ASSUME Alone PROVE Spec => []HotLoadFinds
<1>1. Inv => HotLoadFinds
  BY DEF Inv, Attempts, Installed, HotLoadFinds
<1> QED
  BY <1>1, InvHolds, PTL

(* current/ is changed by these steps only, with a whole model in staging. *)
LEMMA ChangesOfCurrent ==
  ASSUME Alone, Inv, [Next]_vars, current' # current
  PROVE  /\ Ready(staging) /\ Complete(staging)
         /\ \/ current' = staging
            \/ current' = None
            \/ \E n \in Entries(current) : current' = Without(current, n)
<1>1. PICK p \in Procs : Fetch(p) \/ Work(p) \/ Relaunch(p)
  BY DEF Next, vars, dirs
<1>2. RemoveEntry(p) \/ Removed(p) \/ Rename(p)
  BY <1>1
  DEF Fetch, Work, Relaunch, Start, Load, HotLoad, RemoveTemps, CreateTemps, Verify, Extract,
      Unpack, UnpackFails, Unpacked, WriteMarker, RemovalFails, Tidy, Fails, Cleanup, Request,
      RequestFails, Stream, StreamBreaksOff, dirs
<1>3. pc[p] \in {"replace", "rename"}
  BY <1>2 DEF RemoveEntry, Removed, Rename
<1> QED
  BY <1>2, <1>3 DEF RemoveEntry, Removed, Rename, Inv, Attempts, Unpacking

(* Only the whole pinned bundle ever comes to count as cached.             *)
THEOREM OnlyVerifiedInstalled == ASSUME Alone PROVE Spec => InstallsVerified
<1>1. ASSUME Inv, [Next]_vars, ~Ready(current), Ready(current')
      PROVE  Complete(current')
  <2>1. CASE current' = current
    BY <1>1, <2>1
  <2>2. CASE current' = staging
    BY <1>1, <2>1, <2>2, ChangesOfCurrent
  <2>3. CASE current' = None
    BY <1>1, <2>3 DEF Ready, Present, Entries
  <2>4. ASSUME NEW n \in Entries(current), current' = Without(current, n)
        PROVE  FALSE
    <3>1. /\ DOMAIN Without(current, n) = DOMAIN current \ {n}
          /\ \A m \in DOMAIN current \ {n} : Without(current, n)[m] = current[m]
      BY DEF Without
    <3> QED
      BY <1>1, <2>4, <3>1 DEF Ready, Present, Entries
  <2> QED
    BY <1>1, <2>1, <2>2, <2>3, <2>4, ChangesOfCurrent
<1> QED
  BY <1>1, InvHolds, PTL DEF InstallsVerified, Spec

(* The old model is touched only when a whole new one is there: no failure *)
(* before the commit step loses it (try_one).                              *)
THEOREM OldStaysTillLast == ASSUME Alone PROVE Spec => OldGoesLast
<1>1. ASSUME Inv, [Next]_vars, current' # current
      PROVE  Ready(staging) /\ Complete(staging)
  BY <1>1, ChangesOfCurrent
<1> QED
  BY <1>1, InvHolds, PTL DEF OldGoesLast, Spec
=============================================================================
