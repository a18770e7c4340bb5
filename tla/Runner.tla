-------------------------------- MODULE Runner --------------------------------
(***************************************************************************)
(* The desktop app: its commands on the library, on the settings and on    *)
(* the servers, in any order and overlapping, over as many launches as     *)
(* there are closings and kills (crates/mcporb-runtime-app/src/main.rs).   *)
(***************************************************************************)
EXTENDS LibraryChange, OrbServers

CONSTANT Worlds  \* what an earlier launch has left, with the commands now issued

ASSUME WorldsGiven ==
  Worlds \subseteq [script : SUBSET Commands, registry : Entries, dir : Folders \cup {None},
                    apart : SUBSET Dirs, token : Nat, foreign : SUBSET Ports, left : BOOLEAN]

vars == <<library, servers, conf, tasks, faults>>

(* A world: commands, registry, library folder (its bookmark unless lost), *)
(* gateway token and port, volumes, foreign ports, and a gateway left.     *)
InitiallyIn(w) ==
  /\ settings = [DefaultSettings EXCEPT !.dir = w.dir, !.mark = w.dir, !.onboard = w.dir # None,
                                        !.token = w.token]
  /\ drawn = w.token
  /\ registry = w.registry
  /\ zips = [d \in Dirs |-> [o \in Orbs |->
               IF o \in DOMAIN w.registry /\ w.registry[o] = d THEN "whole" ELSE "absent"]]
  /\ volume = [d \in Dirs |-> IF d \in w.apart THEN 2 ELSE 1]
  /\ orbsDir = IF w.dir = None THEN Legacy ELSE w.dir
  /\ foreign = w.foreign
  /\ LET left == CHOOSE p \in Pids : TRUE IN
     proc = [p \in Pids |->
       IF p = left /\ w.left
         THEN [Process(Gateway, BasePort, w.token, "localhost") EXCEPT !.st = "up", !.here = FALSE]
         ELSE [Process(Gateway, BasePort, 0, "localhost") EXCEPT !.st = "dead", !.here = FALSE]]
  /\ waiting = w.script

Init ==
  /\ \E w \in Worlds : InitiallyIn(w)
  /\ settingsLock = None /\ pending = None /\ spoiled = {}
  /\ children = [k \in Keys |-> None] /\ listed = {}
  /\ cmd = [t \in Tasks |-> None] /\ pc = [t \in Tasks |-> "idle"]
  /\ loc = [t \in Tasks |-> NoLocals]
  /\ faults = 0 /\ clash = {}

-----------------------------------------------------------------------------
(* Mutant: a folder is taken to have a bookmark.                           *)
AlwaysMarked(found) == IF found.dir = None THEN Legacy ELSE found.mark

LibraryOf(found) == IF None \in {found.dir, found.mark} THEN Legacy ELSE found.mark

(* What a launch makes of settings.json: a folder that has been picked is  *)
(* saved, else a bookmark that has been renewed, which is that of the same *)
(* folder still. An error of the save is ignored; it is the second number. *)
Chosen(read, found, folder) ==
  IF folder = None THEN read ELSE [found EXCEPT !.dir = folder, !.mark = folder]

LaunchSaves(read, found, folder) ==
  {<<Chosen(read, found, folder), 0>>}
  \cup (IF folder = None /\ None \in {found.dir, found.mark} THEN {} ELSE {<<read, 1>>, <<Torn, 1>>})

(* main(): settings that cannot be read count as the default ones; the     *)
(* library folder is used if its bookmark gives access, and asked for if   *)
(* none is stored or it is not there. What is then picked is not yet used. *)
Launched(read, errors) ==
  LET found == IF read = Torn THEN DefaultSettings ELSE read IN
  \E folder \in Folders \cup {None}, missing, denied \in {0, 1} :
    \E save \in LaunchSaves(read, found, folder) :
      /\ folder # None => missing = 1 \/ found.dir = None
      /\ denied = 1 => LibraryOf(found) # Legacy
      /\ settings' = save[1]
      /\ orbsDir' = IF denied = 0 THEN LibraryOf(found) ELSE Legacy
      /\ faults' = faults + errors + missing + denied + save[2]
      /\ faults' <= MaxFaults
      /\ clash' = clash \cup (IF folder = None THEN {} ELSE {"picked"})
                        \cup (IF read = Torn THEN {"unread"} ELSE {})
      /\ waiting' = waiting \cup {[op |-> "ensure"]}

SavesSettings(t) ==
  \/ pc[t] \in {"adopt", "reuse", "saving"}
  \/ Op(t) \in {"reset", "save", "dismiss"} /\ pc[t] = "start"
  \/ Ensuring(t, "load")

(* By the next launch a process left starting has its port, or has exited. *)
FirstOn(port, pids) ==
  CHOOSE p \in pids : proc[p].st = "starting" /\ proc[p].port = port

Left(killed) ==
  [p \in Pids |->
    [proc[p] EXCEPT
       !.here = FALSE,
       !.st = IF p \in killed THEN "dead"
              ELSE IF @ # "starting" THEN @
              ELSE IF Listening(proc[p].port) \/ p # FirstOn(proc[p].port, Pids \ killed)
              THEN "dead" ELSE "up"]]

(* The process is gone, with what it was writing half written, and so are  *)
(* its locks and its memory; processes it has not killed live on.          *)
Gone(killed) ==
  /\ cmd' = [t \in Tasks |-> None] /\ pc' = [t \in Tasks |-> "idle"]
  /\ loc' = [t \in Tasks |-> NoLocals]
  /\ settingsLock' = None /\ pending' = None
  /\ children' = [k \in Keys |-> None] /\ listed' = {}
  /\ proc' = Left(killed)
  /\ zips' = [d \in Dirs |-> [o \in Orbs |-> IF zips[d][o] = "filling" THEN "torn" ELSE zips[d][o]]]
  /\ registry' \in {registry} \cup (IF \E t \in Tasks : pc[t] \in SavePoints THEN {Torn} ELSE {})
  /\ UNCHANGED <<volume, spoiled, foreign, drawn>>

Relaunch(killed, errors) ==
  /\ Gone(killed)
  /\ \E read \in {settings} \cup (IF \E t \in Tasks : SavesSettings(t) THEN {Torn} ELSE {}) :
       Launched(read, errors)

(* Closing the window, or a SIGTERM: the children are taken out of the map *)
(* and killed. The user launches the app again.                            *)
Clear(t) ==
  /\ At(t, "close", "start") /\ OrbsFree
  /\ listed' = {}
  /\ Goto(t, "cleared")
  /\ UNCHANGED <<library, loc, children, proc, foreign, conf, faults>>

Drain(t) ==
  /\ At(t, "close", "cleared") /\ ChildrenFree
  /\ children' = [k \in Keys |-> None]
  /\ loc' = [loc EXCEPT ![t].moved = Owned]
  /\ Goto(t, "exit")
  /\ UNCHANGED <<library, listed, proc, foreign, conf, faults>>

Quit(t) == At(t, "close", "exit") /\ Relaunch(loc[t].moved, 0)

Kill == Relaunch({}, 1)

-----------------------------------------------------------------------------
(* A process started with --mcp-stdio or --gateway-stdio beside the app    *)
(* runs the same main(), without the guard and without asking. A bookmark  *)
(* it has renewed it stores as the app does: the settings are read again   *)
(* and saved whole, with no lock. One that is saving when the app is       *)
(* launched again is followed no further.                                  *)
ProxyResolve(t) ==
  /\ At(t, "proxy", "start")
  /\ \/ /\ settings # Torn /\ None \notin {settings.dir, settings.mark}
        /\ loc' = [loc EXCEPT ![t].dir = settings.mark]
        /\ Goto(t, "renewed")
     \/ End(t)
  /\ UNCHANGED <<library, servers, conf, faults>>

ProxyLoad(t) ==
  /\ At(t, "proxy", "renewed")
  /\ \/ /\ settings # Torn
        /\ loc' = [loc EXCEPT ![t].seen = [settings EXCEPT !.mark = loc[t].dir]]
        /\ Goto(t, "saving")
     \/ /\ settings = Torn \/ \E u \in Tasks : SavesSettings(u)
        /\ End(t)
  /\ UNCHANGED <<library, servers, conf, faults>>

(* For the properties: it saves what is no longer stored, or while a       *)
(* command of the app holds the settings.                                  *)
Overtakes(t) == settings # loc[t].seen \/ settingsLock # None

ProxySave(t) ==
  /\ At(t, "proxy", "saving")
  /\ SaveSettings(loc[t].seen) \/ SaveFails
  /\ EndMarked(t, IF Overtakes(t) THEN {"overtaken"} ELSE {})
  /\ UNCHANGED <<library, servers, settingsLock, drawn>>

ProxyStep(t) == ProxyResolve(t) \/ ProxyLoad(t) \/ ProxySave(t)

-----------------------------------------------------------------------------
TaskStep(t) ==
  \/ LibraryStep(t) /\ UNCHANGED servers
  \/ ServerStep(t, Installed) /\ UNCHANGED library
  \/ MetricsStep(t) /\ UNCHANGED library
  \/ Dismiss(t) /\ UNCHANGED <<library, servers>>
  \/ ProxyStep(t)
  \/ Clear(t)
  \/ Drain(t)
  \/ Quit(t)

Next ==
  \/ \E t \in Tasks : Issue(t) /\ UNCHANGED <<library, servers>>
  \/ \E t \in Tasks : TaskStep(t)
  \/ \E t \in Tasks : Answered(t) /\ UNCHANGED library
  \/ \E p \in Pids : (Settles(p) \/ Crashes(p)) /\ UNCHANGED library
  \/ Kill

(* Tokio runs every task; a process gets to bind its port, or to exit. No  *)
(* server has to answer.                                                   *)
Fairness ==
  /\ \A t \in Tasks : WF_vars(TaskStep(t))
  /\ WF_vars(\E p \in Pids : Settles(p) /\ UNCHANGED library)

Spec == Init /\ [][Next]_vars /\ Fairness

-----------------------------------------------------------------------------
Busy(area) == \E t \in Tasks : area \in Areas(Op(t))
Apart(area) == area \notin clash  \* no two commands of this area have overlapped

TypeOK ==
  /\ settings \in Settings \cup {Torn}
  /\ settingsLock \in Tasks \cup {None}
  /\ registry = Torn \/ registry \in Entries
  /\ zips \in [Dirs -> [Orbs -> Contents]]
  /\ orbsDir \in Dirs /\ pending \in Folders \cup {None} /\ spoiled \subseteq Orbs
  /\ children \in [Keys -> Pids \cup {None}] /\ listed \subseteq Orbs /\ proc \in [Pids -> Procs]
  /\ drawn \in Nat /\ faults \in 0..MaxFaults

(* Library commands that do not overlap and meet no error leave every      *)
(* installed Orb's ZIP whole where registry.json says, over migrations     *)
(* between volumes, pending picks and launches.                            *)
LibraryIntact ==
  Apart("library") /\ ~Busy("library") /\ faults = 0 /\ "self" \notin clash =>
    registry # Torn /\ \A o \in DOMAIN registry : zips[registry[o]][o] = "whole"

(* An installed Orb that no command has unlinked or truncated has a whole  *)
(* ZIP somewhere, wherever an error or a kill has interrupted a migration. *)
NothingLost ==
  Apart("library") =>
    \A o \in Installed \ spoiled : \E d \in Dirs : zips[d][o] = "whole"

(* A migration within one volume that a single error ends: when a move has *)
(* failed, every ZIP is back where the registry says by the time it        *)
(* returns. When its last step, saving the registry, fails, nothing is put *)
(* back: each ZIP it has moved is whole in the new folder, while the       *)
(* registry, unless the save has torn it, names the old place.             *)
Failing(t) ==
  /\ settingsLock = t /\ cmd'[t] = None
  /\ \/ Applying(t, "rollback") /\ faults = 1 /\ faults' = faults
     \/ Applying(t, "rewrite") /\ faults = 0 /\ faults' = 1
LeftAt(t, o) == IF Applying(t, "rewrite") /\ o \in loc[t].moved THEN loc[t].dir ELSE registry[o]
FailedMigrationUndone ==
  [][\A t \in Tasks : Failing(t) /\ Apart("library") /\ (\A d, e \in Dirs : SameVolume(d, e))
       => \A o \in Installed \ spoiled : zips'[LeftAt(t, o)][o] = "whole"]_vars

(* "Configure the MCP client once": a token in use changes only when it is *)
(* reset, whatever commands overlap, unless a launch could not read the    *)
(* settings, torn by a write that was cut off, or a process beside the app *)
(* has saved settings that were out of date or while others used them.     *)
TokenKept ==
  [][settings # Torn /\ settings' # Torn /\ settings.token # 0 /\ settings'.token # settings.token
       => clash' \cap {"unread", "overtaken"} # {} \/ \E t \in Tasks : At(t, "reset", "start")]_vars

(* A stored bookmark is that of the stored folder, and imports go there.   *)
(* It may be dropped; and nothing is said of a folder picked at launch,    *)
(* after an error, or once a process beside the app has overtaken it.      *)
LibraryFits ==
  settings # Torn /\ clash \cap {"picked", "overtaken"} = {} /\ faults = 0 =>
    (settings.mark # None => settings.dir = settings.mark /\ orbsDir = settings.mark)

(* Once the gateway commands have returned, none of which have overlapped, *)
(* the gateway that the app owns was started with the token and the        *)
(* binding that are stored.                                                *)
OwnedMatches ==
  /\ Apart("gateway") /\ "overtaken" \notin clash /\ ~Busy("gateway") /\ faults = 0
  /\ GatewayRuns /\ Alive(children[Gateway])
  =>
    /\ proc[children[Gateway]].token = settings.token
    /\ proc[children[Gateway]].binding = settings.binding

(* Launches do not pile up gateways: at most one serves the token in use,  *)
(* unless gateway commands have overlapped, the port was edited, a probe   *)
(* was not answered in time, or a process beside the app has overtaken it. *)
OneGateway ==
  Apart("gateway") /\ clash \cap {"port", "slow", "overtaken"} = {} /\ settings # Torn =>
    Cardinality({p \in Pids : proc[p].st = "up" /\ proc[p].key = Gateway
                                       /\ proc[p].token = settings.token}) <= 1

(* Every process that this launch has started and not killed is a child    *)
(* that stop, remove and the shutdown find, or is in the hands of a        *)
(* command, whatever has overlapped: unless an Orb was started twice,      *)
(* which drops its first child unkilled.                                   *)
InHand(t) == IF Op(t) = "close" THEN loc[t].moved ELSE {loc[t].pid}

NoOrphans ==
  "twice" \notin clash =>
    \A p \in Pids : proc[p].here /\ Alive(p) => p \in Owned \/ \E t \in Tasks : p \in InHand(t)

(* Closing the app ends the processes it has started. Only those live on   *)
(* that a command overlapping it has put among the children since they     *)
(* were taken out, or still has in its hands, as the launch's own search   *)
(* for a gateway has while it waits for the one it has started.            *)
ClosesClean ==
  [][\A t \in Tasks : At(t, "close", "exit") /\ "twice" \notin clash /\ cmd'[t] = None /\ faults' = faults
       => \A p \in Pids : proc[p].here /\ proc'[p].st \in {"starting", "up"}
            => p \in Owned \/ \E u \in Tasks \ {t} : p \in InHand(u)]_vars

(* Every command returns, except a query of metrics whose server never     *)
(* answers, and what waits for the lock that the query holds: to end a     *)
(* start, to begin a stop, a removal or the closing, or for a batch, which *)
(* keeps all others from the children meanwhile.                           *)
NeedsOrbs(t) ==
  \/ Op(t) \in {"stop", "remove", "close"} /\ pc[t] = "start"
  \/ At(t, "start", "list") \/ At(t, "metrics", "fetch") \/ At(t, "batch", "holding")

HeldUp(t) ==
  /\ \E u \in Tasks : Unanswered(u)
  /\ pc[t] = "asking" \/ NeedsOrbs(t) \/ ~ChildrenFree

EveryCommandEnds == \A t \in Tasks : <>[]HeldUp(t) \/ (cmd[t] # None ~> cmd[t] = None)
=============================================================================
