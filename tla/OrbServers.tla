----------------------------- MODULE OrbServers -----------------------------
(***************************************************************************)
(* The processes the desktop app starts: one server per Orb and the        *)
(* unified HTTP gateway, which may also have been left by an earlier       *)
(* launch and is then adopted. Their children map is locked step by step,  *)
(* the settings file and the ports are read in between.                    *)
(***************************************************************************)
EXTENDS RunnerState, Functions

CONSTANTS
  Gateway,  \* UNIFIED_GATEWAY_KEY
  Pids      \* bound: processes at once

ASSUME ServerConstants ==
  /\ IsFiniteSet(Pids)
  /\ None \notin Pids
  /\ Gateway \notin Orbs \cup {None}

VARIABLES
  children,  \* AppState.running_children: the child under each key, or None
  listed,    \* AppState.running_orbs: the Orbs with an entry
  proc,      \* the processes, those of earlier launches included
  foreign    \* ports on which another program listens

servers == <<children, listed, proc, foreign>>

Keys == Orbs \cup {Gateway}
Procs == [key : Keys, st : {"starting", "up", "dying", "dead"}, port : Ports, token : Nat,
          binding : Bindings, here : BOOLEAN]

Process(key, port, token, binding) ==
  [key |-> key, st |-> "starting", port |-> port, token |-> token, binding |-> binding, here |-> TRUE]

Alive(p) == proc[p].st \in {"starting", "up"}
Serving(p) == proc[p].st \in {"up", "dying"}

Listening(port) == port \in foreign \/ \E p \in Pids : Serving(p) /\ proc[p].port = port

(* Mutant: only a gateway of this launch is recognised.                    *)
OwnAccepting(port, token) ==
  {p \in Pids : Serving(p) /\ proc[p].here /\ proc[p].port = port /\ proc[p].token = token}

Accepting(port, token) ==
  {p \in Pids : Serving(p) /\ proc[p].key = Gateway /\ proc[p].port = port /\ proc[p].token = token}

(* gateway_accepts_token: nothing but a gateway with this token says 200.  *)
Accepts(port, token) == Accepting(port, token) # {}

(* base..=base + GATEWAY_PORT_FALLBACK_RANGE                               *)
Candidates(base) == {p \in Ports : base <= p /\ p <= base + PortRange}
First(ports) == CHOOSE p \in ports : \A q \in ports : p <= q

Unused == {p \in Pids : proc[p].st = "dead" /\ (\A k \in Keys : children[k] # p)
                                            /\ (\A t \in Tasks : loc[t].pid # p)}

(* Any one of them: which pid the system gives makes no difference.        *)
Fresh == CHOOSE p \in Unused : TRUE

Killed(pids) == [p \in Pids |-> IF p \in pids THEN [proc[p] EXCEPT !.st = "dead"] ELSE proc[p]]

(* Mutant: the gateway is not among the children that are shut down.       *)
OrbChildren == {children[k] : k \in Orbs} \ {None}

Owned == {children[k] : k \in Keys} \ {None}

GatewayRuns == children[Gateway] # None
GwShift == IF GatewayRuns THEN 1 ELSE 0

(* The locks on running_orbs and running_children. Most commands hold them *)
(* for one step: only a query of an Orb's metrics keeps running_orbs, and  *)
(* a batch running_children, while they wait.                              *)
OrbsFree == \A u \in Tasks : pc[u] # "asking"
ChildrenFree == \A u \in Tasks : pc[u] # "holding"

-----------------------------------------------------------------------------
(* start_orb_http: the port is the settings', moved up by one while the    *)
(* gateway is among the children. Nothing stops a second start.            *)
StartLookup(t, known) ==
  /\ At(t, "start", "start")
  /\ \/ cmd[t].orb \in known /\ Goto(t, "settings") /\ UNCHANGED loc
     \/ cmd[t].orb \notin known /\ End(t)
  /\ UNCHANGED <<servers, conf, faults>>

StartSettings(t) ==
  /\ At(t, "start", "settings")
  /\ LockFree
  /\ \/ /\ settings # Torn
        /\ loc' = [loc EXCEPT ![t].base = settings.port, ![t].binding = settings.binding]
        /\ Goto(t, "spawn")
     \/ LoadSettingsFails /\ End(t)
  /\ UNCHANGED <<servers, conf, faults>>

Spawned(t, port, key) ==
  /\ Unused # {}
  /\ proc' = [proc EXCEPT ![Fresh] = Process(key, port, loc[t].token, loc[t].binding)]
  /\ loc' = [loc EXCEPT ![t].pid = Fresh]

(* Past the bounds on processes and ports, spawning fails too.             *)
SpawnFails(possible) == IF possible /\ Unused # {} THEN Fault ELSE UNCHANGED faults

StartSpawn(t) ==
  /\ At(t, "start", "spawn") /\ ChildrenFree
  /\ LET port == loc[t].base + GwShift IN
     \/ /\ port \in Ports
        /\ Spawned(t, port, cmd[t].orb)
        /\ Goto(t, "insert")
        /\ UNCHANGED faults
     \/ SpawnFails(port \in Ports) /\ End(t) /\ UNCHANGED proc
  /\ UNCHANGED <<children, listed, foreign, conf>>

(* An Orb's child that is overwritten is not killed.                       *)
Overwrites(key) == children[key] # None /\ Alive(children[key])

StartInsert(t) ==
  /\ At(t, "start", "insert") /\ ChildrenFree
  /\ children' = [children EXCEPT ![cmd[t].orb] = loc[t].pid]
  /\ GotoMarked(t, "list", IF Overwrites(cmd[t].orb) THEN {"twice"} ELSE {})
  /\ UNCHANGED <<loc, listed, proc, foreign, conf, faults>>

StartList(t) ==
  /\ At(t, "start", "list") /\ OrbsFree
  /\ listed' = listed \cup {cmd[t].orb}
  /\ End(t)
  /\ UNCHANGED <<children, proc, foreign, conf, faults>>

-----------------------------------------------------------------------------
(* stop_orb_http, and the first half of remove_orb.                        *)
Unlist(t) ==
  /\ Op(t) \in {"stop", "remove"} /\ pc[t] = "start" /\ OrbsFree
  /\ listed' = listed \ {cmd[t].orb}
  /\ Goto(t, "unlisted")
  /\ UNCHANGED <<loc, children, proc, foreign, conf, faults>>

StopChild(t) ==
  /\ Op(t) \in {"stop", "remove"} /\ pc[t] = "unlisted" /\ ChildrenFree
  /\ children' = [children EXCEPT ![cmd[t].orb] = None]
  /\ proc' = Killed({children[cmd[t].orb]})
  /\ IF Op(t) = "stop" THEN End(t) ELSE Goto(t, "stopped") /\ UNCHANGED loc
  /\ UNCHANGED <<listed, foreign, conf, faults>>

-----------------------------------------------------------------------------
(* batch_start_orbs takes first one lock, then the other, and holds both   *)
(* to the end. An Orb already started counts, so each gets the first port  *)
(* plus the number of results so far.                                      *)
BatchSettings(t) ==
  /\ At(t, "batch", "start")
  /\ LockFree
  /\ \/ /\ settings # Torn
        /\ loc' = [loc EXCEPT ![t].base = settings.port, ![t].binding = settings.binding]
        /\ Goto(t, "launch")
     \/ LoadSettingsFails /\ End(t)
  /\ UNCHANGED <<servers, conf, faults>>

BatchLock(t) ==
  /\ At(t, "batch", "launch") /\ ChildrenFree
  /\ Goto(t, "holding")
  /\ UNCHANGED <<loc, servers, conf, faults>>

HasResult(o, known) == IF children[o] # None THEN o \in listed ELSE o \in known

BatchPort(t, orbs, i, known) ==
  loc[t].base + GwShift + Cardinality({j \in 1..(i - 1) : HasResult(orbs[j], known)})

BatchNew(orbs, known) == {o \in known : children[o] = None /\ \E i \in DOMAIN orbs : orbs[i] = o}
Place(orbs, o) == CHOOSE i \in DOMAIN orbs : orbs[i] = o

BatchLaunch(t, known) ==
  /\ At(t, "batch", "holding") /\ OrbsFree
  /\ LET new == BatchNew(cmd[t].orbs, known)
         port(o) == BatchPort(t, cmd[t].orbs, Place(cmd[t].orbs, o), known)
         pid == CHOOSE f \in [new -> Unused] : IsInjective(f)
     IN IF Cardinality(new) > Cardinality(Unused) \/ \E o \in new : port(o) \notin Ports
        THEN UNCHANGED <<children, listed, proc>>  \* past the bounds nothing is spawned
        ELSE /\ children' = [k \in Keys |-> IF k \in new THEN pid[k] ELSE children[k]]
             /\ listed' = listed \cup new
             /\ proc' = [p \in Pids |->
                  IF \E o \in new : pid[o] = p
                    THEN LET o == CHOOSE x \in new : pid[x] = p IN Process(o, port(o), 0, loc[t].binding)
                    ELSE proc[p]]
  /\ End(t)
  /\ UNCHANGED <<foreign, conf, faults>>

-----------------------------------------------------------------------------
(* ensure_unified_gateway_impl, which also ends reset_gateway_token and a  *)
(* change of the binding, and runs once at every launch.                   *)
Ensuring(t, label) == Op(t) \in {"ensure", "reset", "save"} /\ pc[t] = label

EnsureEnter(t) ==
  /\ At(t, "ensure", "start") \/ Ensuring(t, "ensure")
  /\ ChildrenFree
  /\ Goto(t, IF GatewayRuns THEN "status" ELSE "load")
  /\ UNCHANGED <<loc, servers, conf, faults>>

(* The first token is drawn and saved under one lock.                      *)
EnsureLoad(t) ==
  /\ Ensuring(t, "load")
  /\ LockFree
  /\ LET token == IF settings.token = 0 THEN drawn + 1 ELSE settings.token
         first == settings # Torn /\ settings.token = 0
     IN \/ /\ settings # Torn
           /\ IF first THEN SaveSettings([settings EXCEPT !.token = token]) /\ drawn' = token
                       ELSE UNCHANGED <<settings, drawn, faults>>
           /\ loc' = [loc EXCEPT ![t].base = settings.port, ![t].token = token,
                                 ![t].binding = settings.binding]
           /\ Goto(t, "probe")
        \/ /\ \/ LoadSettingsFails /\ UNCHANGED <<settings, faults>>
              \/ first /\ SaveFails
           /\ End(t)
           /\ UNCHANGED drawn
  /\ UNCHANGED <<servers, settingsLock>>

(* A gateway that takes our token is reused. It may take longer to answer  *)
(* than the probe waits.                                                   *)
EnsureProbe(t) ==
  /\ Ensuring(t, "probe")
  /\ LET ours == {p \in Candidates(loc[t].base) : Accepts(p, loc[t].token)} IN
     \/ /\ ours # {}
        /\ loc' = [loc EXCEPT ![t].port = First(ours)]
        /\ Goto(t, "reuse")
        /\ UNCHANGED faults
     \/ /\ ours = {}
        /\ Goto(t, "choose")
        /\ UNCHANGED <<loc, faults>>
     \/ /\ ours # {} /\ Fault
        /\ GotoMarked(t, "choose", {"slow"})
        /\ UNCHANGED loc
  /\ UNCHANGED <<servers, conf>>

(* The port that turned out is stored for the next launch.                 *)
StorePort(t) ==
  \/ /\ settings # Torn
     /\ IF settings.port = loc[t].port THEN UNCHANGED <<settings, faults>>
          ELSE SaveSettings([settings EXCEPT !.port = loc[t].port])
  \/ LoadSettingsFails /\ UNCHANGED <<settings, faults>>
  \/ settings # Torn /\ settings.port # loc[t].port /\ SaveFails

EnsureReuse(t) ==
  /\ Ensuring(t, "reuse")
  /\ LockFree
  /\ StorePort(t)
  /\ End(t)
  /\ UNCHANGED <<servers, settingsLock, drawn>>

EnsureChoose(t) ==
  /\ Ensuring(t, "choose")
  /\ LET quiet == {p \in Candidates(loc[t].base) : ~Listening(p)} IN
     \/ quiet # {} /\ loc' = [loc EXCEPT ![t].port = First(quiet)] /\ Goto(t, "spawn")
     \/ quiet = {} /\ End(t)
  /\ UNCHANGED <<servers, conf, faults>>

EnsureSpawn(t) ==
  /\ Ensuring(t, "spawn")
  /\ \/ Spawned(t, loc[t].port, Gateway) /\ Goto(t, "poll") /\ UNCHANGED faults
     \/ SpawnFails(TRUE) /\ End(t) /\ UNCHANGED proc
  /\ UNCHANGED <<children, listed, foreign, conf>>

(* Started means: the child is alive and somebody listens on its port. A   *)
(* child that is too slow is killed.                                       *)
Started(p, port) == Alive(p) /\ Listening(port)

GivesUp(p, port) == ~Started(p, port) /\ IF Alive(p) THEN Fault ELSE UNCHANGED faults

(* Mutant: it is left running.                                             *)
LeftRunning(p) == proc

GivenUp(p) == Killed({p})

EnsurePoll(t) ==
  /\ Ensuring(t, "poll")
  /\ LET p == loc[t].pid IN
     \/ Started(p, loc[t].port) /\ Goto(t, "insert") /\ UNCHANGED <<loc, proc, faults>>
     \/ GivesUp(p, loc[t].port) /\ proc' = GivenUp(p) /\ End(t)
  /\ UNCHANGED <<children, listed, foreign, conf>>

(* A gateway that is overwritten is dropped and thereby killed.            *)
EnsureInsert(t) ==
  /\ Ensuring(t, "insert") /\ ChildrenFree
  /\ children' = [children EXCEPT ![Gateway] = loc[t].pid]
  /\ proc' = Killed({children[Gateway]})
  /\ IF loc[t].port = loc[t].base THEN End(t) ELSE Goto(t, "reuse") /\ UNCHANGED loc
  /\ UNCHANGED <<listed, foreign, conf, faults>>

-----------------------------------------------------------------------------
(* unified_gateway_status_impl: a child found dead is removed.             *)
StatusLoad(t) ==
  /\ At(t, "status", "start") \/ Ensuring(t, "status")
  /\ LockFree
  /\ \/ settings # Torn /\ Goto(t, "reap") /\ UNCHANGED loc
     \/ LoadSettingsFails /\ End(t)
  /\ UNCHANGED <<servers, conf, faults>>

StatusReap(t) ==
  /\ Op(t) \in {"status", "ensure", "reset", "save"} /\ pc[t] = "reap" /\ ChildrenFree
  /\ children' = IF GatewayRuns /\ Alive(children[Gateway]) THEN children
                   ELSE [children EXCEPT ![Gateway] = None]
  /\ End(t)
  /\ UNCHANGED <<listed, proc, foreign, conf, faults>>

-----------------------------------------------------------------------------
(* stop_unified_gateway_impl: the child if there is one; else whatever     *)
(* takes our token on the stored port is sent a SIGTERM.                   *)
Stopping(t, label) == Op(t) \in {"reset", "save", "stopgw"} /\ pc[t] = label

Stopped(t) == IF Op(t) = "stopgw" THEN End(t) ELSE Goto(t, "ensure") /\ UNCHANGED loc

StopGateway(t) ==
  /\ At(t, "stopgw", "start") \/ Stopping(t, "stop")
  /\ ChildrenFree
  /\ \/ /\ GatewayRuns
        /\ children' = [children EXCEPT ![Gateway] = None]
        /\ proc' = Killed({children[Gateway]})
        /\ Stopped(t)
     \/ /\ ~GatewayRuns
        /\ Goto(t, "adopted")
        /\ UNCHANGED <<loc, children, proc>>
  /\ UNCHANGED <<listed, foreign, conf, faults>>

StopAdopted(t) ==
  /\ Stopping(t, "adopted")
  /\ LockFree
  /\ \/ /\ settings # Torn
        /\ proc' = [p \in Pids |-> IF p \in Accepting(settings.port, settings.token)
                                     THEN [proc[p] EXCEPT !.st = "dying"] ELSE proc[p]]
        /\ Stopped(t)
     \/ LoadSettingsFails /\ End(t) /\ UNCHANGED proc
  /\ UNCHANGED <<children, listed, foreign, conf, faults>>

-----------------------------------------------------------------------------
(* Mutants: the new token is stored, the gateway with the old one kept;    *)
(* the settings stay locked while the gateway is stopped and started.      *)
ResetUnnoticed(t) ==
  /\ At(t, "reset", "start")
  /\ LockFree /\ settings # Torn
  /\ SaveSettings([settings EXCEPT !.token = drawn + 1])
  /\ drawn' = drawn + 1
  /\ GotoMarked(t, "ensure", {})
  /\ UNCHANGED <<loc, servers, settingsLock>>

ResetLocked(t) ==
  /\ At(t, "reset", "start")
  /\ LockFree /\ settings # Torn
  /\ SaveSettings([settings EXCEPT !.token = drawn + 1])
  /\ drawn' = drawn + 1
  /\ settingsLock' = t
  /\ Goto(t, "stop")
  /\ UNCHANGED <<loc, servers>>

(* reset_gateway_token: the new token is saved before the gateway that has *)
(* the old one is stopped.                                                 *)
ResetToken(t) ==
  /\ At(t, "reset", "start")
  /\ LockFree
  /\ \/ /\ settings # Torn
        /\ SaveSettings([settings EXCEPT !.token = drawn + 1])
        /\ drawn' = drawn + 1
        /\ Goto(t, "stop")
        /\ UNCHANGED loc
     \/ /\ \/ LoadSettingsFails /\ UNCHANGED <<settings, faults>>
           \/ settings # Torn /\ SaveFails
        /\ End(t)
        /\ UNCHANGED drawn
  /\ UNCHANGED <<servers, settingsLock>>

(* save_settings: settings that cannot be read count as the default ones.  *)
Readable == (IF settings = Torn THEN {} ELSE {settings})
            \cup (IF LoadSettingsFails THEN {DefaultSettings} ELSE {})

FormMarks(current, merged) ==
  (IF merged.port # current.port THEN {"port"} ELSE {})
  \cup (IF current = settings \/ settings = Torn THEN {} ELSE {"overtaken"})

SaveForm(t) ==
  /\ At(t, "save", "start")
  /\ LockFree
  /\ \/ \E current \in Readable :
          LET merged == MergeSettings(current, cmd[t].form) IN
          /\ SaveSettings(merged)
          /\ IF merged.binding # current.binding
               THEN GotoMarked(t, "stop", FormMarks(current, merged)) /\ UNCHANGED loc
               ELSE EndMarked(t, FormMarks(current, merged))
     \/ SaveFails /\ End(t)
  /\ UNCHANGED <<servers, settingsLock, drawn>>

-----------------------------------------------------------------------------
(* get_orb_metrics and get_orb_qa_history: what the metrics file does not  *)
(* tell, the Orb's server is asked for, and running_orbs stays locked      *)
(* until it has answered or its port has closed; nothing limits the wait.  *)
MetricsFile(t) ==
  /\ At(t, "metrics", "start")
  /\ \/ Goto(t, "fetch") /\ UNCHANGED loc
     \/ End(t)
  /\ UNCHANGED <<servers, conf, faults>>

StartedOn(o) == {proc[p].port : p \in {q \in Pids : proc[q].key = o}}

MetricsAsk(t) ==
  /\ At(t, "metrics", "fetch") /\ OrbsFree
  /\ \/ /\ cmd[t].orb \in listed
        /\ \E port \in StartedOn(cmd[t].orb) : loc' = [loc EXCEPT ![t].port = port]
        /\ Goto(t, "asking")
     \/ /\ cmd[t].orb \notin listed \/ StartedOn(cmd[t].orb) = {}
        /\ End(t)
  /\ UNCHANGED <<servers, conf, faults>>

Answered(t) ==
  /\ At(t, "metrics", "asking")
  /\ End(t)
  /\ UNCHANGED <<servers, conf, faults>>

Unanswered(t) == pc[t] = "asking" /\ Listening(loc[t].port)

MetricsStep(t) ==
  \/ MetricsFile(t)
  \/ MetricsAsk(t)
  \/ ~Unanswered(t) /\ Answered(t)

-----------------------------------------------------------------------------
(* A server binds its port when it has loaded, and exits if it is taken.   *)
BindOrExit(p) ==
  \/ /\ proc[p].st = "starting"
     /\ proc' = [proc EXCEPT ![p].st = IF Listening(proc[p].port) THEN "dead" ELSE "up"]
  \/ /\ proc[p].st = "dying"
     /\ proc' = Killed({p})

Settles(p) == BindOrExit(p) /\ UNCHANGED <<children, listed, foreign, conf, tasks, faults>>

Crashes(p) ==
  /\ Alive(p)
  /\ Fault
  /\ proc' = Killed({p})
  /\ UNCHANGED <<children, listed, foreign, conf, tasks>>

ServerStep(t, known) ==
  \/ StartLookup(t, known) \/ StartSettings(t) \/ StartSpawn(t) \/ StartInsert(t) \/ StartList(t)
  \/ Unlist(t) \/ StopChild(t)
  \/ BatchSettings(t) \/ BatchLock(t) \/ BatchLaunch(t, known)
  \/ EnsureEnter(t) \/ EnsureLoad(t) \/ EnsureProbe(t) \/ EnsureReuse(t) \/ EnsureChoose(t)
  \/ EnsureSpawn(t) \/ EnsurePoll(t) \/ EnsureInsert(t)
  \/ StatusLoad(t) \/ StatusReap(t) \/ StopGateway(t) \/ StopAdopted(t)
  \/ ResetToken(t) \/ SaveForm(t)
=============================================================================
