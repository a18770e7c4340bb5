----------------------------- MODULE RunnerState -----------------------------
(***************************************************************************)
(* What the commands of the desktop app (crates/mcporb-runtime-app) share: *)
(* settings.json with the lock in front of it, and the commands in flight. *)
(* A command is a task of its own: the ones declared async run on tokio's  *)
(* worker threads, the others one at a time on the main thread. A process  *)
(* that an MCP client starts beside the app is such a task too ("proxy"):  *)
(* it saves settings.json without the lock.                                *)
(***************************************************************************)
EXTENDS Naturals, FiniteSets, Sequences

CONSTANTS
  Orbs,       \* Orb ZIPs, told apart by their SHA-256
  Folders,    \* folders the user may pick as Orb library
  Tasks,      \* bound: commands in flight at once
  Ports,      \* bound: TCP ports
  PortRange,  \* GATEWAY_PORT_FALLBACK_RANGE
  MaxFaults,  \* bound: errors of the file system, deaths and kills, together
  Torn,       \* a file that was truncated and not written whole; it does not parse
  None

ASSUME RunnerConstants ==
  /\ Ports \subseteq Nat /\ Ports # {}
  /\ PortRange \in Nat
  /\ MaxFaults \in Nat
  /\ None \notin Orbs \cup Folders \cup Tasks
  /\ IsFiniteSet(Orbs)

VARIABLES
  settings,      \* settings.json, or Torn
  settingsLock,  \* the task that holds AppState.settings across an await
  drawn,         \* how many gateway tokens have been generated
  waiting,       \* commands of the script not issued yet
  cmd,           \* the command of each task, or None
  pc,            \* where it is
  loc,           \* its locals
  faults,        \* faults so far
  clash          \* what the properties make an exception for: the areas in which
                 \* commands have overlapped, and the marks some steps leave

conf == <<settings, settingsLock, drawn>>
tasks == <<waiting, cmd, pc, loc, clash>>

-----------------------------------------------------------------------------
(* default_registry_root()/Orbs, and the Orbs directories of the folders.  *)
Legacy == "legacy"
Dirs == Folders \cup {Legacy}

Bindings == {"localhost", "external"}

(* A bookmark is known by the folder it was made for, a token by when it   *)
(* was drawn, 0 being none.                                                *)
Settings == [dir : Folders \cup {None}, mark : Folders \cup {None}, onboard : BOOLEAN,
             port : Ports, token : Nat, binding : Bindings]

ASSUME TornUnlike == Torn \notin Settings

BasePort == CHOOSE p \in Ports : \A q \in Ports : p <= q

DefaultSettings == [dir |-> None, mark |-> None, onboard |-> FALSE, port |-> BasePort,
                    token |-> 0, binding |-> "localhost"]

(* Mutants: the folder changes under the bookmark; the form's empty token  *)
(* is taken for the token.                                                 *)
KeepsMark(current, form) ==
  [current EXCEPT !.port = form.port, !.binding = form.binding,
                  !.dir = IF form.dir = None THEN @ ELSE form.dir]
DropsToken(current, form) ==
  [current EXCEPT !.port = form.port, !.binding = form.binding, !.token = 0]

(* What the Settings form sends is laid over the stored settings.          *)
MergeSettings(current, form) ==
  [current EXCEPT !.port = form.port,
                  !.binding = form.binding,
                  !.dir = IF form.dir = None THEN @ ELSE form.dir,
                  !.mark = IF form.dir \in {None, current.dir} THEN @ ELSE None]

WithLibrary(current, folder) ==
  [current EXCEPT !.dir = folder, !.mark = folder, !.onboard = TRUE]

(* What the front end can invoke: an Orb is named by its card, a folder is *)
(* picked in the panel, a form is the Settings form.                       *)
Forms == [dir : Folders \cup {None}, port : Ports, binding : Bindings]

Commands ==
  [op : {"import"}, orb : Orbs, from : Dirs \cup {None}, valid : BOOLEAN]
  \cup [op : {"remove", "start", "stop", "metrics"}, orb : Orbs]
  \cup [op : {"batch"}, orbs : Seq(Orbs)]
  \cup [op : {"pick"}, folder : Folders]
  \cup [op : {"save"}, form : Forms]
  \cup [op : {"migrate", "delete", "cancel", "ensure", "status", "reset", "stopgw", "dismiss", "close", "proxy"}]

ASSUME CommandsUnlike == None \notin Commands

-----------------------------------------------------------------------------
NoLocals == [reg |-> <<>>, todo |-> {}, moved |-> {}, olds |-> {}, dir |-> None, orb |-> None,
             port |-> 0, base |-> 0, token |-> 0, binding |-> "localhost", pid |-> None,
             seen |-> DefaultSettings]

Op(t) == IF cmd[t] = None THEN "none" ELSE cmd[t].op
At(t, op, label) == Op(t) = op /\ pc[t] = label

GotoMarked(t, label, marks) ==
  pc' = [pc EXCEPT ![t] = label] /\ clash' = clash \cup marks /\ UNCHANGED <<waiting, cmd>>

Goto(t, label) == GotoMarked(t, label, {})

(* The command returns, with or without an error.                          *)
EndMarked(t, marks) ==
  /\ cmd' = [cmd EXCEPT ![t] = None]
  /\ pc' = [pc EXCEPT ![t] = "idle"]
  /\ loc' = [loc EXCEPT ![t] = NoLocals]
  /\ clash' = clash \cup marks
  /\ UNCHANGED waiting

End(t) == EndMarked(t, {})

Fault == faults < MaxFaults /\ faults' = faults + 1

LockFree == settingsLock = None
Unlock(t) == settingsLock' = IF settingsLock = t THEN None ELSE settingsLock

(* A save truncates the file and writes it; it may fail before or between. *)
SaveSettings(new) == settings' = new /\ UNCHANGED faults
SaveFails == Fault /\ settings' \in {settings, Torn}

(* They do not parse when torn, or when read while a process beside the    *)
(* app is writing them: within the app the lock keeps reads and writes     *)
(* apart.                                                                  *)
LoadSettingsFails == settings = Torn \/ \E u \in Tasks : At(u, "proxy", "saving")

-----------------------------------------------------------------------------
(* Commands that write the same things, as far as a user would keep them   *)
(* apart.                                                                  *)
Area(op) ==
  IF op \in {"import", "remove", "migrate", "delete"} THEN {"library"}
                                                      ELSE {}
Serves(op) ==
  IF op \in {"ensure", "status", "stopgw", "reset", "save"} THEN {"gateway"}
  ELSE IF op \in {"start", "stop", "remove", "batch"} THEN {"servers"}
  ELSE IF op = "close" THEN {"library", "gateway", "servers"} ELSE {}

Areas(op) == Area(op) \cup Serves(op)

(* Commands that are not async run on the main thread, one at a time. The  *)
(* buttons of the library dialogue are disabled while it migrates.         *)
MayIssue(op) ==
  /\ op = "import" => \A t \in Tasks : Op(t) # "import"
  /\ op \in {"migrate", "delete"} => \A t \in Tasks : Op(t) \notin {"migrate", "delete"}

Issue(t) ==
  /\ cmd[t] = None
  /\ \E c \in waiting :
       /\ MayIssue(c.op)
       /\ waiting' = waiting \ {c}
       /\ cmd' = [cmd EXCEPT ![t] = c]
       /\ clash' = clash \cup {a \in Areas(c.op) : \E u \in Tasks : a \in Areas(Op(u))}
  /\ pc' = [pc EXCEPT ![t] = "start"]
  /\ UNCHANGED <<loc, conf, faults>>

-----------------------------------------------------------------------------
(* get_settings changes nothing; dismiss_onboarding sets one flag.         *)
Dismiss(t) ==
  /\ At(t, "dismiss", "start")
  /\ LockFree
  /\ \/ settings # Torn /\ SaveSettings([settings EXCEPT !.onboard = TRUE])
     \/ LoadSettingsFails /\ UNCHANGED <<settings, faults>>
     \/ settings # Torn /\ SaveFails
  /\ End(t)
  /\ UNCHANGED <<settingsLock, drawn>>
=============================================================================
