# MCPOrb in TLA+

MCPOrb packages documents into *Orbs*: self-contained MCP servers that search
their own knowledge. This directory holds TLA+ models of the parts of MCPOrb
where steps of several actors meet, the TLC runs that check them, and theorems
about them whose proofs TLAPS checks.

    tlc -workers 2 -config MCGatewaySafety.cfg MCRuntimeManager
    tlapm RuntimeManagerProofs.tla

`PROJECT.json` lists the components, the runs, for every definition the source
lines it models, the hazards and the properties that cover them, and for each
checked property a mutant of the code that breaks it.

## 1. Inventory

Paths are relative to `src/crates/`.

### Gateway: runtime manager (`mcporb-gateway-core/src/runtime_manager.rs`)

- **State.** `orbs`, the list read from `registry.json`, and `processes`, a map
  from slug to Idle, Running or Failed, each behind a tokio `RwLock`. A Running
  entry owns a child process, its stdin, `pending_requests` (id to oneshot
  sender), `next_id` and `last_used`.
- **Operations.** `forward_request` / `ensure_orb` / `spawn_orb_process` /
  `forward_request_inner`, `refresh_registry`, `start_watcher`, `start_reaper`,
  `kill`, `shutdown`.
- **Interaction.** One task per client request shares the children; each child
  has a reader task that routes its stdout; a watcher task (file notifications)
  and a reaper task (every 30 s) reload the registry; the app, another program,
  rewrites `registry.json`.
- **Hard.** Two calls spawn the same Orb at once; a refresh or `kill` removes an
  Orb between two lock acquisitions of a call; a child dies, hangs, or answers
  before the waiter is registered or after it gave up; `try_read().unwrap()`.
- **Correct means.** Each answer reaches the call that asked; at most one child
  per Orb and none outside the map; the list follows the registry; every call
  ends; shutdown leaves no child.

### Gateway: handler, router, registry reader, front ends

`handler.rs`, `router.rs`, `registry_reader.rs`, `mcporb-gateway-stdio`,
`mcporb-gateway-http`. The handler answers `initialize`, `ping`, `tools/list`
itself and forwards `tools/call` and `resources/read` after splitting
`<slug>__<tool>`. Stdio starts one task per line and one writer task fed by a
channel; HTTP runs the handler inside the request future, which a disconnecting
client drops. **Hard**: ordering of the shutdown against tasks still running;
cancellation in the middle of a write. **Correct means**: a listed name reaches
the Orb that listed it; every request gets its response, at the end of the input
too; a client that leaves costs the others as little as possible; no child
outlives the gateway.

### Runtime: MCP and web handlers (`mcporb-runtime/src/{mcp_handler,api,web_server}.rs`)

One loop over standard input, or one web server, per process; both search,
record, and write the metrics. **Hard**: the gateway lists an Orb's search
methods from the manifest, the runtime accepts them by the indexes it has
loaded, and fills in a vector by what the embedder, the model and the caller
give. **Correct means**: what is listed is not refused.

### Runtime: unlock gate (`mcporb-runtime/src/{main,security,state,device_unlock}.rs`)

- **State.** `SecurityState` (`unlocked`, the failed attempts), `OrbState`
  (`knowledge`, a `OnceCell`; `encrypted_blob`), the device keychain.
- **Operations.** `perform_unlock`, `finish_unlock`, `try_auto_unlock`, the
  priming at start-up, and the gates in `mcp_handler.rs`, `api.rs`,
  `web_server.rs`.
- **Interaction.** Requests of one process, several processes of one Orb, and
  the app, through the keychain.
- **Hard.** `finish_unlock` is a sequence of stores without a common lock;
  automatic and manual unlocks overlap; the process may end between two stores.
- **Correct means.** Nothing is served before a password that opens the Orb was
  offered; nobody behind the gate finds the knowledge missing; only verified
  keys are remembered; guessing does not reset the throttle.

### Runtime: metrics (`mcporb-runtime/src/state.rs`, `mcporb-runtime-app-core/src/metrics.rs`)

Counters and a ring of questions and answers, written whole to one file per Orb
by every process of it. **Hard**: the last writer wins; the file is truncated
before it is written; paging at the ring's limit. **Correct means**: processes
that take turns lose no count, pages neither skip nor repeat.

### Embedding model download (`mcporb-embed/src/downloader.rs`)

A cache directory shared by every runtime on the machine: fetch to `.tmp`,
unpack into `.staging`, replace the installed model. **Hard**: two processes at
once, a crash between removing the old model and renaming the new one into
place. **Correct means**: a model that counts as cached is complete; the old one
is touched only when a whole new one is ready (it may be lost from there on:
section 8).

### Search runtime (`mcporb-runtime-core/src`)

BM25, TF-IDF, trigram and vector scores, merged by reciprocal rank fusion. Pure
functions. **Correct means**: each chunk once, at most `top_k`, none dropped
before its turn, and an order all rankers agree on is kept.

### App: registry, settings (`mcporb-runtime-app-core/src/{registry,zip_import,settings}.rs`)

`registry.json` and the ZIP and data directories of the installed Orbs: import,
remove, migrate. **Hard**: load, change and save without a lock, against
another command; files moved one by one, a migration that fails half-way, a kill
at any of these points. **Correct means**: commands that do not overlap leave
every entry's ZIP whole; no failure loses an Orb that was not being deleted; a
move that fails is put back, and a registry that cannot be saved afterwards
leaves every moved ZIP whole; the Settings form spoils neither token nor bookmark.

### App: Orb servers and unified gateway (`mcporb-runtime-app/src/main.rs`)

Starts, adopts, stops and re-keys one gateway process and starts Orbs over
HTTP. **Hard**: overlapping commands, processes left by an earlier run, ports in
use. **Correct means**: at most one gateway with the token in use, started with
the settings that are stored; the app stops what it has started; every command
returns. Section 6 says when it is otherwise: processes beside the app save the
settings without its lock, a command that overlaps the closing keeps its child,
and a query of an Orb's metrics may wait for ever.

### The rest

App search, passwords, client configuration and store client (sequential
transformations of files, JSON and HTTP answers without state between calls),
start-up parsing and ciphers (calls into libraries), user interface (calls the
app's commands), macOS file access, the mock child and the size experiment
(not part of the running system).

## 2. Plan

| # | module(s) | composes / refines | status |
|---|---|---|---|
| 1 | `RuntimeManager`, `OrbPool` | refines `OrbPool` | modelled, checked, proved |
| 2 | `Unlock`, `OrbGate` | refines `OrbGate` | modelled, checked, proved |
| 3 | `ModelDownload`: the cache directory, failing sources, crashes | | modelled, checked, proved |
| 4 | `RunnerState`, `OrbLibrary`, `LibraryChange`: the app's settings, the installed Orbs, a change of library folder | | modelled, checked, proved through 5 |
| 5 | `OrbServers`, `Runner`: the processes the app starts, its launches, closings and kills | `Runner` composes 4 and 5 | modelled, checked, proved |
| 6 | `Names`, `SearchMethods`, `RankFusion`: pure operators | | modelled, checked through 7; `Names` and `RankFusion` proved |
| 7 | `OrbProcess`, `Serving`: an Orb's process and its metrics; requests through the front ends, the handler and the children | `Serving` composes 6 and 7 | modelled, checked, proved |

The order is by what can go wrong: the gateway has the most actors, the gate
guards the data, and 3 to 5 have crashes and several processes. Recursion is
written as folds or recursive functions. Every safety and action property that a
passing run checks is a theorem; liveness is not: section 9 says why.

## 3. The gateway: `RuntimeManager`

### State and actions

| variables | code |
|---|---|
| `file`, `events` | `registry.json` (`None` between the truncation and the write of a save), the watcher's channel |
| `listed`, `status` | `orbs`, `processes` (tag, or the child that is Running) |
| `lock` | write guard on `processes` held across an await: by a call that writes to a child, or by a refresh |
| `pc`, `slug`, `target`, `reqId`, `waited`, `mail` | a handler task's position and locals, its oneshot receiver |
| `tpc`, `snap` | watcher and reaper: position, and the list they have read |
| `child`, `stdin`, `stdout` | the child processes and their pipes |
| `pending`, `nextId`, `age` | `OrbProcess.pending_requests`, `next_id`, `last_used.elapsed()` |

A call goes through `Lookup` (find_orb), `Ensure`, `Spawn`, `ZipTaken` or
`ZipFailed` (macOS, an Orb the child cannot read itself: its ZIP goes down the
child's stdin, before any timer runs), `InitAnswered` or `InitFailed` (the ten
seconds, or a failed write), `CommitSpawned` or `CommitFailed` (`ensure_orb`),
`Forward`, `BeginWrite`, `Flush`, `Register` (`forward_request_inner`) and ends
in `Receive`, `TimedOut`, `Disconnected` or a refusal. `Route` is the reader
task. A refresh is `ReadRegistry`, `Swap`, `Release`; the reaper goes on with
`Reap`. Steps are cut where the code awaits.

### Abstractions

- `ViaStdin` names the Orbs whose ZIP goes down the child's stdin; writing it is
  one step, which the child allows when it likes, or never.
- A line is its id and the call whose question it carries. Pipes are sets: a
  real pipe is FIFO, so the model has more interleavings than the program.
- A call spawns at most one child, so children are named by calls.
- `Kill` and `Reap` are one step each: the code holds the lock throughout.
- `Shutdown` runs after all calls have ended, as at the end of the stdio
  gateway's input. The exit through a broken stdout is in `Serving`.
- A batch is a sequence of calls; batches and cancelled HTTP futures are in
  `Serving`.
- `list_orb_statuses` changes nothing and only tests call it.
- `KillSlugs` stands for an embedding program's use of the public `kill`.

### Runs

| run | instance | shows |
|---|---|---|
| `gateway_safety` | 2 calls, 2 slugs, `kill`, reaper, a registry that may list a slug twice or drop one | `AnswersMatch`, `NoStrayChild`, `ListedHaveStatus`, `NoChildAfterShutdown`, `ReaperSparesWaiting`, `RefreshKeepsRunning` and `ImplementsPool` hold |
| `gateway_calls` | 2 calls, 1 slug whose ZIP goes down stdin, a pipe of one line, reaper, fair | `EveryCallEnds`: though children hang or die, every call ends, unless it or the call that holds the lock writes for ever to a child that does not read |
| `gateway_registry` | 1 call, 2 slugs, watcher and reaper, saves, fair | `TypeOK`, and `RegistryApplied`: once the file rests the list equals it and removed children are gone, with the same exception |
| `gateway_routing` | 1 call | **violated**: an answer that precedes its waiter is dropped (`EveryAnswerRouted`) |
| `gateway_torn_read` | 1 call, 1 Orb in every registry | **violated**: a half-saved registry kills the children of installed Orbs (`InstalledOrbsKept`) |
| `gateway_panic` | 1 call | **violated**: a lookup during a refresh panics (`NoCallPanics`) |

Bounds: two calls are what a double spawn, an id clash, a late answer and an
overtaken commit need; two slugs separate an Orb that stays from one that goes.
`RequestTimeout = IdleTimeout = 1` lets the two timers expire in either order,
the equality being the tightest case `ReaperSparesWaiting` allows. `PipeLines =
1` fills the pipe with the first of two calls' lines; in the other runs two
lines fit, so that two calls are under way on one child. `EventCap = 1` makes
the watcher's channel overflow. All of the constants are arbitrary in the
proofs. Calls are interchangeable, so `gateway_safety` uses symmetry; the
liveness runs do not.

The code bounds every wait for an answer, and no write. Two writes can last for
ever, and are the exceptions (`HeldUp`) of the two liveness properties: the ZIP
to a child that hangs before it has read it (`runtime_manager.rs:578-585`), which
keeps one call, without a lock; and a request into a full pipe, which keeps the
lock on `processes` and with it every call. The real pipe holds 64 KiB, so the
second needs that much unread input.

Fairness (`FairSpec`): weak for the tasks' own steps, the reader tasks, time and
the completion of a save; strong for taking the lock, since tokio's `RwLock`
queues its waiters first come, first served. Children promise nothing: not to
read their ZIP, not to answer `initialize` or a request. They may hang for ever,
and the code's timeouts must do.

### Proofs

`RuntimeManagerProofs` proves `TypeOK`, the safety properties of
`gateway_safety`, and the refinement of `OrbPool`, for any calls, slugs,
registries, timeouts and capacities; `ReaperSpares` assumes `RequestTimeout <=
IdleTimeout` (the defaults are 60 s and 300 s). The inductive invariant is a
conjunction of named parts:

- `TargetOK`, `IdsDistinct`: a call that has written has a target spawned for its
  own slug, and two calls with one target have different ids below its `next_id`;
- `LinesOK`, `MailOK`: every line in a pipe or among the waiters of a child
  carries its call's own id, and so an answer is to the question asked.
  `AnswersMatch` alone is not inductive: it says nothing of answers under way;
- `EntriesOK`, `Unspawned`, `NoStrayChild`: a Running entry is for the slug its
  child was spawned for, and a call that has not spawned has no child; needed for
  the loser of a double spawn;
- `AllEnded`: after shutdown no call is left to spawn again;
- `WaitersFresh`: a waiting call has waited at least as long as its child has
  been unused, which is what lets the request timer expire before the idle timer.

## 4. The password gate: `Unlock`

### State and actions

A task is a request, or the start-up of a process. Keys are "right", "wrong" or
"none": Argon2, HKDF and the cipher are functions of the password.
`Read`, `Search` and `Password` are the arrivals at the gates of
`mcp_handler.rs`, `api.rs` and `web_server.rs`. `Recall`, `Forget`, `Cleanup` are
`try_auto_unlock`; `Accept`, `Reject`, `NoPayload`, `RecordFailure`, `Publish`,
`ClearBlob`, `SetUnlocked`, `ResetFailures`, `Remember` are `finish_unlock` and
`perform_unlock`, a step for each store another task can see. `Relaunch` ends a
process at any point and starts it again. `AppRemembers` is the app writing the
keychain when it imports an Orb (`password.rs`).

### Abstractions

Only password-protected Orbs. A bundle decrypted with the right key parses.
The two `is_unlocked` checks that follow one another (handler, then
`perform_unlock`) are one. A recall may come back empty (the user has not yet
answered the keychain's dialog); writes to the keychain may fail, as the code
ignores their errors. The delay that grows with the failures is left out, its
counter is not.

### Runs

| run | instance | shows |
|---|---|---|
| `unlock_safety` | 1 process, 3 requests, 1 relaunch | `TypeOK`, `KnowledgeBehindGate`, `LaunchOpens`, `OnlyRightKeysRemembered`, `ThrottleKept` and `ImplementsGate` hold |
| `unlock_key_dropped` | 2 requests | **violated**: a retry of the remembered key that meets an unlock in progress deletes the right key (`OnlyInvalidDropped`) |

Bounds: three requests let one search, one guess and one right password overlap
in a process; one relaunch passes on what was left in the keychain;
`AttemptMax = 2` reaches the saturation that `u32::MAX` stands for. Every
packaging of the Orb and every content of the keychain is an initial state.
Processes meet only in the keychain, whose every content another process can
write is covered by `AppRemembers` and the best-effort deletions; the proofs
hold for any number of processes.

### Proofs

`UnlockProofs` proves every property of `unlock_safety`, and the refinement of
`OrbGate`, for any processes, requests and bounds. The inductive invariant
`Inv` adds to `TypeOK`:

- `Placed`: a request has a home exactly when it has arrived, and its process
  serves until the request ends or is lost;
- `Progress`: what a task at each step of `finish_unlock` has established (the
  key is right from `publish` on; the knowledge is there from `clear` on), which
  is what makes `KnowledgeBehindGate` inductive under any overlap of unlocks;
- `Untouched`: a process that is starting holds its ciphertext until its own
  unlock clears it (no request can yet), and gives a key up only if it does not
  open the Orb; `LaunchOpens` rests on it.

## 5. The model cache: `ModelDownload`

### State and actions

`current`, `staging`, `tmp` and `bundle` are what is in `~/.mcporb/models`: a
directory is a function from names to contents, `None` if it does not exist. A
content is "good" (the pinned bundle, or a file of it), "bad" (something else
that can be unpacked) or "old". `pc`, `attempt`, `got` and `seen` are a runtime's
position in `start_for_manifest`, `download` and `try_one`; `slot` is its
`EmbedderSlot`.

Steps are file-system operations. `current/` is removed entry by entry, in any
order, because a runtime that ends in between leaves the rest; the removal of
`.tmp/` and `.staging/` is one step, since the next attempt removes them whatever
is left. `bundle.writers` says who has opened the file at that path, so that a
runtime whose file was unlinked or truncated by another is told from one whose
file is intact. A load of files that are not the pinned ones may fail or succeed.
`Files` stands for the files the embedder reads.

### Runs

| run | instance | shows |
|---|---|---|
| `model_cache` | 1 runtime, 2 files, 2 sources, 2 relaunches, fair | `TypeOK`, `InstallsVerified`, `OldGoesLast`, `HotLoadFinds`, `EveryLaunchSettles` hold |
| `model_cache_shared` | 2 runtimes, no relaunch | **violated**: one runtime empties the other's `.staging/`, which is then installed with its marker and without files (`InstallsVerified`) |

Bounds: with two files a directory can be half filled; the second source is
tried over what the first left; a second relaunch meets what the first one's
recovery left. The cache is found empty, whole, outdated or damaged.

Fairness is weak for a runtime's own steps. Nothing is assumed of a source: the
HTTP client is built without a timeout, and `EveryLaunchSettles` excepts a
runtime that waits for one for ever.

### Proofs

`ModelDownloadProofs` proves `TypeOK` for any number of runtimes, and
`InstallsVerified`, `OldGoesLast` and `HotLoadFinds` under `Alone` (one runtime
has the cache to itself), which the second run shows to be necessary for
`InstallsVerified`. The inductive invariant `Attempts` says what an attempt has
established at each step: `Fetched` (the file at the bundle's path is the one it
opened, then the one it verified), `Unpacking` (each unpacked file is good, then
all are there, then the marker too), `Installed`.

## 6. The app: `Runner`

### State and actions

`RunnerState` holds `settings.json`, the lock in front of it and the commands in
flight; `OrbLibrary` and `LibraryChange` the commands on the installed Orbs;
`OrbServers` those on the processes; `Runner` composes them with launching,
closing and killing the app.

| variables | code |
|---|---|
| `settings`, `settingsLock`, `drawn` | `settings.json` (or `Torn`), who keeps `AppState.settings` locked across an await, the tokens generated so far |
| `waiting`, `cmd`, `pc`, `loc` | commands still to be issued, and for each task its command, position and locals |
| `registry`, `zips`, `volume` | `registry.json` (or `Torn`), each Orb's ZIP in each directory, the volume a directory is on |
| `orbsDir`, `pending` | `RegistryStore.orbs_dir_override`, `AppState.pending_library_pick` |
| `children`, `listed` | `running_children`, `running_orbs` (a query of metrics at "asking" and a batch at "holding" keep them locked) |
| `proc`, `foreign` | the processes (those of earlier launches too), ports other programs listen on |

A step is one access to a file, a directory entry, a lock or a port, so another
command, an error or a kill comes between any two. A save truncates and then
writes: a reader may meet the torn file, an error or a kill may leave it.
Commands that the code runs on the main thread (`import_orb_zip`) or behind a
disabled button (migrate, delete) do not overlap themselves (`MayIssue`).
`MoveOne` is `move_file`: a rename, and where that fails, always between volumes,
a copy and an unlink. `Relaunch` ends the app: files being written stay half
written, locks and memory are gone, child processes live on unless they were
killed, and `Launched` is what `main()` makes of what it finds. It asks for a
folder if none is stored or the stored one is not there, and saves the pick, or a
bookmark that macOS has renewed; that save may fail or tear the file.

Closing the app is three steps. `Clear` waits for `running_orbs` and empties it,
`Drain` takes the children out of their map, `Quit` kills these and ends the
process. A query of metrics (`MetricsFile`, `MetricsAsk`, `Answered`) asks the
Orb's server with `running_orbs` locked and without a timeout; the port it asks is
that of a process started for the Orb. `list_running_orbs` waits for the same
lock, changes nothing, and is left out.

An MCP client may start the same program with `--mcp-stdio` or `--gateway-stdio`
beside the app. It has no instance guard, and its `main()` reads, and after a
renewed bookmark saves, the whole `settings.json` without the app's lock
(`main.rs:1765-1778`): `ProxyResolve`, `ProxyLoad`, `ProxySave`. One that is at it
when the app is launched again is followed no further.

`clash` and `spoiled` are history variables for the properties. `clash` holds
the areas (library, gateway, servers) in which two commands have overlapped, and
marks: `self` (an import of the library's own copy), `twice` (a server started
twice), `picked` (a folder picked at launch, which is stored and not yet used),
`unread` (settings that did not parse at a launch), `overtaken` (settings saved
by a process beside the app that were out of date by then, or that a command of
the app held), `port` (the port was edited), `slow` (a probe timed out).
`spoiled` holds the Orbs one of whose ZIPs a command has unlinked or truncated,
and whose registered ZIP has not been whole since.

### The run `app`

| property | shows |
|---|---|
| `LibraryIntact` | library commands that do not overlap and meet no error leave every entry's ZIP whole where `registry.json` says |
| `NothingLost` | wherever an error or a kill interrupts a migration, every other installed Orb has a whole ZIP somewhere |
| `FailedMigrationUndone` | when a single error makes a migration within a volume fail at a move, every ZIP is back when it returns; when it fails at the save of the registry, every ZIP it has moved is whole in the new folder |
| `LibraryFits` | a stored bookmark is that of the stored folder, and imports go there |
| `TokenKept` | a token in use changes only by its reset, in any overlap of commands |
| `OwnedMatches` | the gateway the app owns was started with the token and binding that are stored, once gateway commands that do not overlap have returned |
| `OneGateway` | launches do not pile up gateways with the token in use |
| `NoOrphans` | what this launch has started is found by stop, remove and shutdown, or is in the hands of a command, whatever overlaps |
| `ClosesClean` | closing ends what the app has started, but for what a command overlapping it still holds or has just put among the children |
| `EveryCommandEnds` | every command returns, unless a query of metrics is never answered |

The exceptions are in the formulas, and are what the code does:

- Overlapping library commands load, change and save the registry without a lock
  and lose one another's entries (`LibraryIntact`, `NothingLost`,
  `FailedMigrationUndone` are about commands that do not). An import of the
  library's own copy onto itself (`zip_import.rs:275`) truncates what it is about
  to read.
- A migration whose last step, `save` at `registry.rs:181`, fails puts nothing
  back: the registry names the old places, and the ZIPs are in the new folder.
- Overlapping gateway commands start two gateways, or one with the settings of
  before (`OwnedMatches`, `OneGateway`); so do an edited port and a probe that
  is answered too late (`OneGateway`).
- A process beside the app may write an old token, binding or folder over what
  the app has just saved, and a command that reads the settings while it writes
  takes them for unreadable: `TokenKept`, `LibraryFits`, `OwnedMatches` and
  `OneGateway` except a history with `overtaken`, and `TokenKept` one in which a
  launch could not read them. `LibraryFits` says nothing of a bookmark that was
  dropped, of a folder picked at launch, or after an error.
- A second start of a server drops the first child without killing it
  (`NoOrphans`, `ClosesClean`).
- A command that runs while the app closes may insert a child after the drain, as
  a batch or a start does, or be polling one that is in no map yet, as the
  launch's own search for a gateway is (`ClosesClean` names these children). All
  else that was started is dead.
- `get_orb_metrics` and `get_orb_qa_history` keep `running_orbs` locked while they
  wait for a server (`main.rs:1315-1317`, `1340-1348`), by a client without a
  timeout (`metrics.rs:92`, `115`). As long as the server listens without answering,
  that query does not return, nor does a start at its end, a stop, a removal or
  the closing at its beginning, another query, or a batch; a batch that waits
  holds `running_children`, and with it every command that needs the children
  (`HeldUp`). Of the commands modelled none waits without end but these.

Section 8 lists what the repository says otherwise.

Bounds. A run starts in one of the worlds of `MCRunner`: two Orbs in two places,
moved or deleted within a volume and across (`ChangeWorlds`); imports and
removals while a folder is chosen (`ImportWorlds`); a gateway that is to be
found, was left by an earlier launch, finds its port taken, is re-keyed or
re-bound (`GatewayWorlds`); Orb servers, started, stopped, asked for their
metrics and closed upon (`OrbServerWorlds`); a process that renews the bookmark
while settings are saved (`ProxyWorlds`). Two commands at once are what an
overlap needs, or a query that keeps one other waiting (that a third command
waits for a batch that waits for a query is not reached); two Orbs let a
migration fail after the first; two folders beside the app's own tell old, new
and legacy apart; three ports with `PortRange = 1` have one to fall back on and
one the fall-back does not reach; four processes hold the gateways of two
launches and two servers. `MaxFaults = 1` puts one error, death or kill at every
point. Past the bounds on processes and ports a spawn fails, which the code
handles.

Fairness: tokio runs every task, and a process that was started gets to bind its
port or exits; nothing is assumed of a server's answers or of a user. A child
that answers too late is given up, as the code's polls do.

### Proofs

`RunnerProofs` proves every safety and action property of the run, and
`TypeOK`, for any Orbs, folders, ports, processes, faults and worlds, and any
number of commands at once. Only `EveryCommandEnds` is left to TLC.

Assumed of the constants: ports are numbers and there is one; Orbs and processes
are finite sets (`RunnerConstants`, `ServerConstants`); `None`, `Torn` and the
gateway's key differ from what they stand beside (`TornUnlike`, `RegistryUnlike`,
`CommandsUnlike`); and a world has the fields `Init` reads (`WorldsGiven`). TLC
evaluates all of them.

The inductive invariant grows in layers, and each theorem uses what it needs:

| conjunct | says | gives |
|---|---|---|
| `Typed` | `TypeOK`, and which locals a command has at each label | `TypeOK` |
| `Inv` | a command at a label under the lock has it (`LockHeld`); the settings a folder choice has read are still stored, unless overtaken (`PickReads`); what is stored has its fields (`Stored`) | `TokenKept`, `LibraryFits` |
| `Alone` | who issues a command beside another of its area is in `clash`; the app is closed once in a launch | what follows |
| `ServersKept` | `Keyed`: a child is under its own key; `AllKept`: a live process of this launch is in the map or in the hands of the command that starts or stops it (`Held`), unless an Orb was started twice; `GatewayKept`: with gateway commands apart there is no child under the gateway's key while one is being started | `NoOrphans`, `ClosesClean` |
| `OwnedFits` | what a command read before it spawns is what is stored, and the gateway it owns matches, unless it is about to be stopped | `OwnedMatches` |
| `TokensDrawn`, `OneServes` | unless overtaken, a token in use was drawn; of the gateways with the stored one there is at most one, on a port a probe reaches, and none while one is about to be started | `OneGateway` |
| `LibraryKept` | below | `NothingLost`, `LibraryIntact`, `FailedMigrationUndone` |

`PickReads` is what the last step of a folder choice needs: it writes settings
it read before, under the lock that `LockHeld` gives it. A process beside the
app does not ask for that lock, hence `overtaken` there. `AllKept` holds through
any overlap, which is why `NoOrphans` and `ClosesClean` except only a second
start. `WithLibraryKeeps` and `MergeSettingsKeeps` say what a folder choice and
the Settings form do to stored settings. `Evolves` and `Fades` say of each step
that a process keeps key, token, binding and port to its end, so that a step
that starts none cannot make two gateways of one.

`LibraryKept` is about library commands that do not overlap. None of the three
properties is inductive, for each speaks of the files alone and a command goes by
what it has read and moved:

- `PhaseKept`: the registry a command has read is still the registry
  (`RegKept`); an import that has filled its file has it whole, unless it was its
  own source (`ImportKept`); what a migration still has to move is where the
  registry says, and what it has moved is at the folder and no longer where it
  was, so that neither the next move nor the rollback overwrites the only copy
  (`MovesKept`); a deletion has only what is stored under the old folders in hand
  (`ErasesKept`).
- `Sound`: every registered ZIP that is not spoiled is whole where it is
  registered, or gone from there and whole elsewhere. It holds through any
  errors and kills, and gives `NothingLost`.
- `Homed`: before the first error, and in the rollback after it, a ZIP that is
  not where it is registered was moved by a command still on its way. With the
  rollback's end, and with `PhaseKept` at the save that fails, it gives
  `FailedMigrationUndone`.
- `Clean`: before the first error, a registered Orb that is spoiled is in the
  hand of the command that will drop, replace or forget it. With `Homed` it gives
  `LibraryIntact`.

TLC checked `LibraryKept` as an invariant with `MaxFaults = 2` before it was
proved. `LoneKept` is the same for the one command that is in the library, and
has a lemma for each of its steps.

## 7. Requests: `Serving`

### State and actions

`Serving` follows a request from the client to the Orb and back:

| module | code |
|---|---|
| `Names` | `slugify` and the joining and splitting of names (`registry.rs`, `registry_reader.rs`, `router.rs`), as functions on sequences of characters |
| `SearchMethods` | the methods listed and accepted, `auto_fill_query_vector`, the rankers a method asks |
| `RankFusion` | what rankers may answer, `rrf_fuse`, and what is asked of it (`WellFused`) |
| `OrbProcess` | an Orb's process, as a gateway's child or the app's web server: its loop, its searches, its metrics in memory and on disk |
| `Serving` | the two front ends, the handler, the line to a child, the answer, the end of either gateway |

| variables | code |
|---|---|
| `gate`, `loop`, `channel`, `writer` | the stdio gateway's `main`: input, the reading loop's own answers, the response channel, the writer task |
| `pc`, `todo`, `replies`, `target`, `got` | a request's task: position, items of its batch left, answers, the child written to; who has a response |
| `lock`, `child`, `half`, `buffer` | the guard on `processes` held during a write, the map, and what a dropped write has left in a child's pipe or `BufWriter` |
| `proc`, `pipe`, `busy`, `found` | the processes, their standard input, the item each works on, the search it has run |
| `mem`, `file`, `recorded` | `Metrics` in memory, the metrics file (or `Torn`), and the searches that were in fact recorded |

### Abstractions

- Of `RuntimeManager` only what a request passes is here. The answer that
  precedes its waiter, hung children and refreshes are there; the password gate
  is in `Unlock`. A child that lives answers what reaches it within the 60 s.
- Of scores only the order is kept, and every order is possible; `f32` rounding
  is left out, so contributions are whole parts of a common denominator.
- The cargo features are those shipped, plus a runtime without the embedder.
- The web server runs one search at a time; `Web` is its process.
- Characters are "a", "b", their capitals, "-", "_" and others; `SlugMax = 3`
  stands for 46.

### The run `serving`

| property | shows |
|---|---|
| `ListedMethodsAnswer` | a search by a listed method is never refused as unsupported, and fails only for want of a vector that fits |
| `ListedNamesRoute` | a listed name reaches the Orb that listed it, and a document comes back under the name it was asked for by; unless the slug is empty or another Orb's too |
| `DominanceKept` | what every ranker prefers stays above, and the list is cut only at its end |
| `MetricsKept` | processes of an Orb that take turns lose no search from what the app shows; pages show the last entries once each |
| `OneLostPerCut` | a client that leaves in the middle of a line costs the others at most one answer |
| `EveryRequestAnswered` | every request has its response in the end, at the end of the input too, unless its client left, stdout was closed or the gateway killed |
| `NoChildOutlives` | however the gateway ends, its children end |

Bounds. The worlds of `MCServing` are: pairs of requests and batches over stdio
(`Stdio`), clients that leave and clients that are not let in (`Http`), every
kind of package with every method, embedder and vector (`Searches`), names with
odd or equal slugs (`Routes`), and searches from two processes or through both
ways into the web server (`Counted`). Two requests are what a glued line, a
shared lock and a full channel need; three chunks let two rankings differ in
length and in order; `RingMax = 2` overflows with three searches; the channel
holds one response, so that its sender waits. `MaxDeaths = 1` lets one child die
or the gateway be killed.

Fairness (`Fairness`): tokio runs every task, its `RwLock` and its channel serve
those who wait in turn (strong fairness for a task's steps), and children and
the writer task go on. Nothing is assumed of clients.

### Proofs

`ServingProofs` and `ServingSafetyProofs` prove `TypeOK`, `ListedMethodsAnswer`,
`ListedNamesRoute`, `DominanceKept`, `OneLostPerCut` and `MetricsKept` for any
Orbs, requests, names, chunks, batches, worlds and bounds; `RankFusionProofs` has
the fusion's lemmas, `SequenceFacts` the facts on sequences they share. Assumed:
requests are finitely many, an Orb's chunks are a finite set of numbers
(`ChunksConstant`), the ring and the channel hold at
least one, the constants that stand beside one another differ
(`ProcessConstants`, `ServingConstants`), and of a world that searches and reads
are of listed Orbs, and that a search brings a vector of one of three kinds and a
natural `topK` (`WorldsGiven`).

| conjunct | says |
|---|---|
| `Typed` | the kinds of values; an item left came with its request; the guard on the processes is held at "writing" and nowhere else |
| `Placed` | a child is named by its call and was started once, for the item in hand; whoever is in the map or written to was started for that Orb and has loaded it |
| `Carried`, `Occupied` | each line to a child was written for an item of a request that is in hand or done with; only processes that are up work |
| `AnswersSound` | an answer about to be written is one its item and package allow |
| `Honest` | each reply is what `ListedMethodsAnswer` and `ListedNamesRoute` say |
| `CutsPaid` | calls given up, calls that wait without a line (`Doomed`) and half lines are together no more than the cuts |
| `Disk` | of an Orb whose processes take turns at most one is up; it and the file have counted what was recorded, unless it is writing the file |
| `Rings` | a ring is the last numbers in order, as many as it holds |

`Carried` is what makes `AnswersSound` survive a client that leaves: the child
answers its line all the same, and the answer must not be taken for that of
another item, to another Orb. `ParseBuilt` and `UriBuilt` prove for names of any
length that a tool name and a URI built from an Orb's slug are parsed back into
that slug and what followed; they rest on `SlugText`, a slug having no "_" and no
"/". `CutsPaid` counts what `OneLostPerCut` does not see yet: half a line dooms a
call only when the next is written, and a doomed call is lost only when it is
given up. `PageIs` is the lemma on one page of a ring, and `RingsPages` puts pages
together.

`DominanceKept` is inductive beside these: only `Search` sets `found`
(`FoundSteps`), and what it sets is fused as it should be (`FusionWell`, or
`SingleWell` where one ranking is left as it is). `FusionWell` goes from the fold
up: a fold over a finite set is the value of the set without any one element,
combined with that element (`FoldIs`, `FoldOut`); every denominator divides
`Scale` (`ScaleDivides`), so an earlier place adds more (`ContributionFalls`); a
sum whose parts are greater is greater (`SumGrows`), so a chunk that dominates
another scores more (`DominantScores`). A finite set can be sorted (`SortExists`),
so the list that `RrfFuse` chooses is sorted, and cutting it takes nothing from
before what it keeps (`CutSorted`).

## 8. Where words and code differ

The runs that expect a violation are the disagreements recorded as findings.
Others were met while modelling; the models follow the code.

- `mcp_handler.rs:641` says of hybrid without an embedder that "dispatch will
  skip dense automatically"; `runtime.rs:312` fails such a search when the Orb
  has vectors. `VectorMissing` excepts it.
- `mcp_handler.rs:686` says of the runtime without an embedder that
  `available_method_names()` hides `vector`; that follows the indexes in the
  package, not the embedder.
- `api.rs:341` counts a web search before `record_search` (`state.rs:92`) counts
  it again: `total_searches` grows by two. `MetricsKept` reads `total_requests`,
  as the app does.
- `try_auto_unlock` promises (`mcporb-runtime/src/main.rs:310`) to clean up an
  every_launch Orb's leftover key; when the key opens the Orb it returns before.
- `downloader.rs:10-11` says that on any failure "the previous `current/` (if any)
  is left untouched". `try_one` removes it (160) before the rename that puts the
  new model in its place (161): when the rename fails, or the runtime ends in
  between, neither is there. `OldGoesLast` says what does hold, that no failure
  before this step touches it.
- The comment and the warning in `Drop` of the `RuntimeManager`
  (`runtime_manager.rs:454-457`) say that children are orphaned unless `shutdown()`
  is called; they are spawned with `kill_on_drop` (515), so dropping the manager
  ends them. `NoChildOutlives` is about what happens: a gateway that is killed,
  with no destructor run, leaves it to the children to notice.
- `main.rs:86-89` says of the gateway child that `shutdown_running_orbs` "already
  tears it down on window close", and `main.rs:1838-1841` that a signal must "tear
  children down explicitly before exiting". The shutdown kills what is in
  `running_children` when it drains the map (1362-1368). A gateway that
  `ensure_unified_gateway_impl` has started and is polling is not in it yet, and
  a command that is still running may insert a child after. `ClosesClean` says
  that nothing else is left.
- An Orb server is started by the app without a mode. If its input is not a
  terminal it serves MCP as well, and ends with its input (`InputEnds`).
- The message for a locked Orb (`mcp_handler.rs:208`) names tools the gateway
  refuses to forward (`handler.rs:150`).

## 9. What is not proved, and not modelled

Left to TLC:

- liveness (`EveryCallEnds`, `RegistryApplied`, `EveryLaunchSettles`,
  `EveryCommandEnds`, `EveryRequestAnswered`, `NoChildOutlives`): the prover has
  no rules for fairness and `ENABLED`;
- the violations, which are counterexamples.

The library's induction rules take an operator, which the provers cannot
instantiate. What the proofs need of the recursive `Slugify` and of folds was
proved from a least counterexample instead: the first place, or the smallest set,
at which it would fail.

Not modelled:

- the app's search, passwords and client configuration, its proxies to Orb
  servers, the download folder and the store's HTTP client: sequential
  transformations without state between calls. What the app writes to the
  keychain is an action of `Unlock`;
- the first move out of a legacy registry location, which copies and deletes
  nothing, and where a binary or a package is found on disk;
- the layout of a bundle, ciphers and key derivation: functions of the password;
- building the indexes, tokenising, floating-point scores;
- batches sent to a child directly, its manifest and document lists, opening a
  client's configuration file: reads without effect;
- the user interface, macOS file access, the mock child and the size experiment.
