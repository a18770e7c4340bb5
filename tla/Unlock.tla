-------------------------------- MODULE Unlock --------------------------------
(***************************************************************************)
(* The password gate of an Orb's runtime (crates/mcporb-runtime): several  *)
(* processes of one protected Orb, each serving requests concurrently,     *)
(* that share the credential the device's keychain remembers for the Orb.  *)
(*                                                                         *)
(* A task is a request, or the start-up of a process before it serves.     *)
(* Keys are what Argon2 and HKDF make of a password: "right" opens the     *)
(* Orb, "wrong" does not. Whether the Orb's assets are encrypted, and      *)
(* whether it is remembered on the device, is fixed when it is packaged.   *)
(***************************************************************************)
EXTENDS Naturals

CONSTANTS
  Procs,       \* processes of the Orb
  Requests,    \* requests made to them
  Relaunches,  \* bound: how often a process ends and is started again
  AttemptMax,  \* where failed_attempts saturates (u32::MAX in the code)
  None         \* a request that has not been made

ASSUME UnlockConstants ==
  /\ Relaunches \in Nat
  /\ AttemptMax \in Nat \ {0}
  /\ Procs \cap Requests = {}
  /\ None \notin Procs

VARIABLES
  encrypted,  \* the Orb's assets are encrypted (config.asset_encryption)
  remember,   \* unlock_persistence is RememberOnThisDevice
  keychain,   \* the key the device remembers
  launches,   \* how often each process has been started again
  unlocked,   \* SecurityState.unlocked
  failed,     \* SecurityState.failed_attempts
  knowledge,  \* OrbState.knowledge is set
  blob,       \* OrbState.encrypted_blob is there
  home,       \* the process each request is made to
  pc,         \* where each task is
  key,        \* the key it tries
  auto        \* it tries the remembered key (persist = false)

policy == <<encrypted, remember>>
procVars == <<launches, unlocked, failed, knowledge, blob>>
taskVars == <<home, pc, key, auto>>
vars == <<policy, keychain, procVars, taskVars>>

Tasks == Procs \cup Requests
Keys == {"none", "right", "wrong"}

Ended == {"served", "locked", "opened", "refused", "lost", "panicked"}
PCs == {"new", "recall", "verify", "publish", "clear", "flag", "reset", "remember",
        "record", "forget", "cleanup", "gate", "handler", "env", "up"} \cup Ended

TypeOK ==
  /\ encrypted \in BOOLEAN
  /\ remember \in BOOLEAN
  /\ keychain \in Keys
  /\ launches \in [Procs -> 0..Relaunches]
  /\ unlocked \in [Procs -> BOOLEAN]
  /\ failed \in [Procs -> 0..AttemptMax]
  /\ knowledge \in [Procs -> BOOLEAN]
  /\ blob \in [Procs -> BOOLEAN]
  /\ home \in [Requests -> Procs \cup {None}]
  /\ pc \in [Tasks -> PCs]
  /\ key \in [Tasks -> Keys]
  /\ auto \in [Tasks -> BOOLEAN]

-----------------------------------------------------------------------------
Home(t) == IF t \in Procs THEN t ELSE home[t]
Goto(t, label) == pc' = [pc EXCEPT ![t] = label]

(* A process serves once its start-up is through.                          *)
Serving(p) == pc[p] = "up"

(* Where the auto-unlock returns to: a search rechecks the gate, the       *)
(* start-up goes on to the password in the environment.                    *)
AutoEnds(t) == IF t \in Procs THEN "env" ELSE "gate"

(* Where an unlock by password returns to. The start-up carries on without *)
(* it too.                                                                 *)
PasswordEnds(t, ok) == IF t \in Procs THEN "up" ELSE IF ok THEN "opened" ELSE "refused"

(* A plaintext Orb is published when the process starts; an encrypted one  *)
(* holds its ciphertext.                                                   *)
Init ==
  /\ encrypted \in BOOLEAN
  /\ remember \in BOOLEAN
  /\ keychain \in Keys
  /\ launches = [p \in Procs |-> 0]
  /\ unlocked = [p \in Procs |-> FALSE]
  /\ failed = [p \in Procs |-> 0]
  /\ knowledge = [p \in Procs |-> ~encrypted]
  /\ blob = [p \in Procs |-> encrypted]
  /\ home = [r \in Requests |-> None]
  /\ pc = [t \in Tasks |-> IF t \in Procs THEN "recall" ELSE "new"]
  /\ key = [t \in Tasks |-> "none"]
  /\ auto = [t \in Tasks |-> t \in Procs]

-----------------------------------------------------------------------------
(* A request that needs knowledge: the web API's middleware, tools/list,   *)
(* resources/list and resources/read.                                      *)
Read(r, p) ==
  /\ pc[r] = "new"
  /\ Serving(p)
  /\ home' = [home EXCEPT ![r] = p]
  /\ Goto(r, IF unlocked[p] THEN "handler" ELSE "locked")
  /\ UNCHANGED <<policy, keychain, procVars, key, auto>>

(* search_knowledge tries the remembered key before it gives up.           *)
Search(r, p) ==
  /\ pc[r] = "new"
  /\ Serving(p)
  /\ home' = [home EXCEPT ![r] = p]
  /\ auto' = [auto EXCEPT ![r] = TRUE]
  /\ Goto(r, IF unlocked[p] THEN "handler" ELSE "recall")
  /\ UNCHANGED <<policy, keychain, procVars, key>>

(* unlock_orb, or /auth/unlock of the web API: perform_unlock.             *)
Password(r, p, k) ==
  /\ pc[r] = "new"
  /\ Serving(p)
  /\ home' = [home EXCEPT ![r] = p]
  /\ key' = [key EXCEPT ![r] = k]
  /\ Goto(r, IF unlocked[p] THEN "opened" ELSE "verify")
  /\ UNCHANGED <<policy, keychain, procVars, auto>>

(* try_auto_unlock asks the keychain, which may refuse: there is no entry, *)
(* or the user has not granted access yet.                                 *)
Recall(t) ==
  /\ pc[t] = "recall"
  /\ \E k \in {keychain, "none"} :
       /\ key' = [key EXCEPT ![t] = k]
       /\ Goto(t, IF k = "none" THEN "cleanup" ELSE "verify")
  /\ UNCHANGED <<policy, keychain, procVars, home, auto>>

(* MCPORB_UNLOCK_PASSWORD, when it is set and the Orb is still locked.     *)
EnvPassword(p) ==
  /\ pc[p] = "env"
  /\ ~unlocked[p]
  /\ \E k \in {"right", "wrong"} : key' = [key EXCEPT ![p] = k]
  /\ auto' = [auto EXCEPT ![p] = FALSE]
  /\ Goto(p, "verify")
  /\ UNCHANGED <<policy, keychain, procVars, home>>

NoEnvPassword(p) ==
  /\ pc[p] = "env"
  /\ Goto(p, "up")
  /\ UNCHANGED <<policy, keychain, procVars, home, key, auto>>

(* finish_unlock. An encrypted Orb is opened by decrypting it; mutant: the *)
(* stored verifier is asked, which an encrypted Orb does not have.         *)
KeyVerifies(t) == key[t] = "right" /\ ~encrypted
KeyOpens(t) == key[t] = "right"

HasPayload(t) == encrypted => blob[Home(t)]

(* Mutant: an error is dropped, and a password is remembered regardless.   *)
OnErrorIgnored(t) == IF auto[t] THEN "forget" ELSE "remember"
OnError(t) == IF auto[t] THEN "forget" ELSE PasswordEnds(t, FALSE)

(* Mutant: the flag is set before the knowledge is published.              *)
FlagAtOnce(t) == "flag"
OnOpened(t) == IF encrypted THEN "publish" ELSE "flag"

Accept(t) ==
  /\ pc[t] = "verify"
  /\ HasPayload(t)
  /\ KeyOpens(t)
  /\ Goto(t, OnOpened(t))
  /\ UNCHANGED <<policy, keychain, procVars, home, key, auto>>

Reject(t) ==
  /\ pc[t] = "verify"
  /\ HasPayload(t)
  /\ ~KeyOpens(t)
  /\ Goto(t, "record")
  /\ UNCHANGED <<policy, keychain, procVars, home, key, auto>>

(* The ciphertext is gone: another unlock is under way, or done.           *)
NoPayload(t) ==
  /\ pc[t] = "verify"
  /\ ~HasPayload(t)
  /\ Goto(t, OnError(t))
  /\ UNCHANGED <<policy, keychain, procVars, home, key, auto>>

(* Mutants: the counter wraps around, or runs past its type.               *)
CountWraps(n) == IF n = AttemptMax THEN 0 ELSE n + 1
CountOverflows(n) == n + 1
CountUp(n) == IF n = AttemptMax THEN n ELSE n + 1

RecordFailure(t) ==
  /\ pc[t] = "record"
  /\ failed' = [failed EXCEPT ![Home(t)] = CountUp(@)]
  /\ Goto(t, OnError(t))
  /\ UNCHANGED <<policy, keychain, launches, unlocked, knowledge, blob, home, key, auto>>

(* The decrypted knowledge is published, once and for all; then the        *)
(* ciphertext is dropped; then the process counts as unlocked; then the    *)
(* failures are forgiven.                                                  *)
Publish(t) ==
  /\ pc[t] = "publish"
  /\ knowledge' = [knowledge EXCEPT ![Home(t)] = TRUE]
  /\ Goto(t, "clear")
  /\ UNCHANGED <<policy, keychain, launches, unlocked, failed, blob, home, key, auto>>

ClearBlob(t) ==
  /\ pc[t] = "clear"
  /\ blob' = [blob EXCEPT ![Home(t)] = FALSE]
  /\ Goto(t, "flag")
  /\ UNCHANGED <<policy, keychain, launches, unlocked, failed, knowledge, home, key, auto>>

SetUnlocked(t) ==
  /\ pc[t] = "flag"
  /\ unlocked' = [unlocked EXCEPT ![Home(t)] = TRUE]
  /\ Goto(t, "reset")
  /\ UNCHANGED <<policy, keychain, launches, failed, knowledge, blob, home, key, auto>>

ResetFailures(t) ==
  /\ pc[t] = "reset"
  /\ failed' = [failed EXCEPT ![Home(t)] = 0]
  /\ Goto(t, IF auto[t] THEN AutoEnds(t)
             ELSE IF remember THEN "remember" ELSE PasswordEnds(t, TRUE))
  /\ UNCHANGED <<policy, keychain, launches, unlocked, knowledge, blob, home, key, auto>>

(* Remembering the key, and forgetting it, are best effort.                *)
Remember(t) ==
  /\ pc[t] = "remember"
  /\ keychain' \in {key[t], keychain}
  /\ Goto(t, PasswordEnds(t, TRUE))
  /\ UNCHANGED <<policy, procVars, home, key, auto>>

Forget(t) ==
  /\ pc[t] = "forget"
  /\ keychain' \in {"none", keychain}
  /\ Goto(t, "cleanup")
  /\ UNCHANGED <<policy, procVars, home, key, auto>>

(* A credential that ought not to be there is deleted.                     *)
Cleanup(t) ==
  /\ pc[t] = "cleanup"
  /\ keychain' \in IF remember THEN {keychain} ELSE {"none", keychain}
  /\ Goto(t, AutoEnds(t))
  /\ UNCHANGED <<policy, procVars, home, key, auto>>

(* The gate is asked again; mutant: the search goes on regardless.         *)
AnyonePasses(r) == TRUE
Passes(r) == unlocked[home[r]]

Gate(r) ==
  /\ pc[r] = "gate"
  /\ Goto(r, IF Passes(r) THEN "handler" ELSE "locked")
  /\ UNCHANGED <<policy, keychain, procVars, home, key, auto>>

(* state.knowledge() panics when there is none.                            *)
Handle(r) ==
  /\ pc[r] = "handler"
  /\ Goto(r, IF knowledge[home[r]] THEN "served" ELSE "panicked")
  /\ UNCHANGED <<policy, keychain, procVars, home, key, auto>>

-----------------------------------------------------------------------------
(* A process ends at any time, its requests unanswered, and is launched    *)
(* again.                                                                  *)
Relaunch(p) ==
  /\ launches[p] < Relaunches
  /\ launches' = [launches EXCEPT ![p] = @ + 1]
  /\ unlocked' = [unlocked EXCEPT ![p] = FALSE]
  /\ failed' = [failed EXCEPT ![p] = 0]
  /\ knowledge' = [knowledge EXCEPT ![p] = ~encrypted]
  /\ blob' = [blob EXCEPT ![p] = encrypted]
  /\ pc' = [t \in Tasks |->
              IF t = p THEN "recall"
              ELSE IF t \in Requests /\ home[t] = p /\ pc[t] \notin Ended THEN "lost" ELSE pc[t]]
  /\ key' = [key EXCEPT ![p] = "none"]
  /\ auto' = [auto EXCEPT ![p] = TRUE]
  /\ UNCHANGED <<policy, keychain, home>>

(* The app verifies a password when the Orb is imported and remembers its  *)
(* key whatever the Orb's policy.                                          *)
AppRemembers ==
  /\ keychain' = "right"
  /\ UNCHANGED <<policy, procVars, taskVars>>

Arrive(r) ==
  \E p \in Procs : Read(r, p) \/ Search(r, p) \/ \E k \in {"right", "wrong"} : Password(r, p, k)

Unlocking(t) ==
  \/ Recall(t) \/ Accept(t) \/ Reject(t) \/ NoPayload(t) \/ RecordFailure(t)
  \/ Publish(t) \/ ClearBlob(t) \/ SetUnlocked(t) \/ ResetFailures(t)
  \/ Remember(t) \/ Forget(t) \/ Cleanup(t)

Next ==
  \/ \E r \in Requests : Arrive(r) \/ Gate(r) \/ Handle(r)
  \/ \E t \in Tasks : Unlocking(t)
  \/ \E p \in Procs : EnvPassword(p) \/ NoEnvPassword(p) \/ Relaunch(p)
  \/ AppRemembers

Spec == Init /\ [][Next]_vars

-----------------------------------------------------------------------------
(* Whoever has passed the gate finds the knowledge loaded: the flag is     *)
(* never set before it is published, whichever of several concurrent       *)
(* unlocks sets it (OrbState::knowledge panics otherwise).                 *)
KnowledgeBehindGate ==
  /\ \A p \in Procs : unlocked[p] => knowledge[p]
  /\ \A r \in Requests : pc[r] # "panicked"

(* No key is remembered that does not open the Orb: what a runtime writes  *)
(* into the keychain has been verified first (finish_unlock).              *)
OnlyRightKeysRemembered == [][keychain' # keychain => keychain' \in {"none", "right"}]_vars

(* A launch that has been given the right key, by the keychain or in its   *)
(* environment, serves unlocked: no step of its unlock is left out.        *)
LaunchOpens == \A p \in Procs : Serving(p) /\ key[p] = "right" => unlocked[p]

(* No guess resets the throttle: the count of failures falls only when the *)
(* Orb has been unlocked, or with the process.                             *)
ThrottleKept ==
  [][\A p \in Procs : failed'[p] < failed[p] => unlocked[p] \/ launches'[p] # launches[p]]_vars

(* The gate implements its abstract specification: a process opens only to *)
(* a right key offered there, and serves only while open.                  *)
AnswerAt(label) ==
  CASE label \in {"served", "panicked"} -> "served"
    [] label = "opened" -> "opened"
    [] label \in {"locked", "refused", "lost"} -> "denied"
    [] OTHER -> "pending"

Answers == [r \in Requests |-> AnswerAt(pc[r])]

Gated == INSTANCE OrbGate WITH open <- unlocked, offered <- key, at <- home, answer <- Answers

ImplementsGate == Gated!Spec

(* try_auto_unlock drops a key that is stale or invalid (main.rs:309): one *)
(* that opens the Orb is never forgotten by the task that has tried it.    *)
OnlyInvalidDropped == \A t \in Tasks : pc[t] = "forget" => key[t] # "right"
=============================================================================
