------------------------------ MODULE UnlockProofs ------------------------------
(***************************************************************************)
(* Proofs about Unlock, for any number of processes, requests and          *)
(* relaunches. The inductive invariant Inv carries them: where each kind   *)
(* of task may be (Placed), what an unlock under way has established so    *)
(* far (Progress), and that nobody disturbs a process that is still        *)
(* starting (Untouched).                                                   *)
(***************************************************************************)
EXTENDS Unlock, TLAPS

(* The initial states have their types.                                    *)
LEMMA TypeInit == Init => TypeOK
<1> SUFFICES ASSUME Init PROVE TypeOK
  OBVIOUS
<1>1. pc \in [Tasks -> PCs]
  BY DEF Init, PCs
<1> QED
  BY <1>1, UnlockConstants DEF UnlockConstants, Init, TypeOK, Keys

(* A request arrives.                                                      *)
LEMMA TypeArrive ==
  ASSUME TypeOK, NEW r \in Requests, Arrive(r)
  PROVE  TypeOK'
<1> USE DEF TypeOK, PCs, Ended, Keys, Tasks, Goto, policy, procVars
<1>1. ASSUME NEW p \in Procs, Read(r, p) PROVE TypeOK'
  BY <1>1 DEF Read
<1>2. ASSUME NEW p \in Procs, Search(r, p) PROVE TypeOK'
  BY <1>2 DEF Search
<1>3. ASSUME NEW p \in Procs, NEW k \in {"right", "wrong"}, Password(r, p, k) PROVE TypeOK'
  BY <1>3 DEF Password
<1> QED
  BY <1>1, <1>2, <1>3 DEF Arrive

(* A task goes one step on in its unlock.                                  *)
LEMMA TypeUnlocking ==
  ASSUME TypeOK, NEW t \in Tasks, Unlocking(t)
  PROVE  TypeOK'
<1> USE UnlockConstants
    DEF UnlockConstants, TypeOK, PCs, Ended, Keys, Goto, AutoEnds, PasswordEnds, policy, procVars
<1>1. CASE Recall(t)
  <2> PICK k \in {keychain, "none"} :
        /\ key' = [key EXCEPT ![t] = k]
        /\ pc' = [pc EXCEPT ![t] = IF k = "none" THEN "cleanup" ELSE "verify"]
    BY <1>1 DEF Recall
  <2> QED
    BY <1>1 DEF Recall
<1>2. CASE Accept(t)
  BY <1>2 DEF Accept, OnOpened
<1>3. CASE Reject(t)
  BY <1>3 DEF Reject
<1>4. CASE NoPayload(t)
  BY <1>4 DEF NoPayload, OnError
<1>5. CASE RecordFailure(t)
  <2>1. failed' \in [Procs -> 0..AttemptMax]
    <3>1. ASSUME NEW n \in 0..AttemptMax PROVE CountUp(n) \in 0..AttemptMax
      BY DEF CountUp
    <3> QED
      BY <1>5, <3>1 DEF RecordFailure
  <2>2. pc' \in [Tasks -> PCs]
    BY <1>5 DEF RecordFailure, OnError
  <2> QED
    BY <1>5, <2>1, <2>2 DEF RecordFailure
<1>6. CASE Publish(t)
  BY <1>6 DEF Publish
<1>7. CASE ClearBlob(t)
  BY <1>7 DEF ClearBlob
<1>8. CASE SetUnlocked(t)
  BY <1>8 DEF SetUnlocked
<1>9. CASE ResetFailures(t)
  <2>1. failed' \in [Procs -> 0..AttemptMax]
    <3>1. 0 \in 0..AttemptMax
      OBVIOUS
    <3>2. ASSUME NEW T, 0 \in T, failed \in [Procs -> T] PROVE failed' \in [Procs -> T]
      BY <1>9, <3>2 DEF ResetFailures
    <3> QED
      BY <3>1, <3>2
  <2>2. pc' \in [Tasks -> PCs]
    BY <1>9 DEF ResetFailures
  <2> QED
    BY <1>9, <2>1, <2>2 DEF ResetFailures
<1>10. CASE Remember(t)
  BY <1>10 DEF Remember
<1>11. CASE Forget(t)
  BY <1>11 DEF Forget
<1>12. CASE Cleanup(t)
  BY <1>12 DEF Cleanup
<1> QED
  BY <1>1, <1>2, <1>3, <1>4, <1>5, <1>6, <1>7, <1>8, <1>9, <1>10, <1>11, <1>12 DEF Unlocking

(* Every step keeps every type.                                            *)
LEMMA TypeStep == TypeOK /\ [Next]_vars => TypeOK'
<1> SUFFICES ASSUME TypeOK, [Next]_vars PROVE TypeOK'
  OBVIOUS
<1> USE UnlockConstants
    DEF UnlockConstants, TypeOK, PCs, Ended, Keys, Goto, policy, procVars
<1>1. ASSUME NEW r \in Requests, Arrive(r) PROVE TypeOK'
  BY <1>1, TypeArrive
<1>2. ASSUME NEW r \in Requests, Gate(r) PROVE TypeOK'
  BY <1>2 DEF Gate
<1>3. ASSUME NEW r \in Requests, Handle(r) PROVE TypeOK'
  BY <1>3 DEF Handle
<1>4. ASSUME NEW t \in Tasks, Unlocking(t) PROVE TypeOK'
  BY <1>4, TypeUnlocking
<1>5. ASSUME NEW p \in Procs, EnvPassword(p) PROVE TypeOK'
  BY <1>5 DEF EnvPassword
<1>6. ASSUME NEW p \in Procs, NoEnvPassword(p) PROVE TypeOK'
  BY <1>6 DEF NoEnvPassword
<1>7. ASSUME NEW p \in Procs, Relaunch(p) PROVE TypeOK'
  <2>1. launches' \in [Procs -> 0..Relaunches]
    BY <1>7 DEF Relaunch
  <2>2. pc' \in [Tasks -> PCs]
    BY <1>7 DEF Relaunch
  <2>3. /\ key' \in [Tasks -> Keys]
        /\ auto' \in [Tasks -> BOOLEAN]
    BY <1>7 DEF Relaunch
  <2>4. /\ unlocked' \in [Procs -> BOOLEAN]
        /\ failed' \in [Procs -> 0..AttemptMax]
        /\ knowledge' \in [Procs -> BOOLEAN]
        /\ blob' \in [Procs -> BOOLEAN]
    BY <1>7 DEF Relaunch
  <2> QED
    BY <1>7, <2>1, <2>2, <2>3, <2>4 DEF Relaunch
<1>8. CASE AppRemembers
  BY <1>8 DEF AppRemembers, taskVars
<1>9. CASE UNCHANGED vars
  BY <1>9 DEF vars, taskVars
<1> QED
  BY <1>1, <1>2, <1>3, <1>4, <1>5, <1>6, <1>7, <1>8, <1>9 DEF Next

(* Every variable of the gate keeps its type.                              *)
THEOREM TypeCorrect == Spec => []TypeOK
<1> QED
  BY TypeInit, TypeStep, PTL DEF Spec

-----------------------------------------------------------------------------
Starting == {"recall", "verify", "publish", "clear", "flag", "reset", "remember",
             "record", "forget", "cleanup", "env", "up"}

(* The start-up is never where only requests go, nor the reverse, and a    *)
(* request that has been made has a process, whose start-up is over.       *)
Placed ==
  /\ \A p \in Procs : pc[p] \in Starting
  /\ \A r \in Requests :
       /\ pc[r] \notin {"env", "up"}
       /\ pc[r] = "new" <=> home[r] = None
       /\ home[r] \in Procs /\ pc[r] \notin Ended => Serving(home[r])

(* What an unlock has established when it comes to each of its steps.      *)
Progress ==
  /\ ~encrypted => \A p \in Procs : knowledge[p]
  /\ \A p \in Procs : unlocked[p] => knowledge[p]
  /\ \A t \in Tasks :
       /\ pc[t] \in {"publish", "clear", "flag", "reset", "remember"} => key[t] = "right"
       /\ pc[t] \in {"clear", "flag"} => knowledge[Home(t)]
       /\ pc[t] \in {"reset", "remember"} => unlocked[Home(t)]
  /\ \A r \in Requests :
       /\ pc[r] = "handler" => unlocked[home[r]]
       /\ pc[r] # "panicked"

(* A process that is starting holds its ciphertext until it clears it, and *)
(* gives up on a key only when it does not open the Orb.                   *)
Untouched ==
  \A p \in Procs :
    /\ pc[p] \in {"recall", "verify", "record", "forget", "cleanup"} => blob[p] = encrypted
    /\ pc[p] = "env" /\ ~unlocked[p] => blob[p] = encrypted
    /\ pc[p] \in {"record", "forget", "cleanup"} => key[p] # "right"
    /\ pc[p] \in {"env", "up"} /\ key[p] = "right" => unlocked[p]

Inv == TypeOK /\ Placed /\ Progress /\ Untouched

(* The invariant holds initially.                                          *)
LEMMA InvInit == Init => Inv
<1> SUFFICES ASSUME Init PROVE Inv
  OBVIOUS
<1>1. TypeOK
  BY TypeInit
<1> USE UnlockConstants DEF UnlockConstants, Init, Tasks
<1>2. Placed
  BY DEF Placed, Starting, Ended
<1>3. Progress
  BY DEF Progress
<1>4. Untouched
  BY DEF Untouched
<1> QED
  BY <1>1, <1>2, <1>3, <1>4 DEF Inv

(* A request on its way has a process, and that process is serving.        *)
LEMMA HomeKnown ==
  ASSUME Inv, NEW t \in Tasks, pc[t] \notin Ended \cup {"new"}
  PROVE  /\ Home(t) \in Procs
         /\ t \in Procs => Home(t) = t
         /\ t \notin Procs => t \in Requests /\ Home(t) = home[t] /\ pc[Home(t)] = "up"
BY UnlockConstants DEF UnlockConstants, Inv, TypeOK, Placed, Tasks, Home, Serving

(* A request arrives: it passes the gate only while the process is         *)
(* unlocked.                                                               *)
LEMMA InvArrive ==
  ASSUME Inv, NEW r \in Requests, Arrive(r)
  PROVE  Placed' /\ Progress' /\ Untouched'
<1> USE UnlockConstants
    DEF UnlockConstants, Inv, TypeOK, Placed, Progress, Untouched, Starting, Tasks, Home,
        Serving, Ended, Goto, policy, procVars
<1>1. ASSUME NEW p \in Procs, Read(r, p) PROVE Placed' /\ Progress' /\ Untouched'
  BY <1>1 DEF Read
<1>2. ASSUME NEW p \in Procs, Search(r, p) PROVE Placed' /\ Progress' /\ Untouched'
  BY <1>2 DEF Search
<1>3. ASSUME NEW p \in Procs, NEW k \in {"right", "wrong"}, Password(r, p, k)
      PROVE  Placed' /\ Progress' /\ Untouched'
  BY <1>3 DEF Password
<1> QED
  BY <1>1, <1>2, <1>3 DEF Arrive

(* A task goes one step on in its unlock, in the order the code keeps.     *)
LEMMA InvUnlocking ==
  ASSUME Inv, NEW t \in Tasks, Unlocking(t)
  PROVE  Placed' /\ Progress' /\ Untouched'
<1>0. /\ pc[t] \notin Ended \cup {"new", "up", "env", "gate", "handler"}
      /\ pc[t] \in {"recall", "verify", "publish", "clear", "flag", "reset", "remember",
                    "record", "forget", "cleanup"}
  BY DEF Unlocking, Recall, Accept, Reject, NoPayload, RecordFailure, Publish, ClearBlob,
         SetUnlocked, ResetFailures, Remember, Forget, Cleanup, Ended
<1>h. /\ Home(t) \in Procs
      /\ t \in Procs => Home(t) = t
      /\ t \notin Procs => t \in Requests /\ Home(t) = home[t] /\ pc[Home(t)] = "up"
  BY <1>0, HomeKnown
<1> USE UnlockConstants, <1>0, <1>h
    DEF UnlockConstants, Inv, TypeOK, Placed, Progress, Untouched, Starting, Tasks, Home,
        Serving, Ended, Goto, AutoEnds, PasswordEnds, policy, procVars
<1>1. CASE Recall(t)
  <2> PICK k \in {keychain, "none"} :
        /\ key' = [key EXCEPT ![t] = k]
        /\ pc' = [pc EXCEPT ![t] = IF k = "none" THEN "cleanup" ELSE "verify"]
    BY <1>1 DEF Recall
  <2> QED
    BY <1>1 DEF Recall
<1>2. CASE Accept(t)
  BY <1>2 DEF Accept, OnOpened, KeyOpens
<1>3. CASE Reject(t)
  BY <1>3 DEF Reject, KeyOpens
<1>4. CASE NoPayload(t)
  BY <1>4 DEF NoPayload, OnError, HasPayload
<1>5. CASE RecordFailure(t)
  BY <1>5 DEF RecordFailure, OnError
<1>6. CASE Publish(t)
  BY <1>6 DEF Publish
<1>7. CASE ClearBlob(t)
  <2>1. Placed'
    BY <1>7 DEF ClearBlob
  <2>2. Progress'
    BY <1>7 DEF ClearBlob
  <2>3. Untouched'
    <3>1. /\ pc' = [pc EXCEPT ![t] = "flag"]
          /\ blob' = [blob EXCEPT ![Home(t)] = FALSE]
          /\ UNCHANGED <<encrypted, unlocked, key>>
      BY <1>7 DEF ClearBlob
    <3>2. pc'[Home(t)] \in {"up", "flag"}
      BY <3>1
    <3>3. Home(t) \in Procs /\ (pc'[Home(t)] = "up" => pc[Home(t)] = "up")
      BY <3>1
    <3>4. \A p \in Procs : p # Home(t) => blob'[p] = blob[p] /\ pc'[p] = pc[p]
      BY <3>1
    <3>5. key[Home(t)] = "right" => unlocked[Home(t)] \/ pc'[Home(t)] # "up"
      BY <3>3
    <3> HIDE DEF Home, Placed, Progress, Tasks, Serving, Ended, Starting, UnlockConstants, TypeOK
    <3> QED
      BY <3>1, <3>2, <3>3, <3>4, <3>5
  <2> QED
    BY <2>1, <2>2, <2>3
<1>8. CASE SetUnlocked(t)
  BY <1>8 DEF SetUnlocked
<1>9. CASE ResetFailures(t)
  <2>1. Placed'
    BY <1>9 DEF ResetFailures
  <2>2. Progress'
    BY <1>9 DEF ResetFailures
  <2>3. Untouched'
    BY <1>9 DEF ResetFailures
  <2> QED
    BY <2>1, <2>2, <2>3
<1>10. CASE Remember(t)
  BY <1>10 DEF Remember
<1>11. CASE Forget(t)
  BY <1>11 DEF Forget
<1>12. CASE Cleanup(t)
  BY <1>12 DEF Cleanup
<1> QED
  BY <1>1, <1>2, <1>3, <1>4, <1>5, <1>6, <1>7, <1>8, <1>9, <1>10, <1>11, <1>12 DEF Unlocking

(* Every step keeps the invariant.                                         *)
LEMMA InvStep == Inv /\ [Next]_vars => Inv'
<1> SUFFICES ASSUME Inv, [Next]_vars PROVE Placed' /\ Progress' /\ Untouched'
  BY TypeStep DEF Inv
<1> USE UnlockConstants
    DEF UnlockConstants, Inv, TypeOK, Placed, Progress, Untouched, Starting, Tasks, Home,
        Serving, Ended, Goto, policy, procVars
<1>1. ASSUME NEW r \in Requests, Arrive(r) PROVE Placed' /\ Progress' /\ Untouched'
  BY <1>1, InvArrive
<1>2. ASSUME NEW r \in Requests, Gate(r) PROVE Placed' /\ Progress' /\ Untouched'
  BY <1>2 DEF Gate, Passes
<1>3. ASSUME NEW r \in Requests, Handle(r) PROVE Placed' /\ Progress' /\ Untouched'
  BY <1>3 DEF Handle
<1>4. ASSUME NEW t \in Tasks, Unlocking(t) PROVE Placed' /\ Progress' /\ Untouched'
  BY <1>4, InvUnlocking
<1>5. ASSUME NEW p \in Procs, EnvPassword(p) PROVE Placed' /\ Progress' /\ Untouched'
  BY <1>5 DEF EnvPassword
<1>6. ASSUME NEW p \in Procs, NoEnvPassword(p) PROVE Placed' /\ Progress' /\ Untouched'
  BY <1>6 DEF NoEnvPassword
<1>7. ASSUME NEW p \in Procs, Relaunch(p) PROVE Placed' /\ Progress' /\ Untouched'
  <2>1. Placed'
    BY <1>7 DEF Relaunch
  <2>2. Progress'
    BY <1>7 DEF Relaunch
  <2>3. Untouched'
    BY <1>7 DEF Relaunch
  <2> QED
    BY <2>1, <2>2, <2>3
<1>8. CASE AppRemembers
  BY <1>8 DEF AppRemembers, taskVars
<1>9. CASE UNCHANGED vars
  BY <1>9 DEF vars, taskVars
<1> QED
  BY <1>1, <1>2, <1>3, <1>4, <1>5, <1>6, <1>7, <1>8, <1>9 DEF Next

(* The invariant holds throughout.                                         *)
LEMMA Invariance == Spec => []Inv
<1> QED
  BY InvInit, InvStep, PTL DEF Spec

-----------------------------------------------------------------------------
(* The flag is never set before the knowledge is there, so that no handler *)
(* behind the gate panics.                                                 *)
THEOREM GateGuards == Spec => []KnowledgeBehindGate
<1>1. Inv => KnowledgeBehindGate
  BY DEF Inv, Progress, KnowledgeBehindGate
<1> QED
  BY <1>1, Invariance, PTL

(* A launch given the right key serves unlocked.                           *)
THEOREM LaunchUnlocks == Spec => []LaunchOpens
<1>1. Inv => LaunchOpens
  BY DEF Inv, Untouched, LaunchOpens, Serving
<1> QED
  BY <1>1, Invariance, PTL

(* Only a verified key is ever remembered.                                 *)
THEOREM RemembersRightKeys == Spec => OnlyRightKeysRemembered
<1>1. Inv /\ [Next]_vars => [keychain' # keychain => keychain' \in {"none", "right"}]_vars
  <2> SUFFICES ASSUME Inv, Next, keychain' # keychain
               PROVE  keychain' \in {"none", "right"}
    OBVIOUS
  <2>1. ASSUME NEW t \in Tasks, Unlocking(t) PROVE keychain' \in {"none", "right"}
    <3>1. CASE Remember(t)
      BY <3>1 DEF Remember, Inv, Progress
    <3>2. CASE Forget(t) \/ Cleanup(t)
      BY <3>2 DEF Forget, Cleanup
    <3> QED
      BY <2>1, <3>1, <3>2 DEF Unlocking, Recall, Accept, Reject, NoPayload, RecordFailure,
            Publish, ClearBlob, SetUnlocked, ResetFailures
  <2> QED
    BY <2>1 DEF Next, Arrive, Read, Search, Password, Gate, Handle, EnvPassword,
          NoEnvPassword, Relaunch, AppRemembers
<1> QED
  BY <1>1, Invariance, PTL DEF Spec, OnlyRightKeysRemembered

(* No guess resets the throttle.                                           *)
THEOREM ThrottleHolds == Spec => ThrottleKept
<1>1. Inv /\ [Next]_vars =>
        [\A p \in Procs : failed'[p] < failed[p] => unlocked[p] \/ launches'[p] # launches[p]]_vars
  <2> SUFFICES ASSUME Inv, Next, NEW p \in Procs, failed'[p] < failed[p]
               PROVE  unlocked[p] \/ launches'[p] # launches[p]
    OBVIOUS
  <2>0. failed[p] \in 0..AttemptMax /\ AttemptMax \in Nat
    BY UnlockConstants DEF UnlockConstants, Inv, TypeOK
  <2>1. ASSUME NEW t \in Tasks, Unlocking(t) PROVE unlocked[p]
    <3>1. CASE RecordFailure(t)
      <4>1. failed'[p] = failed[p] \/ failed'[p] = CountUp(failed[p])
        BY <3>1 DEF RecordFailure, Inv, TypeOK
      <4>2. failed'[p] >= failed[p]
        BY <2>0, <4>1 DEF CountUp
      <4> QED
        BY <2>0, <4>1, <4>2 DEF CountUp
    <3>2. CASE ResetFailures(t)
      <4>1. unlocked[Home(t)]
        BY <3>2 DEF ResetFailures, Inv, Progress
      <4>2. p # Home(t) => failed'[p] = failed[p]
        BY <3>2 DEF ResetFailures, Inv, TypeOK
      <4> QED
        BY <2>0, <4>1, <4>2
    <3>3. RecordFailure(t) \/ ResetFailures(t) \/ failed' = failed
      BY <2>1 DEF Unlocking, Recall, Accept, Reject, NoPayload, Publish,
            ClearBlob, SetUnlocked, Remember, Forget, Cleanup, procVars
    <3> QED
      BY <2>0, <3>1, <3>2, <3>3
  <2>2. ASSUME NEW q \in Procs, Relaunch(q) PROVE launches'[p] # launches[p]
    <3>1. p = q
      BY <2>0, <2>2 DEF Relaunch, Inv, TypeOK
    <3> QED
      BY <2>2, <3>1, UnlockConstants DEF UnlockConstants, Relaunch, Inv, TypeOK
  <2>3. \/ \E t \in Tasks : Unlocking(t)
        \/ \E q \in Procs : Relaunch(q)
        \/ failed' = failed
    BY DEF Next, Arrive, Read, Search, Password, Gate, Handle, EnvPassword,
          NoEnvPassword, AppRemembers, procVars
  <2> QED
    BY <2>0, <2>1, <2>2, <2>3
<1> QED
  BY <1>1, Invariance, PTL DEF Spec, ThrottleKept

-----------------------------------------------------------------------------
(* The initial states of the gate are those of its abstract specification. *)
LEMMA GateInit == Init => Gated!Init
<1> SUFFICES ASSUME Init PROVE Gated!Init
  OBVIOUS
<1>1. Answers = [r \in Requests |-> "pending"]
  BY UnlockConstants DEF UnlockConstants, Init, Answers, AnswerAt, Tasks
<1> QED
  BY <1>1 DEF Init, Gated!Init, Tasks, Gated!Tasks

(* A task that moves on without ending, and leaves the flags and the keys, *)
(* is not seen.                                                            *)
LEMMA Unseen ==
  ASSUME Inv, NEW t \in Tasks, NEW label, Goto(t, label),
         UNCHANGED <<unlocked, key, home>>,
         t \in Requests => AnswerAt(label) = AnswerAt(pc[t])
  PROVE  UNCHANGED Gated!vars
<1>1. Answers' = Answers
  BY DEF Goto, Answers, Inv, TypeOK, Tasks
<1> QED
  BY <1>1 DEF Gated!vars

(* A request still on its way when it ends: refused, or granted by a       *)
(* process that is open.                                                   *)
LEMMA Answered ==
  ASSUME Inv, NEW r \in Requests, NEW label, Goto(r, label),
         UNCHANGED <<unlocked, key, home>>,
         AnswerAt(pc[r]) = "pending",
         \/ AnswerAt(label) = "denied"
         \/ /\ AnswerAt(label) \in {"served", "opened"}
            /\ home[r] \in Procs
            /\ unlocked[home[r]]
  PROVE  Gated!Next
<1>1. Answers' = [Answers EXCEPT ![r] = AnswerAt(label)]
  BY DEF Goto, Answers, Inv, TypeOK, Tasks
<1>2. Answers[r] = "pending"
  BY DEF Answers
<1>3. CASE AnswerAt(label) = "denied"
  BY <1>1, <1>2, <1>3 DEF Gated!Next, Gated!Deny
<1>4. CASE AnswerAt(label) \in {"served", "opened"} /\ home[r] \in Procs /\ unlocked[home[r]]
  <2>1. Gated!Grant(r, AnswerAt(label))
    BY <1>1, <1>2, <1>4 DEF Gated!Grant
  <2> QED
    BY <1>4, <2>1 DEF Gated!Next
<1> QED
  BY <1>3, <1>4

(* A step of the gate is a step of its abstract specification, or unseen.  *)
LEMMA ArriveMapped ==
  ASSUME Inv, NEW r \in Requests, Arrive(r)
  PROVE  Gated!Next
<1> USE DEF Inv, TypeOK, Tasks, Goto
<1>1. /\ home[r] = None
      /\ pc[r] = "new"
  BY DEF Arrive, Read, Search, Password, Placed
<1>2. ASSUME NEW p \in Procs, NEW label, NEW k \in Keys, Goto(r, label),
             home' = [home EXCEPT ![r] = p], key' = [key EXCEPT ![r] = k],
             UNCHANGED unlocked,
             \/ AnswerAt(label) \in {"pending", "denied"}
             \/ AnswerAt(label) = "opened" /\ unlocked[p]
      PROVE  Gated!Next
  <2>1. Answers' = [Answers EXCEPT ![r] = AnswerAt(label)]
    BY <1>2 DEF Answers
  <2>2. Gated!Arrive(r, p, k, AnswerAt(label))
    BY <1>1, <1>2, <2>1 DEF Gated!Arrive
  <2> QED
    BY <1>2, <2>2 DEF Gated!Next, Gated!Keys, Keys
<1>3. key[r] \in Keys /\ key = [key EXCEPT ![r] = key[r]]
  OBVIOUS
<1>4. ASSUME NEW p \in Procs, Read(r, p) PROVE Gated!Next
  <2>1. CASE unlocked[p]
    BY <1>2, <1>3, <1>4, <2>1 DEF Read, AnswerAt, procVars
  <2>2. CASE ~unlocked[p]
    BY <1>2, <1>3, <1>4, <2>2 DEF Read, AnswerAt, procVars
  <2> QED
    BY <2>1, <2>2
<1>5. ASSUME NEW p \in Procs, Search(r, p) PROVE Gated!Next
  <2>1. CASE unlocked[p]
    BY <1>2, <1>3, <1>5, <2>1 DEF Search, AnswerAt, procVars
  <2>2. CASE ~unlocked[p]
    BY <1>2, <1>3, <1>5, <2>2 DEF Search, AnswerAt, procVars
  <2> QED
    BY <2>1, <2>2
<1>6. ASSUME NEW p \in Procs, NEW k \in {"right", "wrong"}, Password(r, p, k) PROVE Gated!Next
  <2>0. k \in Keys
    BY DEF Keys
  <2>1. CASE unlocked[p]
    BY <1>2, <1>6, <2>0, <2>1 DEF Password, AnswerAt, procVars
  <2>2. CASE ~unlocked[p]
    BY <1>2, <1>6, <2>0, <2>2 DEF Password, AnswerAt, procVars
  <2> QED
    BY <2>1, <2>2
<1> QED
  BY <1>4, <1>5, <1>6 DEF Arrive

(* A task on its way is not answered yet.                                  *)
LEMMA OnItsWay ==
  \A label \in PCs \ Ended : AnswerAt(label) = "pending"
BY DEF PCs, Ended, AnswerAt

(* The steps of an unlock: setting the flag opens the gate, a recalled key *)
(* is offered to it, and most are not seen.                                *)
LEMMA UnlockingMapped ==
  ASSUME Inv, NEW t \in Tasks, Unlocking(t)
  PROVE  Gated!Next \/ UNCHANGED Gated!vars
<1>0. /\ AnswerAt(pc[t]) = "pending"
      /\ pc[t] \notin Ended \cup {"new"}
  BY DEF Unlocking, Recall, Accept, Reject, NoPayload, RecordFailure, Publish, ClearBlob,
         SetUnlocked, ResetFailures, Remember, Forget, Cleanup, Ended, AnswerAt
<1>h. /\ Home(t) \in Procs
      /\ t \in Procs => Home(t) = t
      /\ t \notin Procs => t \in Requests /\ Home(t) = home[t] /\ pc[Home(t)] = "up"
  BY <1>0, HomeKnown
<1>1. CASE Recall(t)
  <2> PICK k \in {keychain, "none"} :
        /\ key' = [key EXCEPT ![t] = k]
        /\ Goto(t, IF k = "none" THEN "cleanup" ELSE "verify")
    BY <1>1 DEF Recall
  <2>1. k \in Keys
    BY DEF Inv, TypeOK, Keys
  <2>2. Answers' = Answers
    BY <1>0 DEF Answers, Goto, AnswerAt, Inv, TypeOK, Tasks
  <2>3. Gated!Offer(t, k)
    BY <1>1, <2>2 DEF Recall, Gated!Offer, procVars
  <2> QED
    BY <2>1, <2>3 DEF Gated!Next, Gated!Keys, Keys, Gated!Tasks, Tasks
<1>2. CASE SetUnlocked(t)
  <2>1. Answers' = Answers
    BY <1>0, <1>2 DEF SetUnlocked, Answers, Goto, AnswerAt, Inv, TypeOK, Tasks
  <2>2. key[t] = "right"
    BY <1>2 DEF SetUnlocked, Inv, Progress
  <2>3. Home(t) = Gated!At(t)
    BY DEF Home, Gated!At
  <2>4. Gated!Open(t)
    BY <1>2, <2>1, <2>2, <2>3 DEF SetUnlocked, Gated!Open
  <2> QED
    BY <2>4 DEF Gated!Next, Gated!Tasks, Tasks
<1>3. ASSUME NEW label \in PCs \ Ended, Goto(t, label), UNCHANGED <<unlocked, key, home>>
      PROVE  UNCHANGED Gated!vars
  BY <1>0, <1>3, Unseen, OnItsWay
<1>4. ASSUME NEW label, Goto(t, label), UNCHANGED <<unlocked, key, home>>,
             \/ label \in {"up", "env", "gate", "forget", "remember"}
             \/ label = "refused" /\ t \in Requests
             \/ label = "opened" /\ t \in Requests /\ unlocked[Home(t)]
      PROVE  Gated!Next \/ UNCHANGED Gated!vars
  <2>1. CASE label \in {"up", "env", "gate", "forget", "remember"}
    BY <1>3, <1>4, <2>1 DEF PCs, Ended
  <2>2. CASE label = "refused" /\ t \in Requests
    BY <1>0, <1>4, <2>2, Answered DEF AnswerAt
  <2>3. CASE label = "opened" /\ t \in Requests /\ unlocked[Home(t)]
    <3>1. t \notin Procs
      BY <2>3, UnlockConstants DEF UnlockConstants
    <3> QED
      BY <1>0, <1>h, <1>4, <2>3, <3>1, Answered DEF AnswerAt
  <2> QED
    BY <1>4, <2>1, <2>2, <2>3
<1>5. t \notin Procs => t \in Requests
  BY DEF Tasks
<1>6. CASE Accept(t) \/ Reject(t)
  BY <1>3, <1>6 DEF Accept, Reject, OnOpened, PCs, Ended, procVars
<1>7. CASE Publish(t) \/ ClearBlob(t) \/ Forget(t)
  BY <1>3, <1>7 DEF Publish, ClearBlob, Forget, PCs, Ended, procVars
<1>8. CASE NoPayload(t)
  BY <1>4, <1>5, <1>8 DEF NoPayload, OnError, PasswordEnds, procVars
<1>9. CASE RecordFailure(t)
  BY <1>4, <1>5, <1>9 DEF RecordFailure, OnError, PasswordEnds
<1>10. CASE ResetFailures(t)
  <2>1. unlocked[Home(t)]
    BY <1>10 DEF ResetFailures, Inv, Progress
  <2> QED
    BY <1>4, <1>5, <1>10, <2>1 DEF ResetFailures, AutoEnds, PasswordEnds
<1>11. CASE Remember(t)
  <2>1. unlocked[Home(t)]
    BY <1>11 DEF Remember, Inv, Progress
  <2> QED
    BY <1>4, <1>5, <1>11, <2>1 DEF Remember, PasswordEnds, procVars
<1>12. CASE Cleanup(t)
  BY <1>4, <1>5, <1>12 DEF Cleanup, AutoEnds, procVars
<1> QED
  BY <1>1, <1>2, <1>6, <1>7, <1>8, <1>9, <1>10, <1>11, <1>12 DEF Unlocking

(* A relaunch is the abstract restart: what was on its way is denied.      *)
LEMMA RelaunchMapped ==
  ASSUME Inv, NEW p \in Procs, Relaunch(p)
  PROVE  Gated!Next
<1>1. Answers' = [r \in Requests |->
                    IF home[r] = p /\ Answers[r] = "pending" THEN "denied" ELSE Answers[r]]
  <2>1. ASSUME NEW r \in Requests
        PROVE  AnswerAt(pc'[r]) = IF home[r] = p /\ AnswerAt(pc[r]) = "pending"
                                    THEN "denied" ELSE AnswerAt(pc[r])
    <3>1. r # p /\ r \in Tasks
      BY UnlockConstants DEF UnlockConstants, Tasks
    <3>2. pc[r] \notin Ended <=> AnswerAt(pc[r]) = "pending"
      BY <3>1 DEF Inv, TypeOK, PCs, Ended, AnswerAt
    <3>3. pc'[r] = IF home[r] = p /\ pc[r] \notin Ended THEN "lost" ELSE pc[r]
      BY <3>1 DEF Relaunch
    <3> QED
      BY <3>2, <3>3 DEF AnswerAt
  <2> QED
    BY <2>1 DEF Answers
<1>2. Gated!Restart(p)
  BY <1>1 DEF Relaunch, Gated!Restart
<1> QED
  BY <1>2 DEF Gated!Next

(* Every step of the gate is a step of OrbGate, or unseen there.           *)
LEMMA StepMapped == Inv /\ [Next]_vars => [Gated!Next]_(Gated!vars)
<1> SUFFICES ASSUME Inv, [Next]_vars PROVE Gated!Next \/ UNCHANGED Gated!vars
  OBVIOUS
<1>1. ASSUME NEW r \in Requests, Arrive(r) PROVE Gated!Next
  BY <1>1, ArriveMapped
<1>2. ASSUME NEW r \in Requests, Gate(r) PROVE Gated!Next \/ UNCHANGED Gated!vars
  <2>1. Goto(r, "handler") \/ Goto(r, "locked")
    BY <1>2 DEF Gate
  <2>2. UNCHANGED <<unlocked, key, home>> /\ AnswerAt(pc[r]) = "pending" /\ r \in Tasks
    BY <1>2 DEF Gate, AnswerAt, Tasks, procVars
  <2>3. CASE Goto(r, "handler")
    BY <2>2, <2>3, Unseen DEF AnswerAt
  <2>4. CASE Goto(r, "locked")
    BY <2>2, <2>4, Answered DEF AnswerAt
  <2> QED
    BY <2>1, <2>3, <2>4
<1>3. ASSUME NEW r \in Requests, Handle(r) PROVE Gated!Next
  <2>1. pc[r] = "handler" /\ UNCHANGED <<unlocked, key, home>>
    BY <1>3 DEF Handle, procVars
  <2>2. AnswerAt(pc[r]) = "pending" /\ r \in Tasks
    BY <2>1 DEF AnswerAt, Tasks
  <2>3. home[r] \in Procs /\ unlocked[home[r]]
    BY <2>1 DEF Inv, Placed, Progress, TypeOK
  <2>4. PICK label \in {"served", "panicked"} : Goto(r, label)
    BY <1>3 DEF Handle
  <2>5. AnswerAt(label) = "served"
    BY DEF AnswerAt
  <2> QED
    BY <2>1, <2>2, <2>3, <2>4, <2>5, Answered
<1>4. ASSUME NEW t \in Tasks, Unlocking(t) PROVE Gated!Next \/ UNCHANGED Gated!vars
  BY <1>4, UnlockingMapped
<1>5. ASSUME NEW p \in Procs, EnvPassword(p) PROVE Gated!Next
  <2> PICK k \in {"right", "wrong"} : key' = [key EXCEPT ![p] = k]
    BY <1>5 DEF EnvPassword
  <2>1. Answers' = Answers
    BY <1>5, UnlockConstants
    DEF UnlockConstants, EnvPassword, Answers, Goto, Inv, TypeOK, Tasks
  <2>2. Gated!Offer(p, k)
    BY <1>5, <2>1 DEF EnvPassword, Gated!Offer, procVars
  <2> QED
    BY <2>2 DEF Gated!Next, Gated!Keys, Gated!Tasks
<1>6. ASSUME NEW p \in Procs, NoEnvPassword(p) PROVE UNCHANGED Gated!vars
  <2>1. Goto(p, "up") /\ UNCHANGED <<unlocked, key, home>> /\ p \in Tasks /\ p \notin Requests
    BY <1>6, UnlockConstants DEF UnlockConstants, NoEnvPassword, procVars, Tasks
  <2> QED
    BY <2>1, Unseen
<1>7. ASSUME NEW p \in Procs, Relaunch(p) PROVE Gated!Next
  BY <1>7, RelaunchMapped
<1>8. CASE AppRemembers
  BY <1>8 DEF AppRemembers, procVars, taskVars, Gated!vars, Answers
<1>9. CASE UNCHANGED vars
  BY <1>9 DEF vars, procVars, taskVars, Gated!vars, Answers
<1> QED
  BY <1>1, <1>2, <1>3, <1>4, <1>5, <1>6, <1>7, <1>8, <1>9 DEF Next

(* The gate implements its abstract specification OrbGate.                 *)
THEOREM UnlockImplementsGate == Spec => ImplementsGate
<1> QED
  BY GateInit, StepMapped, Invariance, PTL DEF Spec, ImplementsGate, Gated!Spec
=============================================================================
