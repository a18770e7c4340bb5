-------------------------------- MODULE OrbGate --------------------------------
(***************************************************************************)
(* What the password of an Orb promises: a process of the Orb opens only   *)
(* when a key that opens it has been offered there, stays open until it    *)
(* ends, and serves knowledge only while open.                             *)
(***************************************************************************)
CONSTANTS Procs, Requests, None

VARIABLES
  open,     \* which processes have been unlocked
  offered,  \* the key each task (a request, a process's start-up) brings
  at,       \* the process each request is made to, or None
  answer    \* "pending", "served", "opened" or "denied"

vars == <<open, offered, at, answer>>

Tasks == Procs \cup Requests
Keys == {"none", "right", "wrong"}
At(t) == IF t \in Procs THEN t ELSE at[t]

Init ==
  /\ open = [p \in Procs |-> FALSE]
  /\ offered = [t \in Tasks |-> "none"]
  /\ at = [r \in Requests |-> None]
  /\ answer = [r \in Requests |-> "pending"]

(* A request arrives, or a key is offered, by the user or from the device. *)
Offer(t, k) ==
  /\ offered' = [offered EXCEPT ![t] = k]
  /\ UNCHANGED <<open, at, answer>>

Arrive(r, p, k, a) ==
  /\ at[r] = None
  /\ at' = [at EXCEPT ![r] = p]
  /\ offered' = [offered EXCEPT ![r] = k]
  /\ answer' = [answer EXCEPT ![r] = a]
  /\ a = "opened" => open[p]
  /\ UNCHANGED open

Open(t) ==
  /\ offered[t] = "right"
  /\ open' = [open EXCEPT ![At(t)] = TRUE]
  /\ UNCHANGED <<offered, at, answer>>

Grant(r, a) ==
  /\ answer[r] = "pending"
  /\ at[r] \in Procs
  /\ open[at[r]]
  /\ answer' = [answer EXCEPT ![r] = a]
  /\ UNCHANGED <<open, offered, at>>

Deny(r) ==
  /\ answer[r] = "pending"
  /\ answer' = [answer EXCEPT ![r] = "denied"]
  /\ UNCHANGED <<open, offered, at>>

(* A process ends, its requests with it; the next one starts out closed.   *)
Restart(p) ==
  /\ open' = [open EXCEPT ![p] = FALSE]
  /\ offered' = [offered EXCEPT ![p] = "none"]
  /\ answer' = [r \in Requests |->
                  IF at[r] = p /\ answer[r] = "pending" THEN "denied" ELSE answer[r]]
  /\ UNCHANGED at

Next ==
  \/ \E t \in Tasks : Open(t) \/ \E k \in Keys : Offer(t, k)
  \/ \E r \in Requests :
       \/ \E p \in Procs, k \in Keys, a \in {"pending", "opened", "denied"} : Arrive(r, p, k, a)
       \/ \E a \in {"served", "opened"} : Grant(r, a)
       \/ Deny(r)
  \/ \E p \in Procs : Restart(p)

Spec == Init /\ [][Next]_vars
=============================================================================
