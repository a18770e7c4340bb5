-------------------------------- MODULE OrbPool --------------------------------
(***************************************************************************)
(* What the gateway promises its clients: each Orb has at most one child   *)
(* serving it, started by a call for that Orb and never replaced while it  *)
(* serves; a call is admitted only when its Orb has a serving child, and   *)
(* ends either refused or with the reply to its own question.              *)
(***************************************************************************)
CONSTANTS Calls, Slugs, None

VARIABLES
  asked,    \* the Orb each call is for
  serving,  \* the child that serves each Orb, or None
  stage,    \* "arriving", "admitted", "answered" or "refused"
  reply     \* the call whose question the reply is to, or None

vars == <<asked, serving, stage, reply>>

Init ==
  /\ asked \in [Calls -> Slugs]
  /\ serving = [s \in Slugs |-> None]
  /\ stage = [c \in Calls |-> "arriving"]
  /\ reply = [c \in Calls |-> None]

(* The Orb's child is there, or the call brings it.                        *)
Admit(c) ==
  /\ stage[c] = "arriving"
  /\ stage' = [stage EXCEPT ![c] = "admitted"]
  /\ \/ /\ serving[asked[c]] # None
        /\ UNCHANGED serving
     \/ /\ serving[asked[c]] = None
        /\ serving' = [serving EXCEPT ![asked[c]] = c]
  /\ UNCHANGED <<asked, reply>>

Refuse(c) ==
  /\ stage[c] \in {"arriving", "admitted"}
  /\ stage' = [stage EXCEPT ![c] = "refused"]
  /\ UNCHANGED <<asked, serving, reply>>

Answer(c) ==
  /\ stage[c] = "admitted"
  /\ stage' = [stage EXCEPT ![c] = "answered"]
  /\ reply' = [reply EXCEPT ![c] = c]
  /\ UNCHANGED <<asked, serving>>

(* Children of some Orbs are recycled, uninstalled or shut down.           *)
Stop(K) ==
  /\ serving' = [s \in Slugs |-> IF s \in K THEN None ELSE serving[s]]
  /\ UNCHANGED <<asked, stage, reply>>

Next ==
  \/ \E c \in Calls : Admit(c) \/ Refuse(c) \/ Answer(c)
  \/ \E K \in SUBSET Slugs : Stop(K)

Spec == Init /\ [][Next]_vars
=============================================================================
