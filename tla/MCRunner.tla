------------------------------- MODULE MCRunner -------------------------------
EXTENDS Runner, TLC
CONSTANTS a, b, home, away

Import(o, from) == [op |-> "import", orb |-> o, from |-> from, valid |-> TRUE]
Form(dir, port, binding) == [op |-> "save", form |-> [dir |-> dir, port |-> port, binding |-> binding]]
Of(op, o) == [op |-> op, orb |-> o]
Pick(f) == [op |-> "pick", folder |-> f]
Plain(op) == [op |-> op]

World(script, reg, dir, apart) ==
  [script |-> script, registry |-> reg, dir |-> dir, apart |-> apart,
   token |-> 0, foreign |-> {}, left |-> FALSE]

Two == a :> home @@ b :> Legacy
One == a :> Legacy
Nothing == <<>>

(* Two Orbs in two places, moved or deleted, within a volume and across.   *)
ChangeWorlds ==
  {World({Pick(away)} \cup s, Two, home, apart) :
     s \in {{Plain("migrate"), Plain("delete")}, {Plain("migrate"), Plain("close")},
            {Plain("migrate"), Plain("cancel")}, {Plain("delete"), Form(home, 1, "localhost")}},
     apart \in {{}, {away}}}

(* Imports and removals, with the folder chosen meanwhile.                 *)
ImportWorlds ==
  {World(s, One, None, {}) :
     s \in {{Import(a, None), Of("remove", a), Pick(home)}, {Import(b, None), Import(a, Legacy), Plain("dismiss")},
            {Import(b, None), Pick(home), Plain("migrate")}, {Import(b, None), Pick(home), Plain("close")},
            {[Import(b, None) EXCEPT !.valid = FALSE], Of("remove", b), Form(away, 1, "localhost")}}}

(* The gateway: found, left, in the way, re-keyed and moved.               *)
Gateways(s, places) ==
  {[script |-> {Plain("ensure")} \cup s, registry |-> One, dir |-> home, apart |-> {}, token |-> 1,
    foreign |-> place[1], left |-> place[2]] : place \in places}

GatewayWorlds ==
  Gateways({Plain("reset")}, {<<{}, FALSE>>, <<{}, TRUE>>, <<{1}, FALSE>>})
  \cup Gateways({Plain("close")}, {<<{}, FALSE>>, <<{}, TRUE>>, <<{1}, FALSE>>})
  \cup Gateways({Form(None, 1, "external")}, {<<{}, FALSE>>, <<{}, TRUE>>})
  \cup Gateways({Plain("stopgw"), Form(None, 2, "localhost")}, {<<{}, TRUE>>, <<{1}, FALSE>>})
  \cup {World({Plain("ensure"), Plain("status"), Plain("dismiss")}, Nothing, home, {})}

OrbServerWorlds ==
  {World(s, Two, home, {}) :
     s \in {{Of("start", a), Of("stop", a)}, {Of("start", a), Plain("ensure")}, {Of("start", a), Of("remove", a)},
            {[op |-> "batch", orbs |-> <<a, b>>], Plain("close")},
            {[op |-> "batch", orbs |-> <<a, b>>], Of("start", a)},
            {Of("start", a), Of("metrics", a), Of("stop", a)}, {Of("start", a), Of("metrics", a), Plain("close")},
            {Of("start", a), Of("metrics", a), [op |-> "batch", orbs |-> <<b>>]}}}

(* A process beside the app renews the bookmark while settings are saved.  *)
ProxyWorlds ==
  Gateways({Plain("proxy"), Plain("reset")}, {<<{}, FALSE>>})
  \cup Gateways({Plain("proxy"), Form(away, 1, "external")}, {<<{}, FALSE>>})
  \cup {World({Plain("proxy"), Pick(away), Plain("delete")}, One, home, {})}

MCWorlds == ChangeWorlds \cup ImportWorlds \cup GatewayWorlds \cup OrbServerWorlds \cup ProxyWorlds
=============================================================================
