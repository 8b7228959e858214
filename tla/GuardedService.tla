--------------------------- MODULE GuardedService ---------------------------
(***************************************************************************)
(* What the auth transports promise to the application behind them: a      *)
(* handler runs for an identity only on what this identity has asked for   *)
(* and is allowed, and, where replays are suppressed, once for each        *)
(* asking.  A bearer, who signs nothing, is held to what it is allowed.    *)
(***************************************************************************)
CONSTANTS Workers, Who, Operations, Ids, Nobody

VARIABLES
  policy,     \* who is allowed what, who are bearers, whether replays are suppressed
  asked,      \* what has been asked for: [id, who, op]
  started,    \* the ids of the askings that a handler has run for
  serving     \* serving[w]: the identity and operation worker w's handler runs for

vars == <<policy, asked, started, serving>>

Init ==
  /\ policy \in [allowed : [Who -> SUBSET Operations], bearers : SUBSET Who, once : BOOLEAN]
  /\ asked = {} /\ started = {}
  /\ serving = [w \in Workers |-> Nobody]

Ask(id, who, op) ==
  /\ \A a \in asked : a.id # id
  /\ asked' = asked \cup {[id |-> id, who |-> who, op |-> op]}
  /\ UNCHANGED <<policy, started, serving>>

Serve(w, a, op) ==
  /\ serving[w] = Nobody
  /\ op \in policy.allowed[a.who]
  /\ a.who \notin policy.bearers => op = a.op /\ (policy.once => a.id \notin started)
  /\ started' = started \cup {a.id}
  /\ serving' = [serving EXCEPT ![w] = [who |-> a.who, op |-> op]]
  /\ UNCHANGED <<policy, asked>>

Finish(w) ==
  /\ serving' = [serving EXCEPT ![w] = Nobody]
  /\ UNCHANGED <<policy, asked, started>>

Next ==
  \/ \E id \in Ids, who \in Who, op \in Operations : Ask(id, who, op)
  \/ \E w \in Workers : Finish(w) \/ \E a \in asked, op \in Operations : Serve(w, a, op)

Spec == Init /\ [][Next]_vars
=============================================================================
