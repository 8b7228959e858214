------------------------- MODULE MCChainNegotiation -------------------------
(* Instances of ChainNegotiation for TLC. *)
EXTENDS ChainNegotiation, TLC

CONSTANTS u1, u2, c1, c2

BothUsers == {u1, u2}
BothCalls == {c1, c2}

AllStyles == {"bare", "embedded", "detached"}
Negotiating == {"bare"}
AllFaults == {"none", "garbled", "token", "payload"}
NoFaults == {"none"}

\* The last renewal rotates the epoch.
RotateLast == [g \in 1..MaxGen |-> IF g = MaxGen THEN 2 ELSE 1]

\* One emitter that renews its chain; the receiver may pin the second of three, which
\* is newer than some messages, older than others, and of another epoch than the last.
Renewing(pin) == [chains |-> [user : {u1}, gen : 1..MaxGen], pinned |-> pin, cap |-> 1]
NoPin == {Renewing(None)}
AnyPin == {Renewing(pin) : pin \in {None} \cup [user : {u1}, gen : {2}]}

\* Two emitters that compete for the one entry of the cache.
Competing == [chains |-> [user : BothUsers, gen : {1}], pinned |-> None, cap |-> 1]
AllDeployments == AnyPin \cup {Competing}

\* A bound on the states explored.  A bad token is refused before any chain is looked
\* at, so it matters only for the look-up, which a bare one causes.
BadTokensAreBare ==
  \A c \in Calls :
    pc[c] # "idle" /\ msg[c].fault \in TokenFaults => msg[c].style = "bare"

CallSymmetry == Permutations(BothCalls)
=============================================================================
