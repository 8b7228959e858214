--------------------------- MODULE ChainExchange ---------------------------
(***************************************************************************)
(* What a message exchange promises its two ends, told without a cache,    *)
(* without threads and without the attribution of failures: a message is   *)
(* accepted with a chain that verifies at that moment, refused for what    *)
(* its sender or the receiver's configuration is to blame for, and asked   *)
(* for its chain at most once.  All a receiver may remember is which       *)
(* chains have carried a message (_msgtransport.py:90-111).                *)
(***************************************************************************)
CONSTANTS
  Calls,
  Messages,   \* records of a user, its own chain, the chain embedded, and a fault
  Chains, Epoch, None

VARIABLES
  pinned,     \* the chain the receiver insists on, or None
  valid,      \* the chains that would verify now
  verified,   \* the chains that have carried a message of their emitter
  exchange    \* exchange[c]: how far call c is, its message, the chain it showed

vars == <<pinned, valid, verified, exchange>>

Idle == [state |-> "idle", msg |-> None, shown |-> None]

Init ==
  /\ pinned \in Chains \cup {None}
  /\ valid \in SUBSET Chains
  /\ verified = {}
  /\ exchange = [c \in Calls |-> Idle]

\* The sender shows the chain it holds, in the message or beside it, or none.
Opening(e) ==
  /\ e \in [state : {"open"}, msg : Messages, shown : Chains \cup {None}]
  /\ e.shown \in {None, e.msg.own} /\ e.msg.chain \in {None, e.shown}

Begin(c) ==
  /\ exchange[c] = Idle
  /\ Opening(exchange'[c])
  /\ exchange' = [exchange EXCEPT ![c] = exchange'[c]]
  /\ UNCHANGED <<pinned, valid, verified>>

Carries(ch, m) ==
  m.fault = "none" /\ ch.user = m.user /\ Epoch[ch.gen] = Epoch[m.own.gen]

Settle(c, state) ==
  /\ exchange[c].state = "open" /\ exchange'[c].state = state
  /\ exchange' = [exchange EXCEPT ![c].state = state]
  /\ UNCHANGED <<pinned, valid>>

Accept(c) ==
  /\ Settle(c, "accepted")
  /\ \E ch \in valid :
       /\ Carries(ch, exchange[c].msg)
       /\ pinned # None => ch = pinned
       /\ pinned = None => ch \in IF exchange[c].shown # None THEN {exchange[c].shown} ELSE verified
       /\ verified' = verified \cup {ch}

Refuse(c) ==
  /\ Settle(c, "refused")
  /\ LET m == exchange[c].msg
     IN  \/ m.fault # "none"
         \/ pinned = None /\ exchange[c].shown \in Chains \ valid
         \/ /\ pinned # None
            /\ pinned \notin valid \/ ~Carries(pinned, m) \/ m.chain \notin {None, pinned}
  /\ UNCHANGED verified

Ask(c) ==
  /\ Settle(c, "asked")
  /\ pinned = None /\ exchange[c].shown = None /\ exchange[c].msg.fault \notin {"garbled", "token"}
  /\ UNCHANGED verified

Negotiate(c) ==
  /\ exchange[c].state = "asked"
  /\ exchange' = [exchange EXCEPT ![c] =
       [state |-> "open", msg |-> exchange[c].msg, shown |-> exchange[c].msg.own]]
  /\ UNCHANGED <<pinned, valid, verified>>

End(c) ==
  /\ exchange[c].state \in {"accepted", "refused", "asked"}
  /\ exchange' = [exchange EXCEPT ![c] = Idle]
  /\ UNCHANGED <<pinned, valid, verified>>

\* Time takes messages and chains out of their windows.
Outlive(c) ==
  /\ exchange[c].state # "idle" /\ exchange[c].msg.fault = "none"
  /\ exchange' = [exchange EXCEPT ![c].msg.fault = "payload"]
  /\ UNCHANGED <<pinned, valid, verified>>

Lapse ==
  /\ valid' \in SUBSET valid
  /\ UNCHANGED <<pinned, verified, exchange>>

Next ==
  \/ \E c \in Calls :
       \/ Begin(c) \/ Accept(c) \/ Refuse(c) \/ Ask(c) \/ Negotiate(c) \/ End(c) \/ Outlive(c)
  \/ Lapse

Spec == Init /\ [][Next]_vars
=============================================================================
