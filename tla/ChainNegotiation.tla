-------------------------- MODULE ChainNegotiation --------------------------
(***************************************************************************)
(* Message-token emitters and a receiver that negotiate provenance chains: *)
(* the emitting transports (httpsig/_client.py, grpcsig/_client.py), the   *)
(* receiver's authenticate_message (_msgtransport.py:90-162) in one thread *)
(* per call, and the chain cache the threads share.                        *)
(*                                                                         *)
(* A chain is a (account token, user token) pair, here a record of the     *)
(* emitter it is for and its generation.  A transport keeps the chain it   *)
(* was built with; an emitter renews its chain, perhaps into a new epoch,  *)
(* by building a new transport while calls of the old one are under way.   *)
(* A chain stops verifying (its tokens expire, its domain closes) at a     *)
(* moment of its own.  verify_message is reduced to what the receiver's    *)
(* reaction depends on: which chain it used and which check failed first.  *)
(***************************************************************************)
EXTENDS ChainCache

CONSTANTS
  Users,      \* user keys of the emitters
  Calls,      \* calls that may be in flight at once
  MaxGen,     \* bound on the generations of a chain
  Epoch,      \* Epoch[g]: the trust-domain epoch generation g is minted in
  Styles,     \* how the emitters send: "bare", "embedded" or "detached"
  Faults,     \* what may be wrong with a message: "none", or the first check it
              \* fails: it does not decode ("garbled"), it is not a token its user
              \* signed for itself ("token"), its window or bindings ("payload")
  Deployments,
  None

ASSUME GenAssumption == MaxGen \in Nat \ {0}
ASSUME EpochAssumption == Epoch \in [1..MaxGen -> Nat]
ASSUME FaultsAssumption == Faults \subseteq {"none", "garbled", "token", "payload"}

\* What verify_message refuses before it chooses a chain.
TokenFaults == {"garbled", "token"}

Chains == [user : Users, gen : 1..MaxGen]
Messages == [user : Users, own : Chains, chain : Chains \cup {None},
             style : Styles, fault : Faults]

\* What is set up: the chains the emitters have and will be issued, the chain the
\* receiver's verify_options pin, or None, and the capacity of its cache.
Deployment == [chains : SUBSET Chains, pinned : Chains \cup {None}, cap : Nat \ {0}]

ASSUME NoneAssumption == None \notin Chains
ASSUME DeploymentAssumption == Deployments \subseteq Deployment

VARIABLES
  current,    \* current[u]: generation of the chain emitter u holds now
  valid,      \* the chains that would verify now
  deployment, \* the set-up, fixed
  cache,      \* the receiver's chain cache
  pc,         \* pc[c]: where call c is, at the emitter or in the receiver
  msg,        \* msg[c]: the message of call c; own is its transport's chain
  sends,      \* sends[c]: how often it has been sent
  detached,   \* detached[c]: the chain in its headers
  cached,     \* cached[c]: the chain its thread found in the cache
  answer,     \* answer[c]: the receiver's answer
  verified    \* the chains some message of their emitter has verified with

receiverVars == <<current, valid, deployment>>
callVars == <<pc, msg, sends, detached, cached, answer>>
vars == <<receiverVars, cache, callVars, verified>>

Steps == {"idle", "lookup", "verify", "attribute", "evict", "store", "answered"}
Answers == {"none", "ok", "rejected", "chain_required"}

Entries == [user : Users, chain : Chains]

TypeOK ==
  /\ current \in [Users -> 1..MaxGen]
  /\ valid \subseteq Chains
  /\ deployment \in Deployments
  /\ \A i \in DOMAIN cache : cache[i] \in Entries
  /\ pc \in [Calls -> Steps]
  /\ \A c \in Calls : pc[c] # "idle" => msg[c] \in Messages
  /\ sends \in [Calls -> 0..2]
  /\ detached \in [Calls -> Chains \cup {None}]
  /\ cached \in [Calls -> Chains \cup {None}]
  /\ answer \in [Calls -> Answers]
  /\ verified \subseteq Chains

Init ==
  /\ current = [u \in Users |-> 1]
  /\ deployment \in Deployments
  /\ valid = deployment.chains
  /\ cache = <<>>
  /\ pc = [c \in Calls |-> "idle"]
  /\ msg = [c \in Calls |-> None]
  /\ sends = [c \in Calls |-> 0]
  /\ detached = [c \in Calls |-> None]
  /\ cached = [c \in Calls |-> None]
  /\ answer = [c \in Calls |-> "none"]
  /\ verified = {}

-----------------------------------------------------------------------------
(* Emitters. *)

Issued(u, g) == [user |-> u, gen |-> g] \in deployment.chains
Held(u) == [user |-> u, gen |-> current[u]]

\* A new message.  A negotiating emitter ("bare") sends no chain, a plain one
\* embeds it; "detached" emitters attach it beside the token unasked.
Send(c, u, style, fault) ==
  /\ pc[c] = "idle" /\ Issued(u, current[u])
  /\ pc' = [pc EXCEPT ![c] = "lookup"]
  /\ msg' = [msg EXCEPT ![c] =
       [user |-> u, own |-> Held(u), style |-> style, fault |-> fault,
        chain |-> IF style = "embedded" THEN Held(u) ELSE None]]
  /\ sends' = [sends EXCEPT ![c] = 1]
  /\ detached' = [detached EXCEPT ![c] = IF style = "detached" THEN Held(u) ELSE None]
  /\ UNCHANGED <<receiverVars, cache, cached, answer, verified>>

\* The call is over for the emitter.
Finish(c) ==
  /\ pc' = [pc EXCEPT ![c] = "idle"]
  /\ msg' = [msg EXCEPT ![c] = None]
  /\ sends' = [sends EXCEPT ![c] = 0]
  /\ detached' = [detached EXCEPT ![c] = None]
  /\ cached' = [cached EXCEPT ![c] = None]
  /\ answer' = [answer EXCEPT ![c] = "none"]

\* Mutant of Negotiates: any rejection is answered with the chain.
NegotiatesAlways(c) == msg[c].style = "bare" /\ answer[c] # "ok"

\* When a negotiating emitter retransmits: on a chain-required rejection of its
\* first transmission.
Negotiates(c) ==
  msg[c].style = "bare" /\ answer[c] = "chain_required" /\ sends[c] = 1

\* The same token again, the transport's chain beside it.
Retransmit(c) ==
  /\ pc[c] = "answered"
  /\ Negotiates(c)
  /\ pc' = [pc EXCEPT ![c] = "lookup"]
  /\ sends' = [sends EXCEPT ![c] = 2]
  /\ detached' = [detached EXCEPT ![c] = msg[c].own]
  /\ cached' = [cached EXCEPT ![c] = None]
  /\ answer' = [answer EXCEPT ![c] = "none"]
  /\ UNCHANGED <<receiverVars, cache, msg, verified>>

\* Any other answer is final.
Conclude(c) ==
  /\ pc[c] = "answered"
  /\ ~Negotiates(c)
  /\ Finish(c)
  /\ UNCHANGED <<receiverVars, cache, verified>>

\* The answer, or the connection, is lost: the transport raises and the emitter
\* does not retransmit, though the receiver has done its part.
LoseAnswer(c) ==
  /\ pc[c] = "answered"
  /\ Finish(c)
  /\ UNCHANGED <<receiverVars, cache, verified>>

\* The emitter's chain is renewed; the generation before it may stay valid.
Renew(u) ==
  /\ Issued(u, current[u] + 1)
  /\ current' = [current EXCEPT ![u] = @ + 1]
  /\ UNCHANGED <<valid, deployment, cache, callVars, verified>>

\* The tokens of a chain expire, or their epoch is closed.
Expire(ch) ==
  /\ ch \in valid
  /\ valid' = valid \ {ch}
  /\ UNCHANGED <<current, deployment, cache, callVars, verified>>

\* A message token outlives its window while its call is under way.
TokenExpires(c) ==
  /\ pc[c] \in {"lookup", "answered"}
  /\ "payload" \in Faults
  /\ msg[c].fault = "none"
  /\ msg' = [msg EXCEPT ![c].fault = "payload"]
  /\ UNCHANGED <<receiverVars, cache, pc, sends, detached, cached, answer, verified>>

-----------------------------------------------------------------------------
(* The receiver. *)

\* verify_message: the checks on the token come before the chain is chosen, the
\* checks on the chain before those on the message's window and payload.
ReasonOf(m, supplied) ==
  LET chain == IF m.chain # None THEN m.chain ELSE supplied
  IN  CASE m.fault \in TokenFaults -> "bad_token"
        [] m.fault \notin TokenFaults /\ chain = None -> "no_chain"
        [] m.fault \notin TokenFaults /\ chain # None ->
             IF m.chain # None /\ supplied \notin {None, m.chain} THEN "chain_mismatch"
             ELSE IF chain.user # m.user THEN "chain_user_mismatch"
             ELSE IF Epoch[chain.gen] # Epoch[m.own.gen] THEN "epoch_mismatch"
             ELSE IF chain \notin valid THEN "expired"
             ELSE IF m.fault = "payload" THEN "checksum_mismatch"
             ELSE "ok"

pinned == deployment.pinned

\* Mutant of Supplied: a chain that was found outranks the pinned one.
SuppliedFoundFirst(found) == IF found # None THEN found ELSE pinned

\* run(): a pinned chain outranks the detached or cached one.
Supplied(found) == IF pinned # None THEN pinned ELSE found

\* The chain a successful run of message m has proved.
ProvedBy(m, supplied) == IF m.chain # None THEN m.chain ELSE supplied

Answered(c, a) ==
  /\ pc' = [pc EXCEPT ![c] = "answered"]
  /\ answer' = [answer EXCEPT ![c] = a]

\* Mutants of LookUp: the whole entry is taken for its chain; a detached chain
\* is cached before the message has been verified with it.
LookUpEntry(c) ==
  /\ pc[c] = "lookup"
  /\ pc' = [pc EXCEPT ![c] = "verify"]
  /\ LET hit == /\ detached[c] = None
                /\ msg[c].fault # "garbled"
                /\ Holds(cache, msg[c].user)
     IN  /\ cached' = [cached EXCEPT ![c] =
              IF hit THEN cache[At(cache, msg[c].user)] ELSE None]
         /\ cache' = IF hit THEN Touched(cache, msg[c].user) ELSE cache
  /\ UNCHANGED <<receiverVars, msg, sends, detached, answer, verified>>
LookUpStores(c) ==
  /\ pc[c] = "lookup"
  /\ detached[c] # None
  /\ pc' = [pc EXCEPT ![c] = "verify"]
  /\ cache' = Stored(cache, msg[c].user, detached[c], deployment.cap)
  /\ UNCHANGED <<receiverVars, msg, sends, detached, cached, answer, verified>>

\* Lines 112-124: without detached headers, the cache is asked for the chain of
\* the token's issuer, if the token decodes: whether it is a message token of that
\* issuer at all is only checked by verify_message.
LookUp(c) ==
  /\ pc[c] = "lookup"
  /\ pc' = [pc EXCEPT ![c] = "verify"]
  /\ LET hit == /\ detached[c] = None
                /\ msg[c].fault # "garbled"
                /\ Holds(cache, msg[c].user)
     IN  /\ cached' = [cached EXCEPT ![c] =
              IF hit THEN cache[At(cache, msg[c].user)].chain ELSE None]
         /\ cache' = IF hit THEN Touched(cache, msg[c].user) ELSE cache
  /\ UNCHANGED <<receiverVars, msg, sends, detached, answer, verified>>

\* Lines 135-137: the first run, with the detached or the cached chain.
Found(c) == IF detached[c] # None THEN detached[c] ELSE cached[c]
FirstReason(c) == ReasonOf(msg[c], Supplied(Found(c)))

\* The run succeeds; a detached chain is to be cached.
VerifyPasses(c) ==
  /\ pc[c] = "verify"
  /\ FirstReason(c) = "ok"
  /\ IF detached[c] # None
     THEN pc' = [pc EXCEPT ![c] = "store"] /\ UNCHANGED answer
     ELSE Answered(c, "ok")
  /\ verified' = verified \cup {ProvedBy(msg[c], Supplied(Found(c)))}
  /\ UNCHANGED <<receiverVars, cache, msg, sends, detached, cached>>

\* Mutant of VerifySuspectsCache: the failure is the message's, no second run.
VerifyBlamesMessage(c) ==
  /\ pc[c] = "verify"
  /\ FirstReason(c) # "ok"
  /\ cached[c] # None
  /\ Answered(c, "rejected")
  /\ UNCHANGED <<receiverVars, cache, msg, sends, detached, cached, verified>>

\* The run fails with a cached chain: attribute the failure first.
VerifySuspectsCache(c) ==
  /\ pc[c] = "verify"
  /\ FirstReason(c) # "ok"
  /\ cached[c] # None
  /\ pc' = [pc EXCEPT ![c] = "attribute"]
  /\ UNCHANGED <<receiverVars, cache, msg, sends, detached, cached, answer, verified>>

\* Mutant of VerifyFails: every failure asks for the chain.
VerifyFailsAsking(c) ==
  /\ pc[c] = "verify"
  /\ FirstReason(c) # "ok"
  /\ cached[c] = None
  /\ Answered(c, "chain_required")
  /\ UNCHANGED <<receiverVars, cache, msg, sends, detached, cached, verified>>

\* Lines 156-158: the run fails without one.
VerifyFails(c) ==
  /\ pc[c] = "verify"
  /\ FirstReason(c) # "ok"
  /\ cached[c] = None
  /\ Answered(c, IF FirstReason(c) = "no_chain" THEN "chain_required" ELSE "rejected")
  /\ UNCHANGED <<receiverVars, cache, msg, sends, detached, cached, verified>>

\* Lines 143-155: the second run, without the cached chain.
SecondReason(c) == ReasonOf(msg[c], Supplied(None))

\* The message stands or falls with the cached chain, or stands without it: the
\* cached entry is to be dropped.
AttributeToCache(c) ==
  /\ pc[c] = "attribute"
  /\ SecondReason(c) \in {"no_chain", "ok"}
  /\ pc' = [pc EXCEPT ![c] = "evict"]
  /\ answer' = [answer EXCEPT ![c] =
       IF SecondReason(c) = "ok" THEN "ok" ELSE "chain_required"]
  /\ verified' = IF SecondReason(c) = "ok"
                 THEN verified \cup {ProvedBy(msg[c], Supplied(None))} ELSE verified
  /\ UNCHANGED <<receiverVars, cache, msg, sends, detached, cached>>

\* The message fails on its own.
AttributeToMessage(c) ==
  /\ pc[c] = "attribute"
  /\ SecondReason(c) \notin {"no_chain", "ok"}
  /\ Answered(c, "rejected")
  /\ UNCHANGED <<receiverVars, cache, msg, sends, detached, cached, verified>>

\* cache.delete: whatever the entry is by now.
Evict(c) ==
  /\ pc[c] = "evict"
  /\ cache' = Dropped(cache, msg[c].user)
  /\ pc' = [pc EXCEPT ![c] = "answered"]
  /\ UNCHANGED <<receiverVars, msg, sends, detached, cached, answer, verified>>

\* Mutant of Store: the negotiated chain is never remembered.
StoreNothing(c) ==
  /\ pc[c] = "store"
  /\ Answered(c, "ok")
  /\ UNCHANGED <<receiverVars, cache, msg, sends, detached, cached, verified>>

\* Lines 160-161: cache.put of the detached chain.
Store(c) ==
  /\ pc[c] = "store"
  /\ cache' = Stored(cache, msg[c].user, detached[c], deployment.cap)
  /\ Answered(c, "ok")
  /\ UNCHANGED <<receiverVars, msg, sends, detached, cached, verified>>

Receive(c) ==
  \/ LookUp(c) \/ VerifyPasses(c) \/ VerifySuspectsCache(c) \/ VerifyFails(c)
  \/ AttributeToCache(c) \/ AttributeToMessage(c) \/ Evict(c) \/ Store(c)

Next ==
  \/ \E c \in Calls, u \in Users, style \in Styles, fault \in Faults :
       Send(c, u, style, fault)
  \/ \E c \in Calls : \/ Receive(c) \/ Retransmit(c) \/ Conclude(c)
                      \/ LoseAnswer(c) \/ TokenExpires(c)
  \/ \E u \in Users : Renew(u)
  \/ \E ch \in Chains : Expire(ch)

Spec == Init /\ [][Next]_vars

\* Receiver threads and emitters run to the end of what they do; messages need
\* not be sent and nothing need be lost.
FairSpec == Spec /\ \A c \in Calls : WF_vars(Receive(c) \/ Retransmit(c) \/ Conclude(c))
-----------------------------------------------------------------------------

\* The chain the sender has shown with its message.
Shown(c) == IF msg[c].chain # None THEN msg[c].chain ELSE detached[c]

\* Why a receiver may refuse a message for good: the message itself, the chain
\* its sender shows, or the chain the receiver's own configuration imposes.
Refusable(c) ==
  \/ msg[c].fault # "none"
  \/ pinned = None /\ Shown(c) \in Chains \ valid
  \/ /\ pinned # None
     /\ \/ pinned.user # msg[c].user
        \/ Epoch[pinned.gen] # Epoch[msg[c].own.gen]
        \/ pinned \notin valid
        \/ msg[c].chain \notin {None, pinned}

\* A good message whose sender shows a good chain is never refused because of
\* what the cache holds, held, or lost to another thread in the meantime
\* (_msgtransport.py:107-111).
RejectionExplained ==
  [][\A c \in Calls :
       answer[c] # "rejected" /\ answer'[c] = "rejected" => Refusable(c)]_vars

\* The chain is only asked for when sending it can change the answer: never of a
\* message that showed one, so a retransmission is settled and not asked again.
AskedOnlyWhenHelpful ==
  \A c \in Calls : answer[c] = "chain_required" =>
    /\ Shown(c) = None /\ pinned = None /\ sends[c] = 1
    /\ msg[c].fault \notin TokenFaults

\* The cache only holds chains that carried a message of their emitter through
\* verify_message (chain.py:8-9), in a receiver that pins none.
CacheHoldsVerified ==
  pinned = None => \A i \in DOMAIN cache :
    cache[i].chain \in verified /\ cache[i].chain.user = cache[i].user

\* The cache stays within its capacity with one entry per emitter, whichever
\* way lookups, stores and deletes of the threads interleave (chain.py:37-67).
CacheShape ==
  /\ Len(cache) <= deployment.cap
  /\ \A i, j \in DOMAIN cache : cache[i].user = cache[j].user => i = j

\* A genuine failure (bad checksum, wrong audience, expiry) of a message whose
\* chain the receiver knows is a plain rejection with no negotiation signal
\* (_msgtransport.py:107-110).
GenuineFailureIsPlain ==
  \A c \in Calls :
    /\ answer[c] = "chain_required"
    /\ cached[c] \in valid
    /\ cached[c] # None
    => msg[c].fault = "none"

\* What the two ends of call c see of it.
Exchange == [c \in Calls |->
  IF pc[c] = "idle" THEN [state |-> "idle", msg |-> None, shown |-> None]
  ELSE [state |-> IF pc[c] = "store" \/ answer[c] = "ok" THEN "accepted"
                  ELSE IF answer[c] = "rejected" THEN "refused"
                  ELSE IF answer[c] = "chain_required" THEN "asked" ELSE "open",
        msg |-> msg[c], shown |-> Shown(c)]]

\* What an emitter may send: its own chain in the message or not.
Sendable == UNION {[user : {ch.user}, own : {ch}, chain : {None, ch}, style : Styles,
                    fault : Faults] : ch \in Chains}

Negotiated == INSTANCE ChainExchange WITH exchange <- Exchange, Messages <- Sendable

\* The cache, its evictions and the second runs are invisible at both ends but for
\* what the receiver remembers: every message is accepted with a chain that verifies
\* at that moment and is pinned, shown or known, refused for a cause, or asked once
\* for its chain (_msgtransport.py:90-162).
ImplementsExchange == Negotiated!Spec

\* Once every emitter's chain is valid for good, negotiating emitters reach the
\* steady state of one transmission per message (httpsig/_client.py:37-39),
\* whatever stale lookups and deletes are still under way when they do.
SteadyState ==
  <>[](\A u \in Users : Issued(u, current[u]) => Held(u) \in valid)
    => <>[](\A c \in Calls : sends[c] <= 1)

\* Every call is answered and ends.
CallsSettle == \A c \in Calls : pc[c] # "idle" ~> pc[c] = "idle"
=============================================================================
