----------------------- MODULE ChainNegotiationProofs -----------------------
(***************************************************************************)
(* Theorems about ChainNegotiation for every set of emitters and calls,    *)
(* every number of renewals, every assignment of epochs and every          *)
(* deployment.                                                             *)
(***************************************************************************)
EXTENDS ChainNegotiation, SequenceRemovals

USE GenAssumption, EpochAssumption, NoneAssumption, DeploymentAssumption

-----------------------------------------------------------------------------
(* The cache as a sequence with one entry per emitter. *)

OnePerUser(c) == \A i, j \in DOMAIN c : c[i].user = c[j].user => i = j

(* Without the entry at i, the others are left and their emitters differ.    *)
LEMMA RemoveEntry ==
  ASSUME NEW c \in Seq(Entries), OnePerUser(c), NEW i \in DOMAIN c
  PROVE  /\ RemoveAt(c, i) \in Seq(Entries) /\ Len(RemoveAt(c, i)) = Len(c) - 1
         /\ OnePerUser(RemoveAt(c, i))
         /\ \A j \in DOMAIN RemoveAt(c, i) :
              /\ RemoveAt(c, i)[j].user # c[i].user
              /\ \E k \in DOMAIN c : RemoveAt(c, i)[j] = c[k]
<1> DEFINE d == RemoveAt(c, i)
           was(j) == IF j < i THEN j ELSE j + 1
<1>1. /\ d \in Seq(Entries) /\ Len(d) = Len(c) - 1
      /\ \A j \in 1..(Len(c) - 1) : d[j] = c[was(j)]
  <2>1. i \in 1..Len(c)
    OBVIOUS
  <2>2. \A j \in 1..(Len(c) - 1) : d[j] = IF j < i THEN c[j] ELSE c[j + 1]
    BY <2>1, RemoveAtFacts
  <2> QED BY <2>1, <2>2, RemoveAtFacts
<1> HIDE DEF d
<1>2. DOMAIN c = 1..Len(c) /\ DOMAIN d = 1..Len(d) /\ Len(c) \in Nat
  BY <1>1, LenProperties
<1>3. \A j \in DOMAIN d : was(j) \in DOMAIN c /\ was(j) # i /\ d[j] = c[was(j)]
  BY <1>1, <1>2
<1>4. \A j, k \in DOMAIN d : was(j) = was(k) => j = k
  BY <1>2
<1> HIDE DEF was
<1>5. OnePerUser(d)
  BY <1>3, <1>4 DEF OnePerUser
<1>6. \A j \in DOMAIN d : d[j].user # c[i].user /\ \E k \in DOMAIN c : d[j] = c[k]
  BY <1>3 DEF OnePerUser
<1> QED BY <1>1, <1>5, <1>6 DEF d

(* An entry for an emitter that has none yet.                                *)
LEMMA AppendEntry ==
  ASSUME NEW c \in Seq(Entries), OnePerUser(c), NEW e \in Entries,
         \A i \in DOMAIN c : c[i].user # e.user
  PROVE  /\ Append(c, e) \in Seq(Entries) /\ Len(Append(c, e)) = Len(c) + 1
         /\ OnePerUser(Append(c, e))
         /\ \A j \in DOMAIN Append(c, e) :
              Append(c, e)[j] = e \/ \E k \in DOMAIN c : Append(c, e)[j] = c[k]
<1>1. /\ Append(c, e) \in Seq(Entries) /\ Len(Append(c, e)) = Len(c) + 1
      /\ \A i \in 1..Len(c) : Append(c, e)[i] = c[i]
      /\ Append(c, e)[Len(c) + 1] = e
  BY AppendProperties
<1> DEFINE d == Append(c, e)
<1> HIDE DEF d
<1>2. DOMAIN c = 1..Len(c) /\ DOMAIN d = 1..(Len(c) + 1) /\ Len(c) \in Nat
  BY <1>1, LenProperties DEF d
<1>3. \A j \in DOMAIN d : (j \in DOMAIN c /\ d[j] = c[j]) \/ (j = Len(c) + 1 /\ d[j] = e)
  BY <1>1, <1>2 DEF d
<1>4. OnePerUser(d)
  BY <1>3 DEF OnePerUser
<1> QED BY <1>1, <1>3, <1>4 DEF d

(* What a cache operation leaves: entries that were there, or the one that   *)
(* was put, one for each emitter.                                            *)
LEMMA TouchedKeeps ==
  ASSUME NEW c \in Seq(Entries), OnePerUser(c), NEW u
  PROVE  /\ Touched(c, u) \in Seq(Entries) /\ Len(Touched(c, u)) = Len(c)
         /\ OnePerUser(Touched(c, u))
         /\ \A j \in DOMAIN Touched(c, u) : \E k \in DOMAIN c : Touched(c, u)[j] = c[k]
<1>1. CASE ~Holds(c, u)
  BY <1>1 DEF Touched
<1>2. CASE Holds(c, u)
  <2> DEFINE i == At(c, u)
             kept == RemoveAt(c, i)
  <2>1. i \in DOMAIN c
    BY <1>2 DEF Holds, At
  <2>2. c[i] \in Entries /\ Len(c) \in Nat
    BY <2>1, ElementOfSeq, LenProperties
  <2>3. /\ kept \in Seq(Entries) /\ Len(kept) = Len(c) - 1 /\ OnePerUser(kept)
        /\ \A j \in DOMAIN kept : kept[j].user # c[i].user /\ \E k \in DOMAIN c : kept[j] = c[k]
    BY <2>1, RemoveEntry
  <2>4. Touched(c, u) = Append(kept, c[i])
    BY <1>2 DEF Touched
  <2> HIDE DEF i, kept
  <2> QED BY <2>1, <2>2, <2>3, <2>4, AppendEntry
<1> QED BY <1>1, <1>2

LEMMA DroppedKeeps ==
  ASSUME NEW c \in Seq(Entries), OnePerUser(c), NEW u
  PROVE  /\ Dropped(c, u) \in Seq(Entries) /\ Len(Dropped(c, u)) <= Len(c)
         /\ OnePerUser(Dropped(c, u))
         /\ \A j \in DOMAIN Dropped(c, u) : \E k \in DOMAIN c : Dropped(c, u)[j] = c[k]
<1>0. Len(c) \in Nat
  BY LenProperties
<1>1. CASE ~Holds(c, u)
  BY <1>0, <1>1 DEF Dropped
<1>2. CASE Holds(c, u)
  <2>1. At(c, u) \in DOMAIN c /\ Dropped(c, u) = RemoveAt(c, At(c, u))
    BY <1>2 DEF Holds, At, Dropped
  <2> QED BY <1>0, <2>1, RemoveEntry
<1> QED BY <1>1, <1>2

LEMMA StoredKeeps ==
  ASSUME NEW c \in Seq(Entries), OnePerUser(c), NEW u \in Users, NEW ch \in Chains,
         NEW cap \in Nat \ {0}, Len(c) <= cap
  PROVE  /\ Stored(c, u, ch, cap) \in Seq(Entries) /\ Len(Stored(c, u, ch, cap)) <= cap
         /\ OnePerUser(Stored(c, u, ch, cap))
         /\ \A j \in DOMAIN Stored(c, u, ch, cap) :
              \/ Stored(c, u, ch, cap)[j] = [user |-> u, chain |-> ch]
              \/ \E k \in DOMAIN c : Stored(c, u, ch, cap)[j] = c[k]
<1> DEFINE e == [user |-> u, chain |-> ch]
           kept == IF Holds(c, u) THEN RemoveAt(c, At(c, u))
                   ELSE IF Len(c) >= cap THEN Tail(c) ELSE c
<1>0. Len(c) \in Nat /\ e \in Entries /\ e.user = u
  BY LenProperties DEF Entries
<1>1. Stored(c, u, ch, cap) = Append(kept, e)
  BY DEF Stored
<1>2. /\ kept \in Seq(Entries) /\ Len(kept) < cap /\ OnePerUser(kept)
      /\ \A j \in DOMAIN kept : kept[j].user # u /\ \E k \in DOMAIN c : kept[j] = c[k]
  <2>1. CASE Holds(c, u)
    <3> DEFINE i == At(c, u)
    <3>1. i \in DOMAIN c /\ c[i].user = u
      BY <2>1 DEF Holds, At
    <3>2. kept = RemoveAt(c, i)
      BY <2>1
    <3> HIDE DEF kept, i
    <3>3. /\ RemoveAt(c, i) \in Seq(Entries) /\ Len(RemoveAt(c, i)) = Len(c) - 1
          /\ OnePerUser(RemoveAt(c, i))
          /\ \A j \in DOMAIN RemoveAt(c, i) :
               /\ RemoveAt(c, i)[j].user # c[i].user
               /\ \E k \in DOMAIN c : RemoveAt(c, i)[j] = c[k]
      BY <3>1, RemoveEntry
    <3> QED BY <1>0, <3>1, <3>2, <3>3
  <2>2. CASE ~Holds(c, u) /\ Len(c) >= cap
    <3>1. c # <<>>
      BY <1>0, <2>2, EmptySeq
    <3>2. Tail(c) = RemoveAt(c, 1) /\ 1 \in DOMAIN c
      BY <3>1, TailRemovesFirst
    <3>3. \A k \in DOMAIN c : c[k].user # u
      BY <2>2 DEF Holds
    <3>4. kept = RemoveAt(c, 1)
      BY <2>2, <3>2
    <3> HIDE DEF kept
    <3>5. /\ RemoveAt(c, 1) \in Seq(Entries) /\ Len(RemoveAt(c, 1)) = Len(c) - 1
          /\ OnePerUser(RemoveAt(c, 1))
          /\ \A j \in DOMAIN RemoveAt(c, 1) : \E k \in DOMAIN c : RemoveAt(c, 1)[j] = c[k]
      BY <3>2, RemoveEntry
    <3> QED BY <1>0, <3>3, <3>4, <3>5
  <2>3. CASE ~Holds(c, u) /\ ~(Len(c) >= cap)
    BY <1>0, <2>3 DEF Holds
  <2> QED BY <2>1, <2>2, <2>3
<1> HIDE DEF kept, e
<1>3. \A i \in DOMAIN kept : kept[i].user # e.user
  BY <1>0, <1>2
<1>4. /\ Append(kept, e) \in Seq(Entries) /\ Len(Append(kept, e)) = Len(kept) + 1
      /\ OnePerUser(Append(kept, e))
      /\ \A j \in DOMAIN Append(kept, e) :
           Append(kept, e)[j] = e \/ \E k \in DOMAIN kept : Append(kept, e)[j] = kept[k]
  BY <1>0, <1>2, <1>3, AppendEntry
<1>5. Len(kept) \in Nat
  BY <1>2, LenProperties
<1>6. \A j \in DOMAIN Append(kept, e) :
        Append(kept, e)[j] = e \/ \E k \in DOMAIN c : Append(kept, e)[j] = c[k]
  BY <1>2, <1>4
<1> QED BY <1>1, <1>2, <1>4, <1>5, <1>6 DEF e

-----------------------------------------------------------------------------
(* The inductive invariant. *)

Types ==
  /\ current \in [Users -> 1..MaxGen]
  /\ valid \subseteq Chains
  /\ deployment \in Deployments
  /\ pc \in [Calls -> Steps]
  /\ msg \in [Calls -> Messages \cup {None}]
  /\ sends \in [Calls -> 0..2]
  /\ detached \in [Calls -> Chains \cup {None}]
  /\ cached \in [Calls -> Chains \cup {None}]
  /\ answer \in [Calls -> Answers]
  /\ verified \subseteq Chains

CacheOK ==
  /\ cache \in Seq(Entries)
  /\ Len(cache) <= deployment.cap
  /\ OnePerUser(cache)
  /\ CacheHoldsVerified

\* A transport shows its own chain or none; a thread that was shown one looks up
\* none; what it stores is what it was shown and has verified.
CallOK(c) ==
  /\ pc[c] = "idle" => cached[c] = None /\ answer[c] = "none" /\ sends[c] = 0
  /\ pc[c] # "idle" =>
       /\ msg[c] \in Messages
       /\ msg[c].own.user = msg[c].user
       /\ msg[c].chain \in {None, msg[c].own}
       /\ detached[c] \in {None, msg[c].own}
       /\ sends[c] \in {1, 2}
       /\ sends[c] = 2 => detached[c] # None
       /\ detached[c] # None => cached[c] = None
  /\ pc[c] = "attribute" => cached[c] # None
  /\ pc[c] = "store" =>
       /\ detached[c] # None
       /\ pinned = None => detached[c] \in verified
  /\ answer[c] = "chain_required" =>
       /\ Shown(c) = None /\ pinned = None /\ sends[c] = 1
       /\ msg[c].fault \notin TokenFaults

NegInv == Types /\ CacheOK /\ \A c \in Calls : CallOK(c)

(* What the reason of a run says about the chains it had.                    *)
LEMMA ReasonFacts ==
  ASSUME NEW m, NEW s
  PROVE  /\ ReasonOf(m, s) = "no_chain" =>
              m.fault \notin TokenFaults /\ m.chain = None /\ s = None
         /\ ReasonOf(m, s) = "ok" => ~(m.chain = None /\ s = None)
         /\ ReasonOf(m, s) \notin {"no_chain", "ok"} =>
              \/ m.fault \in TokenFaults \cup {"payload"}
              \/ m.chain # None /\ s # None /\ s # m.chain
              \/ LET chain == IF m.chain # None THEN m.chain ELSE s
                 IN  /\ chain # None
                     /\ \/ chain.user # m.user
                        \/ Epoch[chain.gen] # Epoch[m.own.gen]
                        \/ chain \notin valid
<1> DEFINE chain == IF m.chain # None THEN m.chain ELSE s
<1>1. CASE m.fault \in TokenFaults
  BY <1>1 DEF ReasonOf
<1>2. CASE m.fault \notin TokenFaults /\ chain = None
  BY <1>2 DEF ReasonOf
<1>3. CASE m.fault \notin TokenFaults /\ chain # None
  BY <1>3 DEF ReasonOf
<1> QED BY <1>1, <1>2, <1>3

(* A call that a step leaves alone stays consistent.                         *)
LEMMA OthersKeep ==
  ASSUME NEW d \in Calls, CallOK(d),
         pc'[d] = pc[d], msg'[d] = msg[d], sends'[d] = sends[d],
         detached'[d] = detached[d], cached'[d] = cached[d], answer'[d] = answer[d],
         deployment' = deployment, verified \subseteq verified'
  PROVE  CallOK(d)'
BY DEF CallOK, pinned, Shown

(* So does a cache that a step leaves alone.                                 *)
LEMMA SameCacheKeeps ==
  ASSUME CacheOK, cache' = cache, deployment' = deployment, verified \subseteq verified'
  PROVE  CacheOK'
BY DEF CacheOK, OnePerUser, CacheHoldsVerified, pinned

LEMMA DeploymentFacts ==
  ASSUME deployment \in Deployments
  PROVE  /\ pinned \in Chains \cup {None}
         /\ deployment.cap \in Nat \ {0}
BY DEF Deployment, pinned

LEMMA NegInit == Init => NegInv
<1> SUFFICES ASSUME Init PROVE NegInv
  OBVIOUS
<1> USE DEF Init
<1>1. Types
  BY DEF Types, Steps, Answers, Deployment
<1>2. CacheOK
  BY DeploymentFacts, EmptySeq DEF CacheOK, OnePerUser, CacheHoldsVerified
<1>3. \A c \in Calls : CallOK(c)
  BY DEF CallOK
<1> QED BY <1>1, <1>2, <1>3 DEF NegInv

-----------------------------------------------------------------------------
(* Each step keeps it.  Emitters and the passing of time first. *)

LEMMA SendKeeps ==
  ASSUME NegInv, NEW c \in Calls, NEW u \in Users, NEW style \in Styles, NEW fault \in Faults,
         Send(c, u, style, fault)
  PROVE  NegInv'
<1> USE DEF NegInv
<1>1. Held(u) \in Chains /\ Held(u).user = u
  BY DEF Held, Types, Chains
<1>2. Types'
  BY <1>1 DEF Send, Types, receiverVars, Messages, Steps
<1>3. CacheOK'
  BY SameCacheKeeps DEF Send, receiverVars
<1>4. ASSUME NEW d \in Calls PROVE CallOK(d)'
  <2>1. CASE d # c
    BY <2>1, OthersKeep DEF Send, receiverVars, Types
  <2>2. CASE d = c
    <3>1. /\ msg'[c] = [user |-> u, own |-> Held(u), style |-> style, fault |-> fault,
                        chain |-> IF style = "embedded" THEN Held(u) ELSE None]
          /\ pc'[c] = "lookup" /\ sends'[c] = 1
          /\ detached'[c] \in {None, Held(u)}
          /\ cached'[c] = None /\ answer'[c] = "none"
      BY DEF Send, Types, CallOK
    <3>2. msg'[c] \in Messages
      BY <1>1, <3>1 DEF Messages
    <3> QED BY <1>1, <2>2, <3>1, <3>2 DEF CallOK
  <2> QED BY <2>1, <2>2
<1> QED BY <1>2, <1>3, <1>4

(* Conclude and LoseAnswer both end the call.                                *)
LEMMA FinishKeeps ==
  ASSUME NegInv, NEW c \in Calls, Finish(c), UNCHANGED <<receiverVars, cache, verified>>
  PROVE  NegInv'
<1> USE DEF NegInv
<1>1. Types'
  BY DEF Finish, Types, receiverVars, Steps, Answers
<1>2. CacheOK'
  BY SameCacheKeeps DEF receiverVars
<1>3. ASSUME NEW d \in Calls PROVE CallOK(d)'
  <2>1. CASE d # c
    BY <2>1, OthersKeep DEF Finish, receiverVars, Types
  <2>2. CASE d = c
    BY <2>2 DEF Finish, Types, CallOK
  <2> QED BY <2>1, <2>2
<1> QED BY <1>1, <1>2, <1>3

LEMMA RetransmitKeeps ==
  ASSUME NegInv, NEW c \in Calls, Retransmit(c)
  PROVE  NegInv'
<1> USE DEF NegInv
<1>0. CallOK(c) /\ pc[c] = "answered" /\ msg[c].own \in Chains
  BY DEF Retransmit, CallOK, Messages
<1>1. Types'
  BY <1>0 DEF Retransmit, Types, receiverVars, Steps, Answers
<1>2. CacheOK'
  BY SameCacheKeeps DEF Retransmit, receiverVars
<1>3. ASSUME NEW d \in Calls PROVE CallOK(d)'
  <2>1. CASE d # c
    BY <2>1, OthersKeep DEF Retransmit, receiverVars, Types
  <2>2. CASE d = c
    BY <1>0, <2>2 DEF Retransmit, Types, CallOK
  <2> QED BY <2>1, <2>2
<1> QED BY <1>1, <1>2, <1>3

LEMMA RenewKeeps ==
  ASSUME NegInv, NEW u \in Users, Renew(u)
  PROVE  NegInv'
<1> USE DEF NegInv
<1>1. current[u] + 1 \in 1..MaxGen
  BY DEF Renew, Issued, Types, Deployment, Chains
<1>2. Types'
  BY <1>1 DEF Renew, Types, callVars
<1>3. CacheOK'
  BY SameCacheKeeps DEF Renew
<1>4. ASSUME NEW d \in Calls PROVE CallOK(d)'
  BY OthersKeep DEF Renew, callVars
<1> QED BY <1>2, <1>3, <1>4

LEMMA ExpireKeeps ==
  ASSUME NegInv, NEW ch \in Chains, Expire(ch)
  PROVE  NegInv'
<1> USE DEF NegInv
<1>1. Types'
  BY DEF Expire, Types, callVars
<1>2. CacheOK'
  BY SameCacheKeeps DEF Expire
<1>3. ASSUME NEW d \in Calls PROVE CallOK(d)'
  BY OthersKeep DEF Expire, callVars
<1> QED BY <1>1, <1>2, <1>3

LEMMA TokenExpiresKeeps ==
  ASSUME NegInv, NEW c \in Calls, TokenExpires(c)
  PROVE  NegInv'
<1> USE DEF NegInv
<1>0. /\ CallOK(c) /\ pc[c] # "idle" /\ msg[c] \in Messages
      /\ msg' = [msg EXCEPT ![c] = [msg[c] EXCEPT !.fault = "payload"]]
      /\ "payload" \in Faults
  BY DEF TokenExpires, CallOK
<1>1. /\ [msg[c] EXCEPT !.fault = "payload"] \in Messages
      /\ \A f \in {"user", "own", "chain", "style"} :
           [msg[c] EXCEPT !.fault = "payload"][f] = msg[c][f]
      /\ [msg[c] EXCEPT !.fault = "payload"].fault = "payload"
  BY <1>0 DEF Messages
<1>2. Types'
  BY <1>0, <1>1 DEF TokenExpires, Types, receiverVars
<1>3. CacheOK'
  BY SameCacheKeeps DEF TokenExpires, receiverVars
<1>4. ASSUME NEW d \in Calls PROVE CallOK(d)'
  <2>1. CASE d # c
    BY <1>0, <2>1, OthersKeep DEF TokenExpires, receiverVars, Types
  <2>2. CASE d = c
    <3>1. msg'[c] = [msg[c] EXCEPT !.fault = "payload"]
      BY <1>0 DEF Types
    <3>2. /\ msg'[c] \in Messages /\ msg'[c].own = msg[c].own /\ msg'[c].user = msg[c].user
          /\ msg'[c].chain = msg[c].chain /\ msg'[c].fault = "payload"
      BY <1>0, <1>1, <3>1 DEF Messages
    <3> QED BY <1>0, <2>2, <3>2 DEF TokenExpires, TokenFaults, receiverVars, CallOK, Shown, pinned
  <2> QED BY <2>1, <2>2
<1> QED BY <1>2, <1>3, <1>4

-----------------------------------------------------------------------------
(* The receiver's steps. *)

LEMMA LookUpKeeps ==
  ASSUME NegInv, NEW c \in Calls, LookUp(c)
  PROVE  NegInv'
<1> USE DEF NegInv
<1> DEFINE hit == /\ detached[c] = None
                  /\ msg[c].fault # "garbled"
                  /\ Holds(cache, msg[c].user)
           found == IF hit THEN cache[At(cache, msg[c].user)].chain ELSE None
<1>1. CallOK(c) /\ pc[c] = "lookup" /\ cached' = [cached EXCEPT ![c] = found]
  BY DEF LookUp
<1>2. found \in Chains \cup {None} /\ (detached[c] # None => found = None)
  <2>1. CASE hit
    <3>1. At(cache, msg[c].user) \in DOMAIN cache /\ cache \in Seq(Entries)
      BY <2>1 DEF Holds, At, CacheOK
    <3>2. cache[At(cache, msg[c].user)] \in Entries
      BY <3>1, ElementOfSeq, LenProperties
    <3> QED BY <2>1, <3>2 DEF Entries
  <2>2. CASE ~hit
    BY <2>2
  <2> QED BY <2>1, <2>2
<1> HIDE DEF found
<1>3. Types'
  BY <1>1, <1>2 DEF LookUp, Types, receiverVars, Steps
<1>4. CacheOK'
  <2>1. CASE cache' = cache
    BY <2>1, SameCacheKeeps DEF LookUp, receiverVars
  <2>2. CASE cache' = Touched(cache, msg[c].user)
    <3>1. /\ cache' \in Seq(Entries) /\ Len(cache') = Len(cache) /\ OnePerUser(cache')
          /\ \A j \in DOMAIN cache' : \E k \in DOMAIN cache : cache'[j] = cache[k]
      BY <2>2, TouchedKeeps DEF CacheOK
    <3> QED BY <3>1 DEF LookUp, receiverVars, CacheOK, OnePerUser, CacheHoldsVerified, pinned
  <2> QED BY <2>1, <2>2 DEF LookUp
<1>5. ASSUME NEW d \in Calls PROVE CallOK(d)'
  <2>1. CASE d # c
    BY <2>1, OthersKeep DEF LookUp, receiverVars, Types
  <2>2. CASE d = c
    <3>1. cached'[c] = found /\ pc'[c] = "verify"
      BY <1>1 DEF LookUp, Types
    <3> QED BY <1>1, <1>2, <2>2, <3>1 DEF LookUp, receiverVars, CallOK, Shown, pinned
  <2> QED BY <2>1, <2>2
<1> QED BY <1>3, <1>4, <1>5

(* A run that succeeds has proved a chain.                                   *)
LEMMA ProvedIsChain ==
  ASSUME NEW m, m.chain \in Chains \cup {None}, NEW s \in Chains \cup {None},
         ReasonOf(m, s) = "ok"
  PROVE  ProvedBy(m, s) \in Chains
BY ReasonFacts DEF ProvedBy

LEMMA SuppliedFacts ==
  ASSUME NegInv, NEW c \in Calls, pc[c] # "idle"
  PROVE  /\ msg[c].chain \in Chains \cup {None}
         /\ Found(c) \in Chains \cup {None}
         /\ Supplied(Found(c)) \in Chains \cup {None}
         /\ Supplied(None) \in Chains \cup {None}
BY DeploymentFacts DEF NegInv, Types, CallOK, Messages, Found, Supplied

LEMMA VerifyPassesKeeps ==
  ASSUME NegInv, NEW c \in Calls, VerifyPasses(c)
  PROVE  NegInv'
<1> USE DEF NegInv
<1>1. CallOK(c) /\ pc[c] = "verify" /\ deployment' = deployment
  BY DEF VerifyPasses, receiverVars
<1>2. ProvedBy(msg[c], Supplied(Found(c))) \in Chains
  BY <1>1, SuppliedFacts, ProvedIsChain DEF VerifyPasses, FirstReason
<1>3. /\ pc'[c] \in {"store", "answered"} /\ pc' = [pc EXCEPT ![c] = pc'[c]]
      /\ pc'[c] = "store" => detached[c] # None
      /\ answer' = [answer EXCEPT ![c] = answer'[c]]
      /\ answer'[c] \in {answer[c], "ok"}
      /\ pc' \in [Calls -> Steps] /\ answer' \in [Calls -> Answers]
  <2>1. CASE detached[c] # None
    BY <2>1 DEF VerifyPasses, Types, Steps
  <2>2. CASE detached[c] = None
    BY <2>2 DEF VerifyPasses, Types, Answered, Steps, Answers
  <2> QED BY <2>1, <2>2
<1>4. Types'
  BY <1>2, <1>3 DEF VerifyPasses, Types, receiverVars
<1>5. CacheOK'
  BY SameCacheKeeps DEF VerifyPasses, receiverVars
<1>6. ASSUME NEW d \in Calls PROVE CallOK(d)'
  <2>1. CASE d # c
    <3>1. pc'[d] = pc[d] /\ answer'[d] = answer[d]
      BY <1>3, <2>1 DEF Types
    <3> QED BY <2>1, <3>1, OthersKeep DEF VerifyPasses, receiverVars
  <2>2. CASE d = c
    <3>1. detached[c] # None /\ pinned = None => ProvedBy(msg[c], Supplied(Found(c))) = detached[c]
      BY <1>1 DEF CallOK, ProvedBy, Supplied, Found
    <3>2. detached[c] # None /\ pinned = None => detached[c] \in verified'
      BY <3>1 DEF VerifyPasses
    <3> QED BY <1>1, <1>3, <2>2, <3>2 DEF VerifyPasses, CallOK, Shown, pinned
  <2> QED BY <2>1, <2>2
<1> QED BY <1>4, <1>5, <1>6

LEMMA VerifySuspectsCacheKeeps ==
  ASSUME NegInv, NEW c \in Calls, VerifySuspectsCache(c)
  PROVE  NegInv'
<1> USE DEF NegInv
<1>1. Types'
  BY DEF VerifySuspectsCache, Types, receiverVars, Steps
<1>2. CacheOK'
  BY SameCacheKeeps DEF VerifySuspectsCache, receiverVars
<1>3. ASSUME NEW d \in Calls PROVE CallOK(d)'
  <2>1. CASE d # c
    BY <2>1, OthersKeep DEF VerifySuspectsCache, receiverVars, Types
  <2>2. CASE d = c
    BY <2>2 DEF VerifySuspectsCache, receiverVars, Types, CallOK, Shown, pinned
  <2> QED BY <2>1, <2>2
<1> QED BY <1>1, <1>2, <1>3

(* An answer that ends the receiver's part, the cache left alone.            *)
LEMMA AnswerKeeps ==
  ASSUME NegInv, NEW c \in Calls, pc[c] # "idle", NEW a \in Answers, Answered(c, a),
         UNCHANGED <<receiverVars, cache, msg, sends, detached, cached, verified>>,
         a = "chain_required" => /\ Shown(c) = None /\ pinned = None /\ sends[c] = 1
                                 /\ msg[c].fault \notin TokenFaults
  PROVE  NegInv'
<1> USE DEF NegInv
<1>1. Types'
  BY DEF Answered, Types, receiverVars, Steps
<1>2. CacheOK'
  BY SameCacheKeeps DEF receiverVars
<1>3. ASSUME NEW d \in Calls PROVE CallOK(d)'
  <2>1. CASE d # c
    BY <2>1, OthersKeep DEF Answered, receiverVars, Types
  <2>2. CASE d = c
    <3>1. pc'[c] = "answered" /\ answer'[c] = a
      BY DEF Answered, Types
    <3> QED BY <2>2, <3>1 DEF receiverVars, CallOK, Shown, pinned
  <2> QED BY <2>1, <2>2
<1> QED BY <1>1, <1>2, <1>3

(* A run without a chain, of a message shown without one, in a receiver that *)
(* pins none: the first transmission.                                        *)
LEMMA NoChainFacts ==
  ASSUME NegInv, NEW c \in Calls, pc[c] # "idle", NEW found \in Chains \cup {None},
         ReasonOf(msg[c], Supplied(found)) = "no_chain", detached[c] = None
  PROVE  /\ Shown(c) = None /\ pinned = None /\ sends[c] = 1
         /\ msg[c].fault \notin TokenFaults
<1>1. msg[c].fault \notin TokenFaults /\ msg[c].chain = None /\ Supplied(found) = None
  BY ReasonFacts
<1>2. pinned = None
  BY <1>1 DEF Supplied
<1> QED BY <1>1, <1>2 DEF NegInv, CallOK, Shown

LEMMA VerifyFailsKeeps ==
  ASSUME NegInv, NEW c \in Calls, VerifyFails(c)
  PROVE  NegInv'
<1> DEFINE a == IF FirstReason(c) = "no_chain" THEN "chain_required" ELSE "rejected"
<1>1. pc[c] # "idle" /\ a \in Answers /\ Answered(c, a)
  BY DEF VerifyFails, Answers
<1>2. ASSUME a = "chain_required"
      PROVE  /\ Shown(c) = None /\ pinned = None /\ sends[c] = 1
             /\ msg[c].fault \notin TokenFaults
  <2>1. ReasonOf(msg[c], Supplied(Found(c))) = "no_chain"
    BY <1>2 DEF FirstReason
  <2>2. Supplied(Found(c)) = None
    BY <2>1, ReasonFacts
  <2>3. detached[c] = None /\ Found(c) \in Chains \cup {None}
    BY <1>1, <2>2, SuppliedFacts, DeploymentFacts DEF Supplied, Found, NegInv, Types
  <2> QED BY <1>1, <2>1, <2>3, NoChainFacts
<1> HIDE DEF a
<1> QED BY <1>1, <1>2, AnswerKeeps DEF VerifyFails

LEMMA AttributeToCacheKeeps ==
  ASSUME NegInv, NEW c \in Calls, AttributeToCache(c)
  PROVE  NegInv'
<1> USE DEF NegInv
<1>1. CallOK(c) /\ pc[c] = "attribute" /\ deployment' = deployment /\ detached[c] = None
  BY DEF AttributeToCache, receiverVars, CallOK
<1>2. SecondReason(c) = "ok" => ProvedBy(msg[c], Supplied(None)) \in Chains
  BY <1>1, SuppliedFacts, ProvedIsChain DEF SecondReason
<1>3. Types' /\ verified \subseteq verified'
  BY <1>2 DEF AttributeToCache, Types, receiverVars, Steps, Answers
<1>4. CacheOK'
  BY <1>3, SameCacheKeeps DEF AttributeToCache, receiverVars
<1>5. ASSUME NEW d \in Calls PROVE CallOK(d)'
  <2>1. CASE d # c
    BY <1>3, <2>1, OthersKeep DEF AttributeToCache, receiverVars, Types
  <2>2. CASE d = c
    <3>1. pc'[c] = "evict" /\ answer'[c] \in {"ok", "chain_required"}
      BY DEF AttributeToCache, Types
    <3>2. ASSUME answer'[c] = "chain_required"
          PROVE  /\ Shown(c) = None /\ pinned = None /\ sends[c] = 1
                 /\ msg[c].fault \notin TokenFaults
      <4>1. SecondReason(c) = "no_chain"
        BY <3>2 DEF AttributeToCache, Types
      <4> QED BY <1>1, <4>1, NoChainFacts DEF SecondReason
    <3> QED BY <1>1, <2>2, <3>1, <3>2 DEF AttributeToCache, CallOK, Shown, pinned
  <2> QED BY <2>1, <2>2
<1> QED BY <1>3, <1>4, <1>5

LEMMA AttributeToMessageKeeps ==
  ASSUME NegInv, NEW c \in Calls, AttributeToMessage(c)
  PROVE  NegInv'
BY AnswerKeeps DEF AttributeToMessage, Answers

LEMMA EvictKeeps ==
  ASSUME NegInv, NEW c \in Calls, Evict(c)
  PROVE  NegInv'
<1> USE DEF NegInv
<1>1. Types'
  BY DEF Evict, Types, receiverVars, Steps
<1>2. CacheOK'
  <2>1. /\ cache' \in Seq(Entries) /\ Len(cache') <= Len(cache) /\ OnePerUser(cache')
        /\ \A j \in DOMAIN cache' : \E k \in DOMAIN cache : cache'[j] = cache[k]
    BY DroppedKeeps DEF Evict, CacheOK
  <2>2. Len(cache') \in Nat /\ Len(cache) \in Nat /\ deployment.cap \in Nat
    BY <2>1, LenProperties, DeploymentFacts DEF CacheOK, Types
  <2> QED BY <2>1, <2>2 DEF Evict, receiverVars, CacheOK, OnePerUser, CacheHoldsVerified, pinned
<1>3. ASSUME NEW d \in Calls PROVE CallOK(d)'
  <2>1. CASE d # c
    BY <2>1, OthersKeep DEF Evict, receiverVars, Types
  <2>2. CASE d = c
    BY <2>2 DEF Evict, receiverVars, Types, CallOK, Shown, pinned
  <2> QED BY <2>1, <2>2
<1> QED BY <1>1, <1>2, <1>3

LEMMA StoreKeeps ==
  ASSUME NegInv, NEW c \in Calls, Store(c)
  PROVE  NegInv'
<1> USE DEF NegInv
<1>0. CallOK(c) /\ pc[c] = "store" /\ detached[c] # None /\ detached[c] = msg[c].own
  BY DEF Store, CallOK
<1>1. Types'
  BY DEF Store, Types, receiverVars, Steps, Answered, Answers
<1>2. CacheOK'
  <2>1. msg[c].user \in Users /\ detached[c] \in Chains /\ detached[c].user = msg[c].user
    BY <1>0 DEF CallOK, Messages
  <2>2. /\ cache' \in Seq(Entries) /\ Len(cache') <= deployment.cap /\ OnePerUser(cache')
        /\ \A j \in DOMAIN cache' :
             \/ cache'[j] = [user |-> msg[c].user, chain |-> detached[c]]
             \/ \E k \in DOMAIN cache : cache'[j] = cache[k]
    <3>1. deployment.cap \in Nat \ {0}
      BY DeploymentFacts DEF Types
    <3>2. cache' = Stored(cache, msg[c].user, detached[c], deployment.cap)
      BY DEF Store
    <3>3. cache \in Seq(Entries) /\ OnePerUser(cache) /\ Len(cache) <= deployment.cap
      BY DEF CacheOK
    <3> DEFINE u == msg[c].user
               ch == detached[c]
               cap == deployment.cap
    <3>4. u \in Users /\ ch \in Chains
      BY <2>1
    <3>5. cache' = Stored(cache, u, ch, cap)
      BY <3>2
    <3> SUFFICES /\ cache' \in Seq(Entries) /\ Len(cache') <= cap /\ OnePerUser(cache')
                 /\ \A j \in DOMAIN cache' :
                      \/ cache'[j] = [user |-> u, chain |-> ch]
                      \/ \E k \in DOMAIN cache : cache'[j] = cache[k]
      OBVIOUS
    <3> HIDE DEF u, ch, cap
    <3>6. cap \in Nat \ {0} /\ Len(cache) <= cap
      BY <3>1, <3>3 DEF cap
    <3> QED BY <3>3, <3>4, <3>5, <3>6, StoredKeeps
  <2>3. CacheHoldsVerified'
    <3> SUFFICES ASSUME pinned = None, NEW j \in DOMAIN cache'
                 PROVE  cache'[j].chain \in verified /\ cache'[j].chain.user = cache'[j].user
      BY DEF CacheHoldsVerified, Store, receiverVars, pinned
    <3>1. CASE cache'[j] = [user |-> msg[c].user, chain |-> detached[c]]
      BY <1>0, <2>1, <3>1 DEF CallOK
    <3>2. CASE \E k \in DOMAIN cache : cache'[j] = cache[k]
      BY <3>2 DEF CacheOK, CacheHoldsVerified
    <3> QED BY <2>2, <3>1, <3>2
  <2> QED BY <2>2, <2>3 DEF CacheOK, OnePerUser, Store, receiverVars
<1>3. ASSUME NEW d \in Calls PROVE CallOK(d)'
  <2>1. CASE d # c
    BY <2>1, OthersKeep DEF Store, Answered, receiverVars, Types
  <2>2. CASE d = c
    BY <1>0, <2>2 DEF Store, Answered, receiverVars, Types, CallOK, Shown, pinned
  <2> QED BY <2>1, <2>2
<1> QED BY <1>1, <1>2, <1>3

LEMMA StutterKeeps ==
  ASSUME NegInv, UNCHANGED vars
  PROVE  NegInv'
<1> USE DEF NegInv, vars, receiverVars, callVars
<1>1. Types'
  BY DEF Types
<1>2. CacheOK'
  BY SameCacheKeeps
<1>3. ASSUME NEW d \in Calls PROVE CallOK(d)'
  BY OthersKeep
<1> QED BY <1>1, <1>2, <1>3

LEMMA NegStep == NegInv /\ [Next]_vars => NegInv'
<1> SUFFICES ASSUME NegInv, [Next]_vars PROVE NegInv'
  OBVIOUS
<1>1. ASSUME NEW c \in Calls, NEW u \in Users, NEW style \in Styles, NEW fault \in Faults,
             Send(c, u, style, fault)
      PROVE  NegInv'
  BY <1>1, SendKeeps
<1>2. ASSUME NEW c \in Calls, Receive(c)
      PROVE  NegInv'
  BY <1>2, LookUpKeeps, VerifyPassesKeeps, VerifySuspectsCacheKeeps, VerifyFailsKeeps,
     AttributeToCacheKeeps, AttributeToMessageKeeps, EvictKeeps, StoreKeeps DEF Receive
<1>3. ASSUME NEW c \in Calls,
             Retransmit(c) \/ Conclude(c) \/ LoseAnswer(c) \/ TokenExpires(c)
      PROVE  NegInv'
  BY <1>3, RetransmitKeeps, FinishKeeps, TokenExpiresKeeps DEF Conclude, LoseAnswer
<1>4. ASSUME NEW u \in Users, Renew(u)
      PROVE  NegInv'
  BY <1>4, RenewKeeps
<1>5. ASSUME NEW ch \in Chains, Expire(ch)
      PROVE  NegInv'
  BY <1>5, ExpireKeeps
<1>6. CASE UNCHANGED vars
  BY <1>6, StutterKeeps
<1> QED BY <1>1, <1>2, <1>3, <1>4, <1>5, <1>6 DEF Next

LEMMA NegInvariant == Spec => []NegInv
BY NegInit, NegStep, PTL DEF Spec

-----------------------------------------------------------------------------

\* The state of emitters, receiver threads and cache keeps its shape.
THEOREM TypeCorrect == Spec => []TypeOK
<1>1. NegInv => TypeOK
  <2> SUFFICES ASSUME NegInv PROVE TypeOK
    OBVIOUS
  <2>1. \A i \in DOMAIN cache : cache[i] \in Entries
    BY ElementOfSeq, LenProperties DEF NegInv, CacheOK
  <2>2. \A c \in Calls : pc[c] # "idle" => msg[c] \in Messages
    BY DEF NegInv, CallOK
  <2> QED BY <2>1, <2>2 DEF NegInv, Types, TypeOK
<1> QED BY <1>1, NegInvariant, PTL

\* The receiver asks for a chain only where sending one can change the answer:
\* no negotiating emitter is asked again after its retransmission, whatever the
\* cache loses in between (_msgtransport.py:143-158).
THEOREM AskedOnlyWhenHelpfulHolds == Spec => []AskedOnlyWhenHelpful
<1>1. NegInv => AskedOnlyWhenHelpful
  BY DEF NegInv, CallOK, AskedOnlyWhenHelpful
<1> QED BY <1>1, NegInvariant, PTL

\* A receiver that pins no chain caches only chains that carried a message of
\* their emitter through verify_message, however its threads interleave
\* (_msgtransport.py:160-161, chain.py:8-9).
THEOREM CacheHoldsVerifiedHolds == Spec => []CacheHoldsVerified
<1>1. NegInv => CacheHoldsVerified
  BY DEF NegInv, CacheOK
<1> QED BY <1>1, NegInvariant, PTL

\* The shared cache stays within its capacity, one entry for each emitter
\* (chain.py:37-67).
THEOREM CacheShapeHolds == Spec => []CacheShape
<1>1. NegInv => CacheShape
  BY DEF NegInv, CacheOK, OnePerUser, CacheShape
<1> QED BY <1>1, NegInvariant, PTL

-----------------------------------------------------------------------------
(* Refusals. *)

(* A run with the chain its sender showed fails for a reason the sender or   *)
(* the receiver's own configuration gave.                                    *)
LEMMA FailureIsRefusable ==
  ASSUME NegInv, NEW c \in Calls, pc[c] # "idle",
         ReasonOf(msg[c], Supplied(detached[c])) \notin {"no_chain", "ok"}
  PROVE  Refusable(c)
<1> DEFINE s == Supplied(detached[c])
           chain == IF msg[c].chain # None THEN msg[c].chain ELSE s
<1>1. /\ msg[c] \in Messages /\ msg[c].own \in Chains /\ msg[c].own.user = msg[c].user
      /\ msg[c].chain \in {None, msg[c].own} /\ detached[c] \in {None, msg[c].own}
      /\ pinned \in Chains \cup {None}
  BY DeploymentFacts DEF NegInv, Types, CallOK, Messages
<1>2. \/ msg[c].fault \in TokenFaults \cup {"payload"}
      \/ msg[c].chain # None /\ s # None /\ s # msg[c].chain
      \/ /\ chain # None
         /\ \/ chain.user # msg[c].user
            \/ Epoch[chain.gen] # Epoch[msg[c].own.gen]
            \/ chain \notin valid
  BY ReasonFacts
<1>3. CASE msg[c].fault \in TokenFaults \cup {"payload"}
  BY <1>3 DEF Refusable, TokenFaults
<1>4. CASE pinned = None
  <2>1. s = detached[c]
    BY <1>4 DEF Supplied
  <2>2. ~(msg[c].chain # None /\ s # None /\ s # msg[c].chain)
    BY <1>1, <2>1
  <2>3. chain = Shown(c) /\ chain \in {None, msg[c].own}
    BY <1>1, <2>1 DEF Shown
  <2> QED BY <1>1, <1>2, <1>3, <1>4, <2>2, <2>3 DEF Refusable
<1>5. CASE pinned # None
  <2>1. s = pinned /\ s # None
    BY <1>5 DEF Supplied
  <2>2. CASE msg[c].chain \notin {None, pinned}
    BY <1>5, <2>2 DEF Refusable
  <2>3. CASE msg[c].chain \in {None, pinned}
    <3>1. chain = pinned
      BY <2>1, <2>3
    <3> QED BY <1>2, <1>3, <1>5, <2>1, <2>3, <3>1 DEF Refusable
  <2> QED BY <2>2, <2>3
<1> QED BY <1>4, <1>5

LEMMA RejectionStep ==
  ASSUME NegInv, Next, NEW c \in Calls, answer[c] # "rejected", answer'[c] = "rejected"
  PROVE  Refusable(c)
<1> USE DEF NegInv
<1>0. CallOK(c) /\ answer \in [Calls -> Answers]
  BY DEF Types
<1>1. ASSUME NEW d \in Calls, VerifyFails(d) PROVE Refusable(c)
  <2>1. d = c /\ pc[c] = "verify" /\ cached[c] = None
    BY <1>0, <1>1 DEF VerifyFails, Answered
  <2>2. Found(c) = detached[c]
    BY <2>1 DEF Found
  <2>3. FirstReason(c) \notin {"no_chain", "ok"}
    BY <1>0, <1>1, <2>1 DEF VerifyFails, Answered
  <2> QED BY <2>1, <2>2, <2>3, FailureIsRefusable DEF FirstReason
<1>2. ASSUME NEW d \in Calls, AttributeToMessage(d) PROVE Refusable(c)
  <2>1. d = c /\ pc[c] = "attribute" /\ detached[c] = None
    BY <1>0, <1>2 DEF AttributeToMessage, Answered, CallOK
  <2> QED BY <1>2, <2>1, FailureIsRefusable DEF AttributeToMessage, SecondReason
<1>3. ASSUME NEW d \in Calls, VerifyPasses(d) PROVE Refusable(c)
  BY <1>0, <1>3 DEF VerifyPasses, Answered
<1>4. ASSUME NEW d \in Calls,
             LookUp(d) \/ VerifySuspectsCache(d) \/ AttributeToCache(d) \/ Evict(d) \/ Store(d)
      PROVE  Refusable(c)
  BY <1>0, <1>4 DEF LookUp, VerifySuspectsCache, AttributeToCache, Evict, Store, Answered
<1>5. ASSUME NEW d \in Calls,
             Retransmit(d) \/ Conclude(d) \/ LoseAnswer(d) \/ TokenExpires(d)
      PROVE  Refusable(c)
  BY <1>0, <1>5 DEF Retransmit, Conclude, LoseAnswer, TokenExpires, Finish
<1>6. ASSUME NEW u \in Users, Renew(u) PROVE Refusable(c)
  BY <1>6 DEF Renew, callVars
<1>7. ASSUME NEW ch \in Chains, Expire(ch) PROVE Refusable(c)
  BY <1>7 DEF Expire, callVars
<1>8. ASSUME NEW d \in Calls, NEW u \in Users, NEW style \in Styles, NEW fault \in Faults,
             Send(d, u, style, fault)
      PROVE  Refusable(c)
  BY <1>8 DEF Send
<1> QED BY <1>1, <1>2, <1>3, <1>4, <1>5, <1>6, <1>7, <1>8 DEF Next, Receive

\* No good message whose sender shows a good chain is refused because of what the
\* cache holds, held, or lost to another thread (_msgtransport.py:107-111).
THEOREM RejectionExplainedHolds == Spec => RejectionExplained
<1>1. NegInv /\ [Next]_vars =>
        [\A c \in Calls :
           answer[c] # "rejected" /\ answer'[c] = "rejected" => Refusable(c)]_vars
  BY RejectionStep
<1> QED BY <1>1, NegInvariant, PTL DEF Spec, RejectionExplained

-----------------------------------------------------------------------------
(* The refinement of ChainExchange. *)

\* A call has an answer exactly from the moment its thread has decided; what its
\* thread found in the cache of a receiver that pins no chain has carried a message.
Decided(c) ==
  /\ pc[c] \in {"idle", "lookup", "verify", "attribute", "store"} => answer[c] = "none"
  /\ pc[c] = "evict" => answer[c] \in {"ok", "chain_required"}
  /\ pc[c] = "answered" => answer[c] # "none"
  /\ pinned = None /\ cached[c] # None => cached[c] \in verified

AllDecided == \A c \in Calls : Decided(c)

LEMMA DecidedInit == Init => AllDecided
BY DEF Init, AllDecided, Decided

LEMMA DecidedStep == NegInv /\ AllDecided /\ [Next]_vars => AllDecided'
<1> SUFFICES ASSUME NegInv, AllDecided, [Next]_vars, NEW c \in Calls PROVE Decided(c)'
  BY DEF AllDecided
<1> USE DEF Decided
<1>0. Decided(c) /\ Types /\ pc[c] \in Steps
  BY DEF AllDecided, NegInv, Types
<1>1. ASSUME NEW d \in Calls, NEW u \in Users, NEW style \in Styles, NEW fault \in Faults,
             Send(d, u, style, fault)
      PROVE  Decided(c)'
  BY <1>0, <1>1 DEF Send, receiverVars, pinned, Types
<1>2. ASSUME NEW d \in Calls, VerifySuspectsCache(d) PROVE Decided(c)'
  BY <1>0, <1>2 DEF VerifySuspectsCache, receiverVars, pinned, Types
<1>8. ASSUME NEW d \in Calls, LookUp(d) PROVE Decided(c)'
  <2>1. ASSUME pinned = None, d = c, cached'[c] # None PROVE cached'[c] \in verified
    <3>1. Holds(cache, msg[c].user) /\ cached'[c] = cache[At(cache, msg[c].user)].chain
      BY <1>0, <1>8, <2>1 DEF LookUp, Types
    <3>2. At(cache, msg[c].user) \in DOMAIN cache
      BY <3>1 DEF Holds, At
    <3> QED BY <2>1, <3>1, <3>2 DEF NegInv, CacheOK, CacheHoldsVerified
  <2>2. d # c => cached'[c] = cached[c]
    BY <1>0, <1>8 DEF LookUp, Types
  <2>3. pinned' = pinned /\ verified' = verified
    BY <1>8 DEF LookUp, receiverVars, pinned
  <2>4. pinned = None /\ cached'[c] # None => cached'[c] \in verified
    BY <1>0, <2>1, <2>2
  <2>5. /\ pc'[c] \in {"idle", "lookup", "verify", "attribute", "store"} => answer'[c] = "none"
        /\ pc'[c] = "evict" => answer'[c] \in {"ok", "chain_required"}
        /\ pc'[c] = "answered" => answer'[c] # "none"
    BY <1>0, <1>8 DEF LookUp, Types
  <2>6. (pinned = None /\ cached[c] # None => cached[c] \in verified)'
    BY <2>3, <2>4
  <2> QED BY <2>5, <2>6
<1>3. ASSUME NEW d \in Calls, VerifyPasses(d) PROVE Decided(c)'
  <2>1. CASE d = c /\ detached[c] # None
    BY <1>0, <1>3, <2>1 DEF VerifyPasses, receiverVars, pinned, Types
  <2>2. CASE ~(d = c /\ detached[c] # None)
    BY <1>0, <1>3, <2>2 DEF VerifyPasses, Answered, receiverVars, pinned, Types
  <2> QED BY <2>1, <2>2
<1>4. ASSUME NEW d \in Calls, VerifyFails(d) \/ AttributeToMessage(d) PROVE Decided(c)'
  BY <1>0, <1>4 DEF VerifyFails, AttributeToMessage, Answered, receiverVars, pinned, Types
<1>5. ASSUME NEW d \in Calls, AttributeToCache(d) \/ Evict(d) \/ Store(d) PROVE Decided(c)'
  BY <1>0, <1>5 DEF AttributeToCache, Evict, Store, Answered, receiverVars, pinned, Types
<1>6. ASSUME NEW d \in Calls,
             Retransmit(d) \/ Conclude(d) \/ LoseAnswer(d) \/ TokenExpires(d)
      PROVE  Decided(c)'
  BY <1>0, <1>6 DEF Retransmit, Conclude, LoseAnswer, TokenExpires, Finish, receiverVars, pinned, Types
<1>7. CASE \/ \E u \in Users : Renew(u)
           \/ \E ch \in Chains : Expire(ch)
           \/ UNCHANGED vars
  BY <1>0, <1>7 DEF Renew, Expire, vars, receiverVars, callVars, pinned
<1> QED BY <1>1, <1>2, <1>3, <1>4, <1>5, <1>6, <1>7, <1>8 DEF Next, Receive

(* A step that moves one call is seen as a change of this call alone.        *)
LEMMA SeenOfOthers ==
  ASSUME NEW c \in Calls,
         \A d \in Calls \ {c} : /\ pc'[d] = pc[d] /\ msg'[d] = msg[d]
                                /\ detached'[d] = detached[d] /\ answer'[d] = answer[d]
  PROVE  Exchange' = [Exchange EXCEPT ![c] = Exchange'[c]]
<1>1. \A d \in Calls \ {c} : Exchange'[d] = Exchange[d]
  BY DEF Exchange, Shown
<1>2. Exchange = [d \in Calls |-> Exchange[d]]
  BY DEF Exchange
<1>3. Exchange' = [d \in Calls |-> Exchange'[d]]
  BY DEF Exchange
<1> QED BY <1>1, <1>2, <1>3

(* What both ends see of a call that is under way.                           *)
AsSeen(c) ==
  /\ pc[c] = "idle" => Exchange[c] = [state |-> "idle", msg |-> None, shown |-> None]
  /\ pc[c] # "idle" =>
       /\ Exchange[c] = [state |-> Exchange[c].state, msg |-> msg[c], shown |-> Shown(c)]
       /\ pc[c] = "store" \/ answer[c] = "ok" => Exchange[c].state = "accepted"
       /\ pc[c] # "store" /\ answer[c] = "rejected" => Exchange[c].state = "refused"
       /\ pc[c] # "store" /\ answer[c] = "chain_required" => Exchange[c].state = "asked"
       /\ pc[c] # "store" /\ answer[c] = "none" => Exchange[c].state = "open"

AllSeen == \A c \in Calls : AsSeen(c)

LEMMA SeenOf == AllSeen
<1> SUFFICES ASSUME NEW c \in Calls PROVE AsSeen(c)
  BY DEF AllSeen
<1> DEFINE s == IF pc[c] = "store" \/ answer[c] = "ok" THEN "accepted"
                ELSE IF answer[c] = "rejected" THEN "refused"
                ELSE IF answer[c] = "chain_required" THEN "asked" ELSE "open"
<1>1. CASE pc[c] = "idle"
  BY <1>1 DEF Exchange, AsSeen
<1>2. CASE pc[c] # "idle"
  <2>1. Exchange[c] = [state |-> s, msg |-> msg[c], shown |-> Shown(c)]
    BY <1>2 DEF Exchange
  <2>2. /\ pc[c] = "store" \/ answer[c] = "ok" => s = "accepted"
        /\ pc[c] # "store" /\ answer[c] = "rejected" => s = "refused"
        /\ pc[c] # "store" /\ answer[c] = "chain_required" => s = "asked"
        /\ pc[c] # "store" /\ answer[c] = "none" => s = "open"
    OBVIOUS
  <2> HIDE DEF s
  <2> QED BY <1>2, <2>1, <2>2 DEF AsSeen
<1> QED BY <1>1, <1>2

Seen == NegInv /\ AllDecided /\ AllSeen

LEMMA OkFacts ==
  ASSUME NEW m, NEW s, ReasonOf(m, s) = "ok"
  PROVE  /\ m.fault \notin TokenFaults \cup {"payload"}
         /\ ProvedBy(m, s) # None /\ ProvedBy(m, s) \in valid
         /\ ProvedBy(m, s).user = m.user
         /\ Epoch[ProvedBy(m, s).gen] = Epoch[m.own.gen]
         /\ m.chain # None => s \in {None, m.chain}
<1> DEFINE chain == IF m.chain # None THEN m.chain ELSE s
<1>1. m.fault \notin TokenFaults /\ chain # None
  BY DEF ReasonOf
<1>2. CASE m.fault \notin TokenFaults /\ chain # None
  BY <1>2 DEF ReasonOf, ProvedBy
<1> QED BY <1>1, <1>2

(* A run that succeeds lets its call be accepted, with the chain it proved.  *)
LEMMA ProvedIsAcceptable ==
  ASSUME NegInv, NEW c \in Calls, pc[c] # "idle", NEW found \in Chains \cup {None},
         detached[c] # None => found = detached[c],
         pinned = None /\ detached[c] = None /\ found # None => found \in verified,
         ReasonOf(msg[c], Supplied(found)) = "ok"
  PROVE  LET ch == ProvedBy(msg[c], Supplied(found))
         IN  /\ ch \in valid
             /\ Negotiated!Carries(ch, msg[c])
             /\ pinned # None => ch = pinned
             /\ pinned = None => ch \in IF Shown(c) # None THEN {Shown(c)} ELSE verified
<1> DEFINE ch == ProvedBy(msg[c], Supplied(found))
<1>1. /\ msg[c] \in Messages /\ msg[c].fault \in Faults
      /\ pinned \in Chains \cup {None}
  BY DeploymentFacts DEF NegInv, Types, CallOK, Messages
<1>2. /\ msg[c].fault \notin TokenFaults \cup {"payload"}
      /\ ch # None /\ ch \in valid /\ ch.user = msg[c].user
      /\ Epoch[ch.gen] = Epoch[msg[c].own.gen]
      /\ msg[c].chain # None => Supplied(found) \in {None, msg[c].chain}
  BY OkFacts
<1>3. Negotiated!Carries(ch, msg[c])
  BY <1>1, <1>2, FaultsAssumption DEF Negotiated!Carries, TokenFaults
<1>4. pinned # None => ch = pinned
  BY <1>2 DEF ProvedBy, Supplied
<1>5. pinned = None => ch \in IF Shown(c) # None THEN {Shown(c)} ELSE verified
  BY <1>2 DEF ProvedBy, Supplied, Shown
<1> QED BY <1>2, <1>3, <1>4, <1>5

(* The initial states and the steps, one after the other.                    *)
LEMMA ExchangeInit == Init => Negotiated!Init
<1> SUFFICES ASSUME Init PROVE Negotiated!Init
  OBVIOUS
<1>1. Exchange = [c \in Calls |-> Negotiated!Idle]
  BY DEF Init, Exchange, Negotiated!Idle
<1>2. pinned \in Chains \cup {None} /\ valid \in SUBSET Chains
  BY DeploymentFacts DEF Init, Deployment
<1> QED BY <1>1, <1>2 DEF Init, Negotiated!Init

(* The frame of a step of call c.                                            *)
Alone(c) == \A d \in Calls \ {c} : /\ pc'[d] = pc[d] /\ msg'[d] = msg[d]
                                   /\ detached'[d] = detached[d] /\ answer'[d] = answer[d]

LEMMA BeginsExchange ==
  ASSUME Seen, AllSeen', NEW c \in Calls, NEW u \in Users, NEW style \in Styles,
         NEW fault \in Faults, Send(c, u, style, fault)
  PROVE  Negotiated!Begin(c)
<1> DEFINE m == [user |-> u, own |-> Held(u), style |-> style, fault |-> fault,
                 chain |-> IF style = "embedded" THEN Held(u) ELSE None]
<1>0. Types /\ Decided(c) /\ AsSeen(c) /\ AsSeen(c)'
  BY DEF Seen, NegInv, AllDecided, AllSeen
<1>1. /\ pc[c] = "idle" /\ pc'[c] = "lookup" /\ msg'[c] = m
      /\ detached'[c] = IF style = "detached" THEN Held(u) ELSE None
      /\ answer'[c] = "none"
  BY <1>0 DEF Send, Types, Decided
<1>2. Held(u) \in Chains /\ Held(u).user = u
  BY <1>0 DEF Held, Types, Chains
<1> DEFINE shown == IF m.chain # None THEN m.chain ELSE detached'[c]
<1>3. m \in Sendable
  BY <1>2 DEF Sendable
<1>4. shown \in {None, m.own} /\ shown \in Chains \cup {None} /\ m.chain \in {None, shown}
  BY <1>1, <1>2
<1>5. Exchange'[c] = [state |-> "open", msg |-> m, shown |-> shown]
  BY <1>0, <1>1 DEF AsSeen, Shown
<1>6. Exchange[c] = Negotiated!Idle
  BY <1>0, <1>1 DEF AsSeen, Negotiated!Idle
<1>7. Negotiated!Opening(Exchange'[c])
  <2> HIDE DEF m, shown
  <2> QED BY <1>3, <1>4, <1>5 DEF Negotiated!Opening
<1>8. Exchange' = [Exchange EXCEPT ![c] = Exchange'[c]]
  BY <1>0, SeenOfOthers DEF Send, Types
<1> QED BY <1>6, <1>7, <1>8 DEF Negotiated!Begin, Send, receiverVars, pinned

(* The two ways a call is accepted.                                          *)
LEMMA AcceptsExchange ==
  ASSUME Seen, AllSeen', NEW c \in Calls, pc[c] \in {"verify", "attribute"},
         NEW found \in Chains \cup {None},
         detached[c] # None => found = detached[c],
         pinned = None /\ detached[c] = None /\ found # None => found \in verified,
         ReasonOf(msg[c], Supplied(found)) = "ok",
         verified' = verified \cup {ProvedBy(msg[c], Supplied(found))},
         pc'[c] = "store" \/ (pc'[c] # "idle" /\ answer'[c] = "ok"),
         msg'[c] = msg[c], detached'[c] = detached[c], Alone(c),
         deployment' = deployment, valid' = valid
  PROVE  Negotiated!Accept(c)
<1> DEFINE ch == ProvedBy(msg[c], Supplied(found))
<1>0. NegInv /\ Decided(c) /\ AsSeen(c) /\ AsSeen(c)'
  BY DEF Seen, AllDecided, AllSeen
<1>1. Exchange[c] = [state |-> "open", msg |-> msg[c], shown |-> Shown(c)]
  BY <1>0 DEF AsSeen, Decided
<1>2. Exchange'[c] = [state |-> "accepted", msg |-> msg[c], shown |-> Shown(c)]
  BY <1>0 DEF AsSeen, Shown
<1>3. Exchange' = [Exchange EXCEPT ![c] = Exchange'[c]]
  BY SeenOfOthers DEF Alone
<1>4. Exchange' = [Exchange EXCEPT ![c].state = "accepted"]
  BY <1>1, <1>2, <1>3
<1>5. Negotiated!Settle(c, "accepted")
  BY <1>1, <1>2, <1>4 DEF Negotiated!Settle, pinned
<1>6. /\ ch \in valid
      /\ Negotiated!Carries(ch, Exchange[c].msg)
      /\ pinned # None => ch = pinned
      /\ pinned = None => ch \in IF Exchange[c].shown # None THEN {Exchange[c].shown} ELSE verified
  <2>1. pc[c] # "idle"
    OBVIOUS
  <2>2. /\ ch \in valid
        /\ Negotiated!Carries(ch, msg[c])
        /\ pinned # None => ch = pinned
        /\ pinned = None => ch \in IF Shown(c) # None THEN {Shown(c)} ELSE verified
    BY <1>0, <2>1, ProvedIsAcceptable
  <2>3. Exchange[c].msg = msg[c] /\ Exchange[c].shown = Shown(c)
    BY <1>1
  <2> HIDE DEF ch
  <2> QED BY <2>2, <2>3
<1> HIDE DEF ch
<1>7. verified' = verified \cup {ch}
  BY DEF ch
<1> QED BY <1>5, <1>6, <1>7 DEF Negotiated!Accept

(* A thread that rejects a call is refused for a cause the ends can see.     *)
LEMMA RefusesExchange ==
  ASSUME Seen, AllSeen', NEW c \in Calls, pc[c] \in {"verify", "attribute"}, Refusable(c),
         Answered(c, "rejected"),
         UNCHANGED <<receiverVars, cache, msg, sends, detached, cached, verified>>
  PROVE  Negotiated!Refuse(c)
<1>0. NegInv /\ Types /\ Decided(c) /\ AsSeen(c) /\ AsSeen(c)'
  BY DEF Seen, AllDecided, AllSeen, NegInv
<1>1. Exchange[c] = [state |-> "open", msg |-> msg[c], shown |-> Shown(c)]
  BY <1>0 DEF AsSeen, Decided
<1>2. pc'[c] = "answered" /\ answer'[c] = "rejected"
  BY <1>0 DEF Answered, Types
<1>3. Exchange'[c] = [state |-> "refused", msg |-> msg[c], shown |-> Shown(c)]
  BY <1>0, <1>2 DEF AsSeen, Shown
<1>4. Exchange' = [Exchange EXCEPT ![c] = Exchange'[c]]
  BY <1>0, SeenOfOthers DEF Answered, Types
<1>5. Exchange' = [Exchange EXCEPT ![c].state = "refused"]
  BY <1>1, <1>3, <1>4
<1>6. Negotiated!Settle(c, "refused")
  BY <1>1, <1>3, <1>5 DEF Negotiated!Settle, receiverVars, pinned
<1>7. \/ msg[c].fault # "none"
      \/ pinned = None /\ Shown(c) \in Chains \ valid
      \/ /\ pinned # None
         /\ \/ pinned \notin valid \/ ~Negotiated!Carries(pinned, msg[c])
            \/ msg[c].chain \notin {None, pinned}
  BY DEF Refusable, Negotiated!Carries
<1> QED BY <1>1, <1>6, <1>7 DEF Negotiated!Refuse

(* A receiver asks for a chain it has not been shown.                        *)
LEMMA AsksExchange ==
  ASSUME Seen, AllSeen', NEW c \in Calls, pc[c] \in {"verify", "attribute"},
         Shown(c) = None, pinned = None, msg[c].fault \notin TokenFaults,
         pc'[c] \notin {"idle", "store"}, answer'[c] = "chain_required", Alone(c),
         UNCHANGED <<receiverVars, msg, detached, verified>>
  PROVE  Negotiated!Ask(c)
<1>0. Decided(c) /\ AsSeen(c) /\ AsSeen(c)'
  BY DEF Seen, AllDecided, AllSeen
<1>1. Exchange[c] = [state |-> "open", msg |-> msg[c], shown |-> Shown(c)]
  BY <1>0 DEF AsSeen, Decided
<1>2. Exchange'[c] = [state |-> "asked", msg |-> msg[c], shown |-> Shown(c)]
  BY <1>0 DEF AsSeen, Shown
<1>3. Exchange' = [Exchange EXCEPT ![c] = Exchange'[c]]
  BY SeenOfOthers DEF Alone
<1>4. Exchange' = [Exchange EXCEPT ![c].state = "asked"]
  BY <1>1, <1>2, <1>3
<1>5. Negotiated!Settle(c, "asked")
  BY <1>1, <1>2, <1>4 DEF Negotiated!Settle, receiverVars, pinned
<1> QED BY <1>1, <1>5 DEF Negotiated!Ask, TokenFaults

LEMMA NegotiatesExchange ==
  ASSUME Seen, AllSeen', NEW c \in Calls, Retransmit(c)
  PROVE  Negotiated!Negotiate(c)
<1>0. Types /\ CallOK(c) /\ AsSeen(c) /\ AsSeen(c)'
  BY DEF Seen, AllSeen, NegInv
<1>1. /\ pc[c] = "answered" /\ answer[c] = "chain_required"
      /\ pc'[c] = "lookup" /\ answer'[c] = "none" /\ msg'[c] = msg[c]
      /\ detached'[c] = msg[c].own
  BY <1>0 DEF Retransmit, Negotiates, Types
<1>2. Shown(c) = None /\ msg[c].chain = None
  BY <1>0, <1>1, DeploymentFacts DEF CallOK, Shown
<1>3. Exchange[c] = [state |-> "asked", msg |-> msg[c], shown |-> None]
  BY <1>0, <1>1, <1>2 DEF AsSeen
<1>4. Exchange'[c] = [state |-> "open", msg |-> msg[c], shown |-> msg[c].own]
  BY <1>0, <1>1, <1>2 DEF AsSeen, Shown
<1>5. Exchange' = [Exchange EXCEPT ![c] = Exchange'[c]]
  BY <1>0, SeenOfOthers DEF Retransmit, Types
<1>6. Exchange' = [Exchange EXCEPT ![c] =
        [state |-> "open", msg |-> Exchange[c].msg, shown |-> Exchange[c].msg.own]]
  BY <1>3, <1>4, <1>5
<1> QED BY <1>3, <1>6 DEF Negotiated!Negotiate, Retransmit, receiverVars, pinned

LEMMA EndsExchange ==
  ASSUME Seen, AllSeen', NEW c \in Calls, Conclude(c) \/ LoseAnswer(c)
  PROVE  Negotiated!End(c)
<1>0. Types /\ Decided(c) /\ AsSeen(c) /\ AsSeen(c)'
  BY DEF Seen, AllDecided, AllSeen, NegInv
<1>1. pc[c] = "answered" /\ answer[c] \in Answers \ {"none"} /\ pc'[c] = "idle"
  BY <1>0 DEF Conclude, LoseAnswer, Finish, Types, Decided
<1>2. Exchange[c].state \in {"accepted", "refused", "asked"}
  BY <1>0, <1>1 DEF AsSeen, Answers
<1>3. Exchange'[c] = Negotiated!Idle
  BY <1>0, <1>1 DEF AsSeen, Negotiated!Idle
<1>4. Exchange' = [Exchange EXCEPT ![c] = Exchange'[c]]
  BY <1>0, SeenOfOthers DEF Conclude, LoseAnswer, Finish, Types
<1> QED BY <1>2, <1>3, <1>4 DEF Negotiated!End, Conclude, LoseAnswer, receiverVars, pinned

LEMMA OutlivesExchange ==
  ASSUME Seen, AllSeen', NEW c \in Calls, TokenExpires(c)
  PROVE  Negotiated!Outlive(c)
<1> DEFINE m == [msg[c] EXCEPT !.fault = "payload"]
<1>0. Types /\ CallOK(c) /\ AsSeen(c) /\ AsSeen(c)'
  BY DEF Seen, AllSeen, NegInv
<1>1. pc[c] # "idle" /\ pc' = pc /\ answer' = answer /\ detached' = detached
  BY DEF TokenExpires
<1>2. msg'[c] = m /\ m.chain = msg[c].chain
  BY <1>0, <1>1 DEF TokenExpires, Types, CallOK, Messages
<1>3. Shown(c)' = Shown(c)
  BY <1>1, <1>2 DEF Shown
<1> HIDE DEF m
<1> DEFINE was == Exchange[c].state
<1>4. Exchange[c] = [state |-> was, msg |-> msg[c], shown |-> Shown(c)]
  BY <1>0, <1>1 DEF AsSeen
<1>5. Exchange'[c] = [state |-> Exchange'[c].state, msg |-> m, shown |-> Shown(c)]
  BY <1>0, <1>1, <1>2, <1>3 DEF AsSeen
<1>6. Exchange'[c].state = was /\ was # "idle"
  BY <1>1 DEF Exchange
<1>7. Exchange' = [Exchange EXCEPT ![c] = Exchange'[c]]
  BY <1>0, SeenOfOthers DEF TokenExpires, Types
<1> HIDE DEF was
<1>8. Exchange' = [Exchange EXCEPT ![c].msg.fault = "payload"]
  BY <1>4, <1>5, <1>6, <1>7 DEF m
<1>9. Exchange[c].state # "idle" /\ Exchange[c].msg.fault = "none"
  BY <1>4, <1>6 DEF TokenExpires
<1> QED BY <1>8, <1>9 DEF Negotiated!Outlive, TokenExpires, receiverVars, pinned

(* What only the receiver sees.                                              *)
LEMMA HiddenFromBothEnds ==
  ASSUME Seen, AllSeen', NEW c \in Calls,
         LookUp(c) \/ VerifySuspectsCache(c) \/ Evict(c) \/ Store(c)
  PROVE  UNCHANGED Negotiated!vars
<1>0. Types /\ Decided(c) /\ AsSeen(c) /\ AsSeen(c)'
  BY DEF Seen, AllDecided, AllSeen, NegInv
<1>1. msg' = msg /\ detached' = detached /\ verified' = verified
      /\ pinned' = pinned /\ valid' = valid
  BY DEF LookUp, VerifySuspectsCache, Evict, Store, receiverVars, pinned
<1>2. pc[c] # "idle" /\ pc'[c] # "idle" /\ Shown(c)' = Shown(c)
  BY <1>0, <1>1 DEF LookUp, VerifySuspectsCache, Evict, Store, Answered, Types, Shown
<1>3. Exchange'[c].state = Exchange[c].state
  <2>1. CASE LookUp(c) \/ VerifySuspectsCache(c) \/ Evict(c)
    BY <1>0, <2>1 DEF LookUp, VerifySuspectsCache, Evict, Types, AsSeen, Decided
  <2>2. CASE Store(c)
    BY <1>0, <2>2 DEF Store, Answered, Types, AsSeen
  <2> QED BY <2>1, <2>2
<1>4. Exchange'[c] = Exchange[c]
  BY <1>0, <1>1, <1>2, <1>3 DEF AsSeen
<1>5. Exchange' = [Exchange EXCEPT ![c] = Exchange'[c]]
  BY <1>0, SeenOfOthers DEF LookUp, VerifySuspectsCache, Evict, Store, Answered, Types
<1>6. Exchange = [d \in Calls |-> Exchange[d]]
  BY DEF Exchange
<1>7. Exchange' = Exchange
  BY <1>4, <1>5, <1>6
<1> QED BY <1>1, <1>7 DEF Negotiated!vars

LEMMA PassesStep ==
  ASSUME Seen, AllSeen', NEW c \in Calls, VerifyPasses(c)
  PROVE  Negotiated!Accept(c)
<1>0. NegInv /\ Types /\ CallOK(c) /\ Decided(c)
  BY DEF Seen, AllDecided, NegInv
<1>1. pc[c] = "verify" /\ Found(c) \in Chains \cup {None}
  BY <1>0, SuppliedFacts DEF VerifyPasses
<1>2. /\ detached[c] # None => Found(c) = detached[c]
      /\ pinned = None /\ detached[c] = None /\ Found(c) # None => Found(c) \in verified
  BY <1>0 DEF Found, Decided
<1>3. pc'[c] = "store" \/ (pc'[c] # "idle" /\ answer'[c] = "ok")
  BY <1>0 DEF VerifyPasses, Answered, Types
<1>4. Alone(c)
  <2>1. CASE detached[c] # None
    BY <1>0, <2>1 DEF VerifyPasses, Types, Alone
  <2>2. CASE detached[c] = None
    BY <1>0, <2>2 DEF VerifyPasses, Answered, Types, Alone
  <2> QED BY <2>1, <2>2
<1> QED BY <1>1, <1>2, <1>3, <1>4, AcceptsExchange DEF VerifyPasses, FirstReason, receiverVars

LEMMA FailsStep ==
  ASSUME Seen, AllSeen', NEW c \in Calls, VerifyFails(c)
  PROVE  Negotiated!Ask(c) \/ Negotiated!Refuse(c)
<1>0. NegInv /\ Types /\ CallOK(c) /\ pc[c] = "verify" /\ pc[c] # "idle"
  BY DEF Seen, NegInv, VerifyFails
<1>1. Found(c) = detached[c] /\ detached[c] \in Chains \cup {None}
  BY <1>0 DEF VerifyFails, Found, Types
<1>2. CASE FirstReason(c) = "no_chain"
  <2>1. ReasonOf(msg[c], Supplied(detached[c])) = "no_chain"
    BY <1>1, <1>2 DEF FirstReason
  <2>2. detached[c] = None
    BY <1>0, <2>1, ReasonFacts, DeploymentFacts DEF Supplied, Types
  <2>3. Shown(c) = None /\ pinned = None /\ msg[c].fault \notin TokenFaults
    BY <1>0, <1>1, <2>1, <2>2, NoChainFacts
  <2>4. pc'[c] = "answered" /\ answer'[c] = "chain_required" /\ Alone(c)
    BY <1>0, <1>2 DEF VerifyFails, Answered, Types, Alone
  <2> QED BY <1>0, <2>3, <2>4, AsksExchange DEF VerifyFails
<1>3. CASE FirstReason(c) # "no_chain"
  <2>1. ReasonOf(msg[c], Supplied(detached[c])) \notin {"no_chain", "ok"}
    BY <1>1, <1>3 DEF FirstReason, VerifyFails
  <2>2. Refusable(c)
    BY <1>0, <2>1, FailureIsRefusable
  <2>3. Answered(c, "rejected")
    BY <1>3 DEF VerifyFails
  <2> QED BY <1>0, <2>2, <2>3, RefusesExchange DEF VerifyFails
<1> QED BY <1>2, <1>3

LEMMA AttributeStep ==
  ASSUME Seen, AllSeen', NEW c \in Calls, AttributeToCache(c) \/ AttributeToMessage(c)
  PROVE  Negotiated!Accept(c) \/ Negotiated!Ask(c) \/ Negotiated!Refuse(c)
<1>0. NegInv /\ Types /\ CallOK(c) /\ pc[c] = "attribute" /\ pc[c] # "idle"
  BY DEF Seen, NegInv, AttributeToCache, AttributeToMessage
<1>1. detached[c] = None
  BY <1>0 DEF CallOK
<1>2. CASE AttributeToCache(c)
  <2>1. pc'[c] = "evict" /\ Alone(c) /\ deployment' = deployment /\ valid' = valid
        /\ msg' = msg /\ detached' = detached
    BY <1>0, <1>2 DEF AttributeToCache, Types, Alone, receiverVars
  <2>2. CASE SecondReason(c) = "ok"
    <3>1. /\ answer'[c] = "ok" /\ ReasonOf(msg[c], Supplied(None)) = "ok"
          /\ verified' = verified \cup {ProvedBy(msg[c], Supplied(None))}
      BY <1>0, <1>2, <2>2 DEF AttributeToCache, Types, SecondReason
    <3> QED BY <1>0, <1>1, <2>1, <3>1, AcceptsExchange
  <2>3. CASE SecondReason(c) = "no_chain"
    <3>1. /\ answer'[c] = "chain_required" /\ ReasonOf(msg[c], Supplied(None)) = "no_chain"
          /\ verified' = verified
      BY <1>0, <1>2, <2>3 DEF AttributeToCache, Types, SecondReason
    <3>2. Shown(c) = None /\ pinned = None /\ msg[c].fault \notin TokenFaults
      BY <1>0, <1>1, <3>1, NoChainFacts
    <3>3. UNCHANGED receiverVars
      BY <1>2 DEF AttributeToCache
    <3> QED BY <1>0, <2>1, <3>1, <3>2, <3>3, AsksExchange
  <2> QED BY <1>2, <2>2, <2>3 DEF AttributeToCache
<1>3. CASE AttributeToMessage(c)
  <2>1. ReasonOf(msg[c], Supplied(detached[c])) \notin {"no_chain", "ok"}
    BY <1>1, <1>3 DEF AttributeToMessage, SecondReason
  <2>2. Refusable(c)
    BY <1>0, <2>1, FailureIsRefusable
  <2> QED BY <1>0, <1>3, <2>2, RefusesExchange DEF AttributeToMessage
<1> QED BY <1>2, <1>3

\* Emitters, receiver threads and the cache they share implement ChainExchange: a
\* message is accepted with a chain that verifies then and that is pinned, shown or
\* known from an earlier success, refused for a cause both ends can see, and asked
\* once for its chain; looking up, storing, evicting and suspecting the cache are
\* invisible (_msgtransport.py:90-162).
THEOREM ImplementsExchangeHolds == Spec => ImplementsExchange
<1>1. Seen /\ AllSeen' /\ [Next]_vars => [Negotiated!Next]_(Negotiated!vars)
  <2> SUFFICES ASSUME Seen, AllSeen', [Next]_vars
               PROVE  Negotiated!Next \/ UNCHANGED Negotiated!vars
    OBVIOUS
  <2> USE DEF Negotiated!Next
  <2>1. ASSUME NEW c \in Calls, NEW u \in Users, NEW style \in Styles, NEW fault \in Faults,
               Send(c, u, style, fault)
        PROVE  Negotiated!Next
    BY <2>1, BeginsExchange
  <2>2. ASSUME NEW c \in Calls, VerifyPasses(c) PROVE Negotiated!Next
    BY <2>2, PassesStep
  <2>3. ASSUME NEW c \in Calls, VerifyFails(c) PROVE Negotiated!Next
    BY <2>3, FailsStep
  <2>4. ASSUME NEW c \in Calls, AttributeToCache(c) \/ AttributeToMessage(c) PROVE Negotiated!Next
    BY <2>4, AttributeStep
  <2>5. ASSUME NEW c \in Calls, LookUp(c) \/ VerifySuspectsCache(c) \/ Evict(c) \/ Store(c)
        PROVE  UNCHANGED Negotiated!vars
    BY <2>5, HiddenFromBothEnds
  <2>6. ASSUME NEW c \in Calls, Retransmit(c) PROVE Negotiated!Next
    BY <2>6, NegotiatesExchange
  <2>7. ASSUME NEW c \in Calls, Conclude(c) \/ LoseAnswer(c) PROVE Negotiated!Next
    BY <2>7, EndsExchange
  <2>8. ASSUME NEW c \in Calls, TokenExpires(c) PROVE Negotiated!Next
    BY <2>8, OutlivesExchange
  <2>9. ASSUME NEW u \in Users, Renew(u) PROVE UNCHANGED Negotiated!vars
    BY <2>9 DEF Renew, callVars, Negotiated!vars, Exchange, Shown, pinned
  <2>10. ASSUME NEW ch \in Chains, Expire(ch) PROVE Negotiated!Next
    <3>1. Exchange' = Exchange /\ pinned' = pinned
      BY <2>10 DEF Expire, callVars, Exchange, Shown, pinned
    <3> QED BY <2>10, <3>1 DEF Expire, Negotiated!Lapse
  <2>11. CASE UNCHANGED vars
    BY <2>11 DEF vars, receiverVars, callVars, Negotiated!vars, Exchange, Shown, pinned
  <2> HIDE DEF Negotiated!Next
  <2> QED BY <2>1, <2>2, <2>3, <2>4, <2>5, <2>6, <2>7, <2>8, <2>9, <2>10, <2>11 DEF Next, Receive
<1>2. Spec => []AllDecided
  BY NegInvariant, DecidedInit, DecidedStep, PTL DEF Spec
<1>3. Spec => []AllSeen
  BY SeenOf, PTL
<1>4. NegInv /\ AllDecided /\ AllSeen => Seen
  BY DEF Seen
<1> QED BY <1>1, <1>2, <1>3, <1>4, NegInvariant, ExchangeInit, PTL
        DEF Spec, ImplementsExchange, Negotiated!Spec

-----------------------------------------------------------------------------
(* What CallsSettle needs beside fairness: a call cannot go round.           *)

\* How far a call is from its end: the steps left of this transmission, and those
\* of another one.
StepsLeft == [idle |-> 0, answered |-> 1, store |-> 2, evict |-> 2, attribute |-> 3,
              verify |-> 4, lookup |-> 5]
ToGo(c) == IF pc[c] = "idle" THEN 0 ELSE (2 - sends[c]) * 5 + StepsLeft[pc[c]]

\* Every step of a call, its emitter's or its receiver thread's, brings it nearer to
\* its end, whatever the others have done to the cache; no call takes more than ten
\* steps (_msgtransport.py:90-162, httpsig/_client.py:61-86).
CallsOnlyAdvance ==
  [][\A c \in Calls :
       \/ pc[c] = "idle"
       \/ UNCHANGED <<pc[c], sends[c]>>
       \/ ToGo(c)' < ToGo(c)]_vars

(* No call loops: neither attribution, eviction and renegotiation nor any    *)
(* number of other threads make a call repeat a step more than once.         *)
THEOREM CallsOnlyAdvanceHolds == Spec => CallsOnlyAdvance
<1>1. ASSUME NegInv, [Next]_vars, NEW c \in Calls, pc[c] # "idle",
             ~UNCHANGED <<pc[c], sends[c]>>
      PROVE  ToGo(c)' < ToGo(c)
  <2>0. pc \in [Calls -> Steps] /\ sends \in [Calls -> 0..2] /\ sends[c] \in {1, 2}
    BY <1>1 DEF NegInv, Types, CallOK
  <2>1. CASE Receive(c)
    BY <1>1, <2>0, <2>1
       DEF Receive, LookUp, VerifyPasses, VerifySuspectsCache, VerifyFails, AttributeToCache,
           AttributeToMessage, Evict, Store, Answered, ToGo, StepsLeft, Steps
  <2>2. CASE Retransmit(c)
    BY <1>1, <2>0, <2>2 DEF Retransmit, Negotiates, ToGo, StepsLeft, Steps
  <2>3. CASE Conclude(c) \/ LoseAnswer(c)
    BY <1>1, <2>0, <2>3 DEF Conclude, LoseAnswer, Finish, ToGo, StepsLeft, Steps
  <2>4. CASE TokenExpires(c) \/ \E u \in Users, style \in Styles, fault \in Faults :
               Send(c, u, style, fault)
    BY <1>1, <2>4 DEF TokenExpires, Send
  <2>5. ASSUME NEW d \in Calls, d # c,
               \/ Receive(d) \/ Retransmit(d) \/ Conclude(d) \/ LoseAnswer(d) \/ TokenExpires(d)
               \/ \E u \in Users, style \in Styles, fault \in Faults : Send(d, u, style, fault)
        PROVE  FALSE
    BY <1>1, <2>0, <2>5
       DEF Receive, LookUp, VerifyPasses, VerifySuspectsCache, VerifyFails, AttributeToCache,
           AttributeToMessage, Evict, Store, Answered, Retransmit, Conclude, LoseAnswer, Finish,
           TokenExpires, Send
  <2>6. ASSUME UNCHANGED vars \/ (\E u \in Users : Renew(u)) \/ \E ch \in Chains : Expire(ch)
        PROVE  FALSE
    BY <1>1, <2>6 DEF vars, Renew, Expire, callVars
  <2> QED BY <1>1, <2>1, <2>2, <2>3, <2>4, <2>5, <2>6 DEF Next
<1>2. NegInv /\ [Next]_vars =>
        [\A c \in Calls :
           \/ pc[c] = "idle"
           \/ UNCHANGED <<pc[c], sends[c]>>
           \/ ToGo(c)' < ToGo(c)]_vars
  BY <1>1
<1> QED BY <1>2, NegInvariant, PTL DEF Spec, CallsOnlyAdvance

-----------------------------------------------------------------------------
(* What SteadyState is once it is reached. *)

\* The newest chain of every emitter verifies.
Current == \A u \in Users : Issued(u, current[u]) => Held(u) \in valid

\* The receiver knows it.
Known ==
  \A u \in Users : Issued(u, current[u]) =>
    \E i \in DOMAIN cache : cache[i] = [user |-> u, chain |-> Held(u)]

\* A call of a transport with the newest chain, on its way to be accepted at its
\* first transmission.
Smooth(c) ==
  pc[c] # "idle" =>
    /\ msg[c].own = Held(msg[c].user) /\ Issued(msg[c].user, current[msg[c].user])
    /\ msg[c].fault = "none"
    /\ sends[c] = 1
    /\ pc[c] \in {"lookup", "verify", "store", "answered"}
    /\ answer[c] = IF pc[c] = "answered" THEN "ok" ELSE "none"
    /\ pc[c] = "verify" => msg[c].own \in {detached[c], cached[c]}

Settled == pinned = None /\ Current /\ Known /\ \A c \in Calls : Smooth(c)

\* While no chain is renewed and the newest ones verify, what has settled stays so:
\* every message is accepted at its first transmission and the cache keeps what it
\* is accepted with (httpsig/_client.py:37-39).
SettledStays ==
  [][Settled /\ UNCHANGED current /\ Current' => Settled']_vars

(* An operation on the cache for an emitter that is in it loses no other     *)
(* emitter's entry.                                                          *)
LEMMA RemovalSpares ==
  ASSUME NEW c \in Seq(Entries), NEW i \in DOMAIN c, NEW k \in DOMAIN c, k # i
  PROVE  \E j \in DOMAIN RemoveAt(c, i) : RemoveAt(c, i)[j] = c[k]
<1>1. /\ DOMAIN c = 1..Len(c) /\ Len(c) \in Nat
      /\ RemoveAt(c, i) \in Seq(Entries) /\ Len(RemoveAt(c, i)) = Len(c) - 1
      /\ \A j \in 1..(Len(c) - 1) : RemoveAt(c, i)[j] = IF j < i THEN c[j] ELSE c[j + 1]
  BY RemoveAtFacts, LenProperties
<1>2. DOMAIN RemoveAt(c, i) = 1..(Len(c) - 1)
  BY <1>1, LenProperties
<1>3. CASE k < i
  <2>1. k \in 1..(Len(c) - 1)
    BY <1>1, <1>3
  <2> QED BY <1>1, <1>2, <1>3, <2>1
<1>4. CASE i < k
  <2>1. k - 1 \in 1..(Len(c) - 1) /\ ~(k - 1 < i) /\ (k - 1) + 1 = k
    BY <1>1, <1>4
  <2> QED BY <1>1, <1>2, <2>1
<1> QED BY <1>1, <1>3, <1>4

LEMMA AppendSpares ==
  ASSUME NEW c \in Seq(Entries), NEW e \in Entries
  PROVE  /\ \A k \in DOMAIN c : \E j \in DOMAIN Append(c, e) : Append(c, e)[j] = c[k]
         /\ \E j \in DOMAIN Append(c, e) : Append(c, e)[j] = e
<1>1. /\ Append(c, e) \in Seq(Entries) /\ Len(Append(c, e)) = Len(c) + 1
      /\ \A i \in 1..Len(c) : Append(c, e)[i] = c[i]
      /\ Append(c, e)[Len(c) + 1] = e
  BY AppendProperties
<1>2. /\ DOMAIN c = 1..Len(c) /\ Len(c) \in Nat
      /\ DOMAIN Append(c, e) = 1..(Len(c) + 1)
  BY <1>1, LenProperties
<1>3. /\ \A k \in DOMAIN c : k \in DOMAIN Append(c, e)
      /\ Len(c) + 1 \in DOMAIN Append(c, e)
  BY <1>2
<1> QED BY <1>1, <1>2, <1>3

LEMMA KnownIsFound ==
  ASSUME NegInv, Known, NEW u \in Users, Issued(u, current[u])
  PROVE  Holds(cache, u) /\ cache[At(cache, u)] = [user |-> u, chain |-> Held(u)]
<1>1. PICK i \in DOMAIN cache : cache[i] = [user |-> u, chain |-> Held(u)]
  BY DEF Known
<1>2. Holds(cache, u) /\ At(cache, u) \in DOMAIN cache /\ cache[At(cache, u)].user = u
  BY <1>1 DEF Holds, At
<1>3. At(cache, u) = i
  BY <1>1, <1>2 DEF NegInv, CacheOK, OnePerUser
<1> QED BY <1>1, <1>2, <1>3

(* Moving or refreshing the entry of a known emitter keeps all that is known. *)
LEMMA TouchedKnows ==
  ASSUME NegInv, Known, NEW u \in Users, Issued(u, current[u]),
         \/ cache' = Touched(cache, u)
         \/ cache' = Stored(cache, u, Held(u), deployment.cap),
         UNCHANGED <<current, deployment>>
  PROVE  Known'
<1> DEFINE i == At(cache, u)
           e == [user |-> u, chain |-> Held(u)]
           kept == RemoveAt(cache, i)
<1>1. Holds(cache, u) /\ cache[i] = e /\ i \in DOMAIN cache
  BY KnownIsFound DEF Holds, At
<1>2. cache' = Append(kept, e)
  BY <1>1 DEF Touched, Stored
<1>3. /\ cache \in Seq(Entries) /\ OnePerUser(cache) /\ e \in Entries
  BY DEF NegInv, CacheOK, Types, Entries, Chains, Held
<1>4. kept \in Seq(Entries)
  BY <1>1, <1>3, RemoveEntry
<1> HIDE DEF i, kept
<1>5. ASSUME NEW v \in Users, Issued(v, current[v])
      PROVE  \E j \in DOMAIN cache' : cache'[j] = [user |-> v, chain |-> Held(v)]
  <2>1. CASE v = u
    BY <1>2, <1>3, <1>4, <2>1, AppendSpares
  <2>2. CASE v # u
    <3>1. PICK k \in DOMAIN cache : cache[k] = [user |-> v, chain |-> Held(v)]
      BY <1>5 DEF Known
    <3>2. k # i
      BY <1>1, <2>2, <3>1
    <3>3. PICK j \in DOMAIN kept : kept[j] = cache[k]
      BY <1>1, <1>3, <3>2, RemovalSpares DEF kept
    <3>4. PICK l \in DOMAIN Append(kept, e) : Append(kept, e)[l] = kept[j]
      BY <1>3, <1>4, AppendSpares
    <3> QED BY <1>2, <3>1, <3>3, <3>4
  <2> QED BY <2>1, <2>2
<1> QED BY <1>5 DEF Known, Issued, Held

(* A smooth call passes its verification.                                    *)
LEMMA SmoothPasses ==
  ASSUME NegInv, Settled, NEW c \in Calls, pc[c] = "verify"
  PROVE  FirstReason(c) = "ok"
<1>1. Smooth(c) /\ CallOK(c) /\ pinned = None
  BY DEF Settled, NegInv
<1> DEFINE own == msg[c].own
<1>2. /\ own = Held(msg[c].user) /\ own \in Chains /\ own # None
      /\ own.user = msg[c].user /\ msg[c].user \in Users
      /\ msg[c].chain \in {None, own} /\ msg[c].fault = "none"
  BY <1>1 DEF Smooth, CallOK, Messages
<1>3. own \in valid
  BY <1>1, <1>2 DEF Settled, Current, Smooth
<1>4. Supplied(Found(c)) = own
  BY <1>1, <1>2 DEF Smooth, CallOK, Found, Supplied
<1> HIDE DEF own
<1> QED BY <1>2, <1>3, <1>4 DEF FirstReason, ReasonOf, TokenFaults, own

(* A call that a step leaves alone stays smooth while no chain is renewed.   *)
LEMMA OthersSmooth ==
  ASSUME NEW d \in Calls, Smooth(d),
         pc'[d] = pc[d], msg'[d] = msg[d], sends'[d] = sends[d],
         detached'[d] = detached[d], cached'[d] = cached[d], answer'[d] = answer[d],
         deployment' = deployment, current' = current
  PROVE  Smooth(d)'
BY DEF Smooth, Held, Issued

(* No step of a smooth call, nor a new one, unsettles what has settled.      *)
LEMMA SettledStep ==
  ASSUME NegInv, Settled, [Next]_vars, Faults \subseteq {"none"}, current' = current, Current'
  PROVE  Settled'
<1>0. /\ Types /\ CacheOK /\ Known /\ pinned = None
      /\ \A c \in Calls : CallOK(c) /\ Smooth(c)
  BY DEF NegInv, Settled
<1>1. ASSUME deployment' = deployment, Known', \A c \in Calls : Smooth(c)' PROVE Settled'
  BY <1>0, <1>1 DEF Settled, pinned
<1>2. ASSUME cache' = cache, deployment' = deployment PROVE Known'
  BY <1>0, <1>2 DEF Known, Issued, Held
<1>3. ASSUME NEW c \in Calls, NEW u \in Users, NEW style \in Styles, NEW fault \in Faults,
             Send(c, u, style, fault)
      PROVE  Settled'
  <2>1. Known' /\ deployment' = deployment
    BY <1>2, <1>3 DEF Send, receiverVars
  <2>2. ASSUME NEW d \in Calls PROVE Smooth(d)'
    <3>1. CASE d # c
      BY <1>0, <1>3, <3>1, OthersSmooth DEF Send, receiverVars, Types
    <3>2. CASE d = c
      <4>1. /\ msg'[c] = [user |-> u, own |-> Held(u), style |-> style, fault |-> fault,
                          chain |-> IF style = "embedded" THEN Held(u) ELSE None]
            /\ pc'[c] = "lookup" /\ sends'[c] = 1 /\ answer'[c] = "none"
            /\ Issued(u, current[u])' /\ Held(u)' = Held(u) /\ fault = "none"
        BY <1>0, <1>3 DEF Send, Types, CallOK, receiverVars, Issued, Held
      <4> QED BY <3>2, <4>1 DEF Smooth, Held, Issued
    <3> QED BY <3>1, <3>2
  <2> QED BY <1>1, <2>1, <2>2
<1>4. ASSUME NEW c \in Calls, Finish(c), UNCHANGED <<receiverVars, cache, verified>>
      PROVE  Settled'
  <2>1. Known' /\ deployment' = deployment
    BY <1>2, <1>4 DEF receiverVars
  <2>2. ASSUME NEW d \in Calls PROVE Smooth(d)'
    <3>1. CASE d # c
      BY <1>0, <1>4, <3>1, OthersSmooth DEF Finish, receiverVars, Types
    <3>2. CASE d = c
      BY <1>0, <1>4, <3>2 DEF Finish, Smooth, Types
    <3> QED BY <3>1, <3>2
  <2> QED BY <1>1, <2>1, <2>2
<1>5. ASSUME NEW c \in Calls, LookUp(c) PROVE Settled'
  <2>0. /\ deployment' = deployment /\ pc[c] = "lookup"
        /\ msg[c] \in Messages /\ msg[c].user \in Users /\ msg[c].own = Held(msg[c].user)
        /\ Issued(msg[c].user, current[msg[c].user])
        /\ msg[c].fault # "garbled" /\ detached[c] \in {None, msg[c].own}
        /\ sends[c] = 1 /\ answer[c] = "none" /\ msg[c].fault = "none"
    BY <1>0, <1>5 DEF LookUp, receiverVars, Smooth, CallOK, Messages
  <2>1. /\ Holds(cache, msg[c].user)
        /\ cache[At(cache, msg[c].user)].chain = msg[c].own
    <3>1. PICK u \in Users : u = msg[c].user
      BY <2>0
    <3>2. Holds(cache, u) /\ cache[At(cache, u)] = [user |-> u, chain |-> Held(u)]
      BY <1>0, <2>0, <3>1, KnownIsFound
    <3> QED BY <2>0, <3>1, <3>2
  <2>2. Known'
    <3>1. CASE detached[c] = None
      <4>1. cache' = Touched(cache, msg[c].user)
        BY <1>5, <2>0, <2>1, <3>1 DEF LookUp
      <4> QED BY <1>0, <2>0, <4>1, TouchedKnows
    <3>2. CASE detached[c] # None
      BY <1>2, <1>5, <2>0, <3>2 DEF LookUp
    <3> QED BY <3>1, <3>2
  <2>3. ASSUME NEW d \in Calls PROVE Smooth(d)'
    <3>1. CASE d # c
      BY <1>0, <1>5, <3>1, OthersSmooth DEF LookUp, receiverVars, Types
    <3>2. CASE d = c
      <4>1. msg[c].own \in {detached[c], cached'[c]}
        BY <1>0, <1>5, <2>0, <2>1 DEF LookUp, Types
      <4>2. pc'[c] = "verify" /\ UNCHANGED <<current, deployment, msg, sends, detached, answer>>
        BY <1>0, <1>5 DEF LookUp, receiverVars, Types
      <4> QED BY <2>0, <3>2, <4>1, <4>2 DEF Smooth, Held, Issued
    <3> QED BY <3>1, <3>2
  <2> QED BY <1>1, <2>0, <2>2, <2>3
<1>6. ASSUME NEW c \in Calls, VerifyPasses(c) PROVE Settled'
  <2>1. Known' /\ deployment' = deployment
    BY <1>2, <1>6 DEF VerifyPasses, receiverVars
  <2>2. ASSUME NEW d \in Calls PROVE Smooth(d)'
    <3>1. CASE d # c
      BY <1>0, <1>6, <3>1, OthersSmooth DEF VerifyPasses, Answered, receiverVars, Types
    <3>2. CASE d = c
      BY <1>0, <1>6, <3>2
         DEF VerifyPasses, Answered, receiverVars, Types, Smooth, Held, Issued
    <3> QED BY <3>1, <3>2
  <2> QED BY <1>1, <2>1, <2>2
<1>7. ASSUME NEW c \in Calls, Store(c) PROVE Settled'
  <2>0. /\ deployment' = deployment /\ pc[c] = "store"
        /\ msg[c].user \in Users /\ detached[c] = Held(msg[c].user)
        /\ Issued(msg[c].user, current[msg[c].user])
    BY <1>0, <1>7 DEF Store, receiverVars, Smooth, CallOK, Messages
  <2>1. Known'
    BY <1>0, <1>7, <2>0, TouchedKnows DEF Store
  <2>2. ASSUME NEW d \in Calls PROVE Smooth(d)'
    <3>1. CASE d # c
      BY <1>0, <1>7, <3>1, OthersSmooth DEF Store, Answered, receiverVars, Types
    <3>2. CASE d = c
      BY <1>0, <1>7, <3>2 DEF Store, Answered, receiverVars, Types, Smooth, Held, Issued
    <3> QED BY <3>1, <3>2
  <2> QED BY <1>1, <2>0, <2>1, <2>2
<1>8. ASSUME NEW c \in Calls,
             \/ VerifySuspectsCache(c) \/ VerifyFails(c) \/ AttributeToCache(c)
             \/ AttributeToMessage(c) \/ Evict(c) \/ Retransmit(c) \/ TokenExpires(c)
      PROVE  FALSE
  <2>1. pc[c] = "verify" => FirstReason(c) = "ok"
    BY SmoothPasses
  <2> QED BY <1>0, <1>8, <2>1
    DEF VerifySuspectsCache, VerifyFails, AttributeToCache, AttributeToMessage, Evict,
        Retransmit, Negotiates, TokenExpires, Smooth
<1>9. ASSUME NEW u \in Users, Renew(u) PROVE FALSE
  <2>1. current'[u] = current[u] + 1 /\ current[u] \in Nat
    BY <1>0, <1>9 DEF Renew, Types
  <2> QED BY <2>1
<1>10. ASSUME \/ UNCHANGED vars
              \/ \E ch \in Chains : Expire(ch)
       PROVE  Settled'
  <2>1. UNCHANGED <<current, deployment, cache, callVars>>
    BY <1>10 DEF vars, Expire, receiverVars
  <2>2. ASSUME NEW d \in Calls PROVE Smooth(d)'
    BY <1>0, <2>1, OthersSmooth DEF callVars
  <2> QED BY <1>1, <1>2, <2>1, <2>2
<1>11. ASSUME NEW c \in Calls, Receive(c) \/ Retransmit(c) \/ Conclude(c) \/ LoseAnswer(c)
                               \/ TokenExpires(c)
       PROVE  Settled'
  BY <1>4, <1>5, <1>6, <1>7, <1>8, <1>11, Zenon DEF Receive, Conclude, LoseAnswer
<1> QED BY <1>3, <1>9, <1>10, <1>11, Zenon DEF Next

(* Where nothing is wrong with the messages, the steady state lasts until a  *)
(* chain is renewed or expires, however many emitters, styles and threads    *)
(* there are, and in it every message is transmitted once.                   *)
THEOREM SettledStaysHolds ==
  ASSUME Faults \subseteq {"none"}
  PROVE  Spec => /\ SettledStays
                 /\ [](Settled => \A c \in Calls : sends[c] <= 1)
<1>1. NegInv /\ [Next]_vars => [Settled /\ UNCHANGED current /\ Current' => Settled']_vars
  BY SettledStep
<1>2. NegInv => (Settled => \A c \in Calls : sends[c] <= 1)
  <2> SUFFICES ASSUME NegInv, Settled, NEW c \in Calls PROVE sends[c] <= 1
    OBVIOUS
  <2>1. CASE pc[c] = "idle"
    BY <2>1 DEF NegInv, CallOK
  <2>2. CASE pc[c] # "idle"
    BY <2>2 DEF Settled, Smooth
  <2> QED BY <2>1, <2>2
<1> QED BY <1>1, <1>2, NegInvariant, PTL DEF Spec, SettledStays
=============================================================================
