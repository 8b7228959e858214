------------------------- MODULE ReplayGuardProofs --------------------------
(***************************************************************************)
(* Theorems about ReplayGuard for every set of threads, nonces and signed  *)
(* requests, every skew and every bound.                                   *)
(***************************************************************************)
EXTENDS ReplayGuard, TLAPS

USE SkewAssumption, BoundAssumption, RequestAssumption, SomeRequest

(* Every variable keeps its type: the type invariant of the verifier threads *)
(* and the cache.                                                            *)
THEOREM TypeCorrect == Spec => []TypeOK
<1>1. Init => TypeOK
  BY DEF Init, Fresh, TypeOK, Boots, Labels, Verdicts
<1>2. TypeOK /\ [Next]_vars => TypeOK'
  <2> SUFFICES ASSUME TypeOK, [Next]_vars PROVE TypeOK'
    OBVIOUS
  <2> USE DEF TypeOK, Boots, Labels, Verdicts
  <2>1. ASSUME NEW t \in Threads, NEW r \in Requests, Receive(t, r) PROVE TypeOK'
    BY <2>1 DEF Receive, cacheVars
  <2>2. ASSUME NEW t \in Threads, RejectSkew(t) PROVE TypeOK'
    BY <2>2 DEF RejectSkew, Return, cacheVars
  <2>3. ASSUME NEW t \in Threads, PassSignature(t) PROVE TypeOK'
    BY <2>3 DEF PassSignature, cacheVars
  <2>4. ASSUME NEW t \in Threads, ReadCacheClock(t) PROVE TypeOK'
    BY <2>4 DEF ReadCacheClock, cacheVars
  <2>5. ASSUME NEW t \in Threads, RejectReplay(t) PROVE TypeOK'
    BY <2>5 DEF RejectReplay, Return, Unexpired
  <2>6. ASSUME NEW t \in Threads, Admit(t) PROVE TypeOK'
    <3>1. [nonce |-> req[t].nonce, expiry |-> ExpiryOf(t)] \in Entry
      BY <2>6 DEF ExpiryOf, Entry
    <3>2. seen' \in SUBSET Entry
      BY <2>6, <3>1 DEF Admit, Unexpired
    <3>3. admitted' \in [Boots -> [Requests -> Nat]]
      <4>1. admitted \in [Boots -> [Requests -> Nat]] /\ boot \in Boots /\ req[t] \in Requests
        OBVIOUS
      <4>2. PICK count : count = [admitted[boot] EXCEPT ![req[t]] = @ + 1]
        OBVIOUS
      <4>3. count \in [Requests -> Nat]
        BY <4>1, <4>2
      <4>4. admitted' = [admitted EXCEPT ![boot] = count]
        BY <2>6, <4>2 DEF Admit
      <4> QED BY <4>1, <4>3, <4>4
    <3> QED BY <2>6, <3>2, <3>3 DEF Admit, Return
  <2>7. CASE Tick
    BY <2>7 DEF Tick, cacheVars, threadVars
  <2>8. CASE Restart
    BY <2>8 DEF Restart
  <2>9. CASE UNCHANGED vars
    BY <2>9 DEF vars, threadVars
  <2> QED BY <2>1, <2>2, <2>3, <2>4, <2>5, <2>6, <2>7, <2>8, <2>9
        DEF Next, Proceed
<1> QED BY <1>1, <1>2, PTL DEF Spec

-----------------------------------------------------------------------------
(***************************************************************************)
(* The inductive invariant.  The clock values a thread holds are old by at *)
(* most MaxStall; a thread past the signature check holds a request that   *)
(* was in its window; future incarnations have admitted nothing.           *)
(***************************************************************************)

CallsAreFresh ==
  \A t \in Threads : pc[t] # "idle" =>
    /\ nowV[t] <= clock
    /\ clock <= nowV[t] + MaxStall
    /\ req[t].timestamp <= nowV[t] + MaxLead

SignatureChecked ==
  \A t \in Threads : pc[t] \in {"seen_before", "lock"} => InWindow(req[t], nowV[t])

CacheClockPast == \A t \in Threads : pc[t] = "lock" => nowC[t] <= clock

FutureBootsEmpty ==
  \A b \in Boots, r \in Requests : b > boot => admitted[b][r] = 0

\* No thread can pass r once the clock is beyond this.
LastChance(r) == r.timestamp + Skew + MaxStall

\* The heart of the argument: an admitted request is remembered for as long as
\* any thread could still let it through.
AdmittedIsHeld ==
  \A r \in Requests : admitted[boot][r] > 0 =>
    \/ clock > LastChance(r)
    \/ \E e \in seen : e.nonce = r.nonce /\ e.expiry > LastChance(r)

CallInv == TypeOK /\ CallsAreFresh /\ SignatureChecked /\ CacheClockPast
GuardInv == CallInv /\ FutureBootsEmpty /\ AdmittedIsHeld /\ AtMostOncePerBoot

(* What each step leaves true of the calls in progress. *)
LEMMA CallInvariant == Spec => []CallInv
<1>1. Init => CallInv
  <2> SUFFICES ASSUME Init PROVE CallInv
    OBVIOUS
  <2>1. TypeOK
    BY DEF Init, Fresh, TypeOK, Boots, Labels, Verdicts
  <2>2. \A t \in Threads : pc[t] = "idle"
    BY DEF Init, Fresh
  <2> QED BY <2>1, <2>2 DEF CallInv, CallsAreFresh, SignatureChecked, CacheClockPast
<1>2. CallInv /\ TypeOK' /\ [Next]_vars => CallInv'
  <2> SUFFICES ASSUME CallInv, TypeOK', [Next]_vars PROVE CallInv'
    OBVIOUS
  <2> USE DEF CallInv, CallsAreFresh, SignatureChecked, CacheClockPast
  <2>1. ASSUME NEW t \in Threads, NEW r \in Requests, Receive(t, r) PROVE CallInv'
    BY <2>1 DEF Receive, TypeOK, InWindow
  <2>2. ASSUME NEW t \in Threads, RejectSkew(t) PROVE CallInv'
    BY <2>2 DEF RejectSkew, Return, TypeOK, InWindow
  <2>3. ASSUME NEW t \in Threads, PassSignature(t) PROVE CallInv'
    BY <2>3 DEF PassSignature, TypeOK, InWindow
  <2>4. ASSUME NEW t \in Threads, ReadCacheClock(t) PROVE CallInv'
    BY <2>4 DEF ReadCacheClock, TypeOK, InWindow
  <2>5. ASSUME NEW t \in Threads, RejectReplay(t) PROVE CallInv'
    BY <2>5 DEF RejectReplay, Return, TypeOK, InWindow
  <2>6. ASSUME NEW t \in Threads, Admit(t) PROVE CallInv'
    BY <2>6 DEF Admit, Return, TypeOK, InWindow
  <2>7. CASE Tick
    BY <2>7 DEF Tick, threadVars, TypeOK, InWindow
  <2>8. CASE Restart
    BY <2>8 DEF Restart, TypeOK
  <2>9. CASE UNCHANGED vars
    BY <2>9 DEF vars, threadVars, InWindow
  <2> QED BY <2>1, <2>2, <2>3, <2>4, <2>5, <2>6, <2>7, <2>8, <2>9
        DEF Next, Proceed
<1> QED BY <1>1, <1>2, TypeCorrect, PTL DEF Spec

(* A thread in the critical section that does not find the nonce of its      *)
(* request holds a request this incarnation has never let through.           *)
LEMMA FirstTime ==
  ASSUME RetentionCovers, GuardInv, NEW t \in Threads, Admit(t)
  PROVE  admitted[boot][req[t]] = 0
<1> USE DEF GuardInv, CallInv, TypeOK
<1>1. req[t] \in Requests /\ req[t].timestamp \in Nat /\ admitted[boot][req[t]] \in Nat
  OBVIOUS
<1>2. clock <= LastChance(req[t])
  <2>1. clock <= nowV[t] + MaxStall
    BY DEF Admit, CallsAreFresh
  <2>2. nowV[t] - req[t].timestamp <= Skew
    BY DEF Admit, SignatureChecked, InWindow
  <2> QED BY <1>1, <2>1, <2>2 DEF LastChance
<1>3. ASSUME NEW e \in seen, e.nonce = req[t].nonce, e.expiry > LastChance(req[t])
      PROVE  FALSE
  <2>1. nowC[t] <= clock
    BY DEF Admit, CacheClockPast
  <2>2. e.expiry > nowC[t]
    BY <1>1, <1>2, <1>3, <2>1 DEF LastChance, Entry
  <2> QED BY <1>3, <2>2 DEF Admit, Unexpired
<1> QED BY <1>1, <1>2, <1>3 DEF AdmittedIsHeld, LastChance

(* The admission just made is remembered long enough, because its entry was  *)
(* written with an expiry that the two bounds keep beyond the last chance.   *)
LEMMA EntryOutlivesWindow ==
  ASSUME RetentionCovers, CallInv, NEW t \in Threads, pc[t] = "lock"
  PROVE  ExpiryOf(t) > LastChance(req[t])
<1>1. req[t].timestamp \in Nat /\ nowV[t] \in Nat
  BY DEF CallInv, TypeOK
<1>2. req[t].timestamp <= nowV[t] + MaxLead
  BY DEF CallInv, CallsAreFresh
<1> QED BY <1>1, <1>2 DEF RetentionCovers, ExpiryOf, LastChance

(* A prune never breaks AdmittedIsHeld: what it drops is out of chances.     *)
LEMMA PruneKeepsHeld ==
  ASSUME CallInv, AdmittedIsHeld, NEW t \in Threads, pc[t] = "lock",
         NEW r \in Requests, admitted[boot][r] > 0, ~(clock > LastChance(r))
  PROVE  \E e \in Unexpired(nowC[t]) : e.nonce = r.nonce /\ e.expiry > LastChance(r)
<1>1. PICK e \in seen : e.nonce = r.nonce /\ e.expiry > LastChance(r)
  BY DEF AdmittedIsHeld
<1>2. nowC[t] <= clock
  BY DEF CallInv, CacheClockPast
<1>3. /\ e.expiry \in Nat /\ nowC[t] \in Nat /\ clock \in Nat
      /\ r.timestamp \in Nat
  BY DEF CallInv, TypeOK, Entry
<1>4. e.expiry > nowC[t]
  BY <1>1, <1>2, <1>3 DEF LastChance
<1> QED BY <1>1, <1>4 DEF Unexpired

(* The invariant behind AtMostOncePerBoot is inductive.                      *)
LEMMA GuardInvariant == ASSUME RetentionCovers PROVE Spec => []GuardInv
<1>1. Init => FutureBootsEmpty /\ AdmittedIsHeld /\ AtMostOncePerBoot
  BY DEF Init, FutureBootsEmpty, AdmittedIsHeld, AtMostOncePerBoot, Boots
<1>2. GuardInv /\ CallInv' /\ [Next]_vars => GuardInv'
  <2> SUFFICES ASSUME GuardInv, CallInv', [Next]_vars PROVE GuardInv'
    OBVIOUS
  <2> DEFINE Rest == FutureBootsEmpty /\ AdmittedIsHeld /\ AtMostOncePerBoot
  <2>0. SUFFICES Rest'
    BY DEF GuardInv
  <2>1. ASSUME UNCHANGED <<boot, seen, admitted>>, clock' >= clock PROVE Rest'
    BY <2>1 DEF GuardInv, CallInv, TypeOK, FutureBootsEmpty, AdmittedIsHeld,
                AtMostOncePerBoot, LastChance, Entry
  <2>2. ASSUME NEW t \in Threads, RejectReplay(t) PROVE Rest'
    <3>1. FutureBootsEmpty' /\ AtMostOncePerBoot'
      BY <2>2 DEF RejectReplay, GuardInv, FutureBootsEmpty, AtMostOncePerBoot
    <3>2. AdmittedIsHeld'
      <4> SUFFICES ASSUME NEW r \in Requests, admitted[boot][r] > 0,
                          ~(clock > LastChance(r))
                   PROVE  \E e \in seen' : e.nonce = r.nonce /\ e.expiry > LastChance(r)
        BY <2>2 DEF RejectReplay, AdmittedIsHeld, LastChance
      <4>1. pc[t] = "lock" /\ seen' = Unexpired(nowC[t])
        BY <2>2 DEF RejectReplay
      <4> QED BY <4>1, PruneKeepsHeld DEF GuardInv
    <3> QED BY <3>1, <3>2
  <2>3. ASSUME NEW t \in Threads, Admit(t) PROVE Rest'
    <3> DEFINE r0 == req[t]
               new == [nonce |-> r0.nonce, expiry |-> ExpiryOf(t)]
    <3>a. boot \in Boots /\ admitted \in [Boots -> [Requests -> Nat]]
      BY DEF GuardInv, CallInv, TypeOK
    <3>b. r0 \in Requests
      BY <2>3 DEF GuardInv, CallInv, TypeOK
    <3>1. /\ boot' = boot /\ clock' = clock /\ pc[t] = "lock"
          /\ seen' = Unexpired(nowC[t]) \cup {new}
      BY <2>3 DEF Admit
    <3>2. \A b \in Boots, r \in Requests : admitted'[b][r] =
            IF b = boot /\ r = r0 THEN admitted[b][r] + 1 ELSE admitted[b][r]
      BY <2>3, <3>a, <3>b DEF Admit
    <3>3. admitted[boot][r0] = 0
      BY <2>3, FirstTime
    <3>4. AtMostOncePerBoot'
      BY <3>a, <3>1, <3>2, <3>3 DEF GuardInv, AtMostOncePerBoot
    <3>5. FutureBootsEmpty'
      BY <3>a, <3>1, <3>2 DEF GuardInv, FutureBootsEmpty, Boots
    <3>6. AdmittedIsHeld'
      <4> SUFFICES ASSUME NEW r \in Requests, admitted'[boot][r] > 0,
                          ~(clock > LastChance(r))
                   PROVE  \E e \in seen' : e.nonce = r.nonce /\ e.expiry > LastChance(r)
        BY <3>1 DEF AdmittedIsHeld, LastChance
      <4>1. CASE r = r0
        <5>1. new.nonce = r.nonce /\ new.expiry > LastChance(r)
          BY <4>1, <3>1, EntryOutlivesWindow DEF GuardInv
        <5> QED BY <3>1, <5>1
      <4>2. CASE r # r0
        <5>1. admitted[boot][r] > 0
          BY <3>a, <3>1, <3>2, <4>2
        <5> QED BY <3>1, <5>1, PruneKeepsHeld DEF GuardInv
      <4> QED BY <4>1, <4>2
    <3> QED BY <3>4, <3>5, <3>6
  <2>4. CASE Restart
    BY <2>4 DEF Restart, GuardInv, CallInv, TypeOK, Boots, FutureBootsEmpty,
                AdmittedIsHeld, AtMostOncePerBoot
  <2>5. clock \in Nat
    BY DEF GuardInv, CallInv, TypeOK
  <2>6. CASE Tick
    BY <2>1, <2>5, <2>6 DEF Tick, cacheVars
  <2>7. CASE UNCHANGED vars
    BY <2>1, <2>5, <2>7 DEF vars
  <2>8. ASSUME NEW t \in Threads,
               \/ RejectSkew(t) \/ PassSignature(t) \/ ReadCacheClock(t)
               \/ \E r \in Requests : Receive(t, r)
        PROVE  Rest'
    BY <2>1, <2>5, <2>8
       DEF RejectSkew, PassSignature, ReadCacheClock, Receive, cacheVars
  <2> QED BY <2>2, <2>3, <2>4, <2>6, <2>7, <2>8 DEF Next, Proceed
<1>3. CallInv /\ FutureBootsEmpty /\ AdmittedIsHeld /\ AtMostOncePerBoot => GuardInv
  BY DEF GuardInv
<1> QED BY <1>1, <1>2, <1>3, CallInvariant, PTL DEF Spec

(* Replay suppression: as long as a request's lead and a call's stall stay   *)
(* together below the skew, one incarnation of the process lets a signed     *)
(* request through at most once (replay.py:2-4).                             *)
THEOREM AtMostOnceHolds == ASSUME RetentionCovers PROVE Spec => []AtMostOncePerBoot
<1>1. GuardInv => AtMostOncePerBoot
  BY DEF GuardInv
<1> QED BY <1>1, GuardInvariant, PTL

(* The two clock reads, the lock and the pruning implement AtMostOnce: a     *)
(* first admission maps to Admit, a restart to Restart, the rest to stutter. *)
THEOREM ImplementsAtMostOnceHolds ==
  ASSUME RetentionCovers PROVE Spec => ImplementsAtMostOnce
<1>1. Init => Promise!Init
  BY DEF Init, Promise!Init, Promise!Boots, Boots
<1>2. GuardInv /\ [Next]_vars => [Promise!Next]_(Promise!vars)
  <2> SUFFICES ASSUME GuardInv, [Next]_vars PROVE [Promise!Next]_(Promise!vars)
    OBVIOUS
  <2>1. ASSUME NEW t \in Threads, Admit(t) PROVE Promise!Admit(req[t])
    <3>1. admitted[boot][req[t]] = 0
      BY <2>1, FirstTime
    <3>2. 0 + 1 = 1
      OBVIOUS
    <3> QED BY <2>1, <3>1, <3>2 DEF Admit, Promise!Admit
  <2>2. ASSUME NEW t \in Threads, Admit(t) PROVE Promise!Next
    <3>1. req[t] \in Requests
      BY <2>2 DEF GuardInv, CallInv, TypeOK
    <3> QED BY <2>1, <2>2, <3>1 DEF Promise!Next
  <2>3. CASE Restart
    BY <2>3 DEF Restart, Promise!Restart, Promise!Next
  <2>4. ASSUME UNCHANGED <<boot, admitted>> PROVE UNCHANGED Promise!vars
    BY <2>4 DEF Promise!vars
  <2>5. ASSUME NEW t \in Threads,
               \/ RejectSkew(t) \/ PassSignature(t) \/ ReadCacheClock(t)
               \/ RejectReplay(t) \/ \E r \in Requests : Receive(t, r)
        PROVE  UNCHANGED <<boot, admitted>>
    BY <2>5 DEF RejectSkew, PassSignature, ReadCacheClock, RejectReplay, Receive,
                cacheVars
  <2>6. CASE Tick \/ UNCHANGED vars
    BY <2>4, <2>6 DEF Tick, vars, cacheVars
  <2> QED BY <2>2, <2>3, <2>4, <2>5, <2>6 DEF Next, Proceed
<1> QED BY <1>1, <1>2, GuardInvariant, PTL DEF Spec, ImplementsAtMostOnce, Promise!Spec

-----------------------------------------------------------------------------
(* The remaining properties need no bound on lead or stall.                  *)

(* Whatever interleaving of prunes with old clock values, an entry leaves    *)
(* the cache only when its expiry is past, or with the process.              *)
THEOREM NonceHeldUntilExpiryHolds == Spec => NonceHeldUntilExpiry
<1> DEFINE Held == boot' = boot => \A e \in seen \ seen' : e.expiry <= clock
<1>1. CallInv /\ [Next]_vars => [Held]_vars
  <2> SUFFICES ASSUME CallInv, [Next]_vars PROVE Held
    OBVIOUS
  <2>1. ASSUME NEW t \in Threads, pc[t] = "lock", Unexpired(nowC[t]) \subseteq seen',
               NEW e \in seen \ seen'
        PROVE  e.expiry <= clock
    <3>1. ~(e.expiry > nowC[t]) /\ nowC[t] <= clock
      BY <2>1 DEF Unexpired, CallInv, CacheClockPast
    <3>2. e.expiry \in Nat /\ nowC[t] \in Nat /\ clock \in Nat
      BY <2>1 DEF CallInv, TypeOK, Entry
    <3> QED BY <3>1, <3>2
  <2>2. ASSUME NEW t \in Threads, RejectReplay(t) \/ Admit(t) PROVE Held
    <3>1. pc[t] = "lock" /\ Unexpired(nowC[t]) \subseteq seen'
      BY <2>2 DEF RejectReplay, Admit
    <3> QED BY <2>1, <3>1
  <2>3. CASE Restart
    BY <2>3 DEF Restart, CallInv, TypeOK, Boots
  <2>4. ASSUME seen' = seen PROVE Held
    BY <2>4
  <2>5. ASSUME NEW t \in Threads,
               \/ RejectSkew(t) \/ PassSignature(t) \/ ReadCacheClock(t)
               \/ \E r \in Requests : Receive(t, r)
        PROVE  seen' = seen
    BY <2>5 DEF RejectSkew, PassSignature, ReadCacheClock, Receive, cacheVars
  <2>6. CASE Tick \/ UNCHANGED vars
    BY <2>4, <2>6 DEF Tick, vars, cacheVars
  <2> QED BY <2>2, <2>3, <2>4, <2>5, <2>6 DEF Next, Proceed
<1> QED BY <1>1, CallInvariant, PTL DEF Spec, NonceHeldUntilExpiry

\* An entry in the cache stands for an admission by this incarnation.
RecordedMeansAdmitted ==
  \A e \in seen : \E r \in Requests : r.nonce = e.nonce /\ admitted[boot][r] > 0

LEMMA RecordedInvariant == Spec => [](RecordedMeansAdmitted /\ ReplayJustified)
<1> DEFINE Inv == RecordedMeansAdmitted /\ ReplayJustified
<1>1. Init => Inv
  BY DEF Init, Fresh, RecordedMeansAdmitted, ReplayJustified
<1>2. TypeOK /\ Inv /\ [Next]_vars => Inv'
  <2> SUFFICES ASSUME TypeOK, Inv, [Next]_vars PROVE Inv'
    OBVIOUS
  <2> USE DEF RecordedMeansAdmitted, ReplayJustified
  <2>1. ASSUME NEW t \in Threads, RejectReplay(t) PROVE Inv'
    BY <2>1 DEF RejectReplay, Return, Unexpired, TypeOK
  <2>2. ASSUME NEW t \in Threads, Admit(t) PROVE Inv'
    <3>a. boot \in Boots /\ admitted \in [Boots -> [Requests -> Nat]]
      BY DEF TypeOK
    <3>b. req[t] \in Requests
      BY <2>2 DEF TypeOK
    <3>1. \A r \in Requests : admitted'[boot][r] =
            IF r = req[t] THEN admitted[boot][r] + 1 ELSE admitted[boot][r]
      BY <2>2, <3>a, <3>b DEF Admit
    <3>2. boot' = boot /\ req' = req
      BY <2>2 DEF Admit, Return
    <3>3. \A r \in Requests : admitted[boot][r] > 0 => admitted'[boot][r] > 0
      BY <3>a, <3>1
    <3>4. admitted'[boot][req[t]] > 0
      BY <3>a, <3>b, <3>1
    <3>5. ASSUME NEW e \in seen'
          PROVE  \E r \in Requests : r.nonce = e.nonce /\ admitted'[boot][r] > 0
      <4>1. e \in seen \/ e = [nonce |-> req[t].nonce, expiry |-> ExpiryOf(t)]
        BY <2>2 DEF Admit, Unexpired
      <4>2. CASE e \in seen
        BY <4>2, <3>3
      <4>3. CASE e = [nonce |-> req[t].nonce, expiry |-> ExpiryOf(t)]
        BY <4>3, <3>b, <3>4
      <4> QED BY <4>1, <4>2, <4>3
    <3>6. \A u \in Threads : verdict'[u] = "REPLAY" => verdict[u] = "REPLAY"
      BY <2>2 DEF Admit, Return, TypeOK
    <3> QED BY <3>2, <3>3, <3>5, <3>6
  <2>3. CASE Restart
    BY <2>3 DEF Restart
  <2>4. ASSUME NEW t \in Threads, NEW r \in Requests, Receive(t, r) PROVE Inv'
    BY <2>4 DEF Receive, cacheVars, TypeOK
  <2>5. ASSUME NEW t \in Threads,
               RejectSkew(t) \/ PassSignature(t) \/ ReadCacheClock(t)
        PROVE  Inv'
    BY <2>5 DEF RejectSkew, PassSignature, ReadCacheClock, Return, cacheVars, TypeOK
  <2>6. CASE Tick \/ UNCHANGED vars
    BY <2>6 DEF Tick, vars, cacheVars, threadVars
  <2> QED BY <2>1, <2>2, <2>3, <2>4, <2>5, <2>6 DEF Next, Proceed
<1> QED BY <1>1, <1>2, TypeCorrect, PTL DEF Spec

(* A request is refused as a replay only if its nonce really passed before.  *)
THEOREM ReplayJustifiedHolds == Spec => []ReplayJustified
BY RecordedInvariant, PTL

\* A call moves on to the replay check, or ends; one that ends with its request in
\* the window ends with the nonce let through.
CallDecides(t) ==
  \/ pc[t] = "signature" /\ pc'[t] = "seen_before"
  \/ pc[t] = "seen_before" /\ pc'[t] = "lock"
  \/ /\ pc'[t] = "idle"
     /\ InWindow(req[t], nowV[t]) =>
          \E r \in Requests : r.nonce = req[t].nonce /\ admitted'[boot][r] > 0

\* A request in its window is never lost while the process lives: its call goes
\* from the signature to the lock and ends with the nonce let through, by this
\* call or another, and what is let through once stays so (replay.py:43-59).
CallsDecide ==
  [][boot' = boot =>
       /\ \A t \in Threads : (pc[t] # "idle" /\ pc'[t] # pc[t]) => CallDecides(t)
       /\ \A r \in Requests : admitted'[boot][r] >= admitted[boot][r]]_vars

(* The safety half of DeliveredIsAdmitted, which needs no fairness.          *)
THEOREM CallsDecideHolds == Spec => CallsDecide
<1> DEFINE Through(t) ==
             \E r \in Requests : r.nonce = req[t].nonce /\ admitted'[boot][r] > 0
           Decides(t) == (pc[t] # "idle" /\ pc'[t] # pc[t]) => CallDecides(t)
           Grow == \A r \in Requests : admitted'[boot][r] >= admitted[boot][r]
           Step == boot' = boot => /\ \A t \in Threads : Decides(t)
                                   /\ Grow
<1>1. TypeOK /\ RecordedMeansAdmitted /\ [Next]_vars => [Step]_vars
  <2> SUFFICES ASSUME TypeOK, RecordedMeansAdmitted, [Next]_vars, boot' = boot
               PROVE  (\A t \in Threads : Decides(t)) /\ Grow
    OBVIOUS
  <2>0. boot \in Boots /\ \A r \in Requests : admitted[boot][r] \in Nat
    BY DEF TypeOK
  <2>1. ASSUME admitted' = admitted PROVE Grow
    BY <2>0, <2>1
  <2>2. ASSUME NEW u \in Threads, Admit(u)
        PROVE  (\A t \in Threads : Decides(t)) /\ Grow
    <3>1. req[u] \in Requests /\ admitted \in [Boots -> [Requests -> Nat]]
      BY DEF TypeOK
    <3>2. \A r \in Requests : admitted'[boot][r] =
            IF r = req[u] THEN admitted[boot][r] + 1 ELSE admitted[boot][r]
      BY <2>0, <2>2, <3>1 DEF Admit
    <3>3. Grow /\ admitted'[boot][req[u]] > 0
      BY <2>0, <3>1, <3>2
    <3>4. Through(u)
      BY <3>1, <3>3
    <3>5. pc'[u] = "idle" /\ \A t \in Threads : t # u => pc'[t] = pc[t]
      BY <2>2 DEF Admit, Return, TypeOK
    <3> HIDE DEF Grow
    <3>6. CallDecides(u)
      BY <3>4, <3>5 DEF CallDecides
    <3> QED BY <3>3, <3>5, <3>6
  <2>3. ASSUME NEW u \in Threads, RejectReplay(u)
        PROVE  (\A t \in Threads : Decides(t)) /\ Grow
    <3>1. admitted' = admitted
      BY <2>3 DEF RejectReplay
    <3>2. PICK e \in seen : e.nonce = req[u].nonce
      BY <2>3 DEF RejectReplay, Unexpired
    <3>3. Through(u)
      BY <3>1, <3>2 DEF RecordedMeansAdmitted
    <3>4. pc'[u] = "idle" /\ \A t \in Threads : t # u => pc'[t] = pc[t]
      BY <2>3 DEF RejectReplay, Return, TypeOK
    <3>5. CallDecides(u)
      BY <3>3, <3>4 DEF CallDecides
    <3> HIDE DEF Grow
    <3> QED BY <2>1, <3>1, <3>4, <3>5
  <2>4. ASSUME NEW u \in Threads,
               \/ RejectSkew(u) \/ PassSignature(u) \/ ReadCacheClock(u)
               \/ \E r \in Requests : Receive(u, r)
        PROVE  (\A t \in Threads : Decides(t)) /\ Grow
    <3>1. admitted' = admitted
      BY <2>4 DEF RejectSkew, PassSignature, ReadCacheClock, Receive, cacheVars
    <3> HIDE DEF Grow
    <3> QED BY <2>1, <2>4, <3>1
            DEF CallDecides, RejectSkew, PassSignature, ReadCacheClock, Receive, Return, TypeOK
  <2>5. CASE Restart
    BY <2>5 DEF Restart, TypeOK, Boots
  <2>6. CASE Tick \/ UNCHANGED vars
    <3> HIDE DEF Grow
    <3> QED BY <2>1, <2>6 DEF Tick, vars, cacheVars, threadVars
  <2> QED BY <2>2, <2>3, <2>4, <2>5, <2>6 DEF Next, Proceed
<1> QED BY <1>1, TypeCorrect, RecordedInvariant, PTL DEF Spec, CallsDecide

(* The dict holds one expiry per nonce, at most two skews ahead of the clock. *)
THEOREM RetentionBoundedHolds == Spec => []RetentionBounded
<1>1. Init => RetentionBounded
  BY DEF Init, Fresh, RetentionBounded
<1>2. CallInv /\ RetentionBounded /\ [Next]_vars => RetentionBounded'
  <2> SUFFICES ASSUME CallInv, RetentionBounded, [Next]_vars PROVE RetentionBounded'
    OBVIOUS
  <2>1. clock \in Nat /\ seen \subseteq Entry
    BY DEF CallInv, TypeOK
  <2>2. ASSUME NEW t \in Threads, RejectReplay(t) PROVE RetentionBounded'
    BY <2>2 DEF RejectReplay, Unexpired, RetentionBounded
  <2>3. ASSUME NEW t \in Threads, Admit(t) PROVE RetentionBounded'
    <3> DEFINE new == [nonce |-> req[t].nonce, expiry |-> ExpiryOf(t)]
    <3>1. /\ clock' = clock /\ seen' = Unexpired(nowC[t]) \cup {new}
          /\ \A e \in Unexpired(nowC[t]) : e.nonce # new.nonce
      BY <2>3 DEF Admit
    <3>2. nowV[t] <= clock /\ nowV[t] \in Nat
      BY <2>3 DEF Admit, CallInv, CallsAreFresh, TypeOK
    <3>3. new.expiry <= clock + 2 * Skew
      BY <2>1, <3>2 DEF ExpiryOf
    <3>4. Unexpired(nowC[t]) \subseteq seen
      BY DEF Unexpired
    <3> HIDE DEF new
    <3> QED BY <3>1, <3>3, <3>4 DEF RetentionBounded
  <2>4. CASE Restart
    BY <2>4 DEF Restart, RetentionBounded
  <2>5. CASE Tick
    BY <2>1, <2>5 DEF Tick, cacheVars, RetentionBounded, Entry
  <2>6. ASSUME NEW t \in Threads,
               \/ RejectSkew(t) \/ PassSignature(t) \/ ReadCacheClock(t)
               \/ \E r \in Requests : Receive(t, r)
        PROVE  clock' = clock /\ seen' = seen
    BY <2>6 DEF RejectSkew, PassSignature, ReadCacheClock, Receive, cacheVars
  <2>7. CASE UNCHANGED vars
    BY <2>7 DEF vars, RetentionBounded
  <2>8. ASSUME clock' = clock, seen' = seen PROVE RetentionBounded'
    BY <2>8 DEF RetentionBounded
  <2> QED BY <2>2, <2>3, <2>4, <2>5, <2>6, <2>7, <2>8 DEF Next, Proceed
<1> QED BY <1>1, <1>2, CallInvariant, PTL DEF Spec
=============================================================================
