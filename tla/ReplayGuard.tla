---------------------------- MODULE ReplayGuard -----------------------------
(***************************************************************************)
(* The verifier threads of one process in front of a MemoryReplayCache     *)
(* (replay.py), from the clock read of Verifier.verify to its replay       *)
(* verdict (verifier.py:275 and 323-333, token.py:794-798).                *)
(*                                                                         *)
(* The clock is read twice per request, by the verifier (nowV) and by the  *)
(* cache before it takes its lock (nowC), and both values are used later,  *)
(* when the clock may have moved on and other threads may have used the    *)
(* cache.  Only correctly signed requests are modelled: a request stands   *)
(* for one (nonce, timestamp, signature), and the network may deliver it   *)
(* any number of times.                                                    *)
(*                                                                         *)
(* Two bounds describe the environment: MaxLead, how far the timestamp of  *)
(* a request may be ahead of the server's clock when it arrives, and       *)
(* MaxStall, how long a thread may take between the verifier's clock read  *)
(* and the end of the cache's critical section.                            *)
(***************************************************************************)
EXTENDS Integers

CONSTANTS
  Threads,    \* worker threads that share the verifier and the cache
  Nonces,     \* nonces the clients draw
  Requests,   \* signed requests: records of a nonce and a timestamp
  Skew,       \* Verifier(skew=...)
  MaxLead, MaxStall,
  MaxTime, MaxBoots    \* bounds on the clock and on restarts

ASSUME SkewAssumption == Skew \in Nat
ASSUME BoundAssumption == /\ MaxLead \in Nat
                          /\ MaxStall \in Nat
                          /\ MaxTime \in Nat
                          /\ MaxBoots \in Nat \ {0}
ASSUME RequestAssumption == Requests \subseteq [nonce : Nonces, timestamp : Nat]
ASSUME SomeRequest == Requests # {}

VARIABLES
  clock,      \* the time both clock callables return
  boot,       \* incarnation of the process
  pc,         \* pc[t]: where thread t is in Verifier.verify
  req,        \* req[t]: the request thread t verifies, or verified last
  nowV,       \* nowV[t]: the local "now" of Verifier.verify
  nowC,       \* nowC[t]: the local "now" of seen_before
  seen,       \* MemoryReplayCache._seen, one entry per recorded nonce
  verdict,    \* verdict[t]: how the last call of thread t ended
  admitted    \* admitted[b][r]: how often incarnation b let request r pass

cacheVars == <<seen, admitted>>
threadVars == <<pc, req, nowV, nowC, verdict>>
vars == <<clock, boot, seen, admitted, threadVars>>

Boots == 1..MaxBoots
Labels == {"idle", "signature", "seen_before", "lock"}
Verdicts == {"none", "ok", "SKEW", "REPLAY"}
Entry == [nonce : Nonces, expiry : Nat]

TypeOK ==
  /\ clock \in Nat
  /\ boot \in Boots
  /\ pc \in [Threads -> Labels]
  /\ req \in [Threads -> Requests]
  /\ nowV \in [Threads -> Nat]
  /\ nowC \in [Threads -> Nat]
  /\ seen \in SUBSET Entry
  /\ verdict \in [Threads -> Verdicts]
  /\ admitted \in [Boots -> [Requests -> Nat]]

-----------------------------------------------------------------------------

\* A fresh process: an empty cache and no request in any thread.
Fresh ==
  /\ pc = [t \in Threads |-> "idle"]
  /\ req \in [Threads -> {CHOOSE r \in Requests : TRUE}]
  /\ nowV = [t \in Threads |-> 0]
  /\ nowC = [t \in Threads |-> 0]
  /\ verdict = [t \in Threads |-> "none"]
  /\ seen = {}

Init ==
  /\ clock = 0
  /\ boot = 1
  /\ Fresh
  /\ admitted = [b \in Boots |-> [r \in Requests |-> 0]]

-----------------------------------------------------------------------------

\* verify returns or raises; its locals die with the call.
Return(t, v) ==
  /\ pc' = [pc EXCEPT ![t] = "idle"]
  /\ verdict' = [verdict EXCEPT ![t] = v]
  /\ nowV' = [nowV EXCEPT ![t] = 0]
  /\ nowC' = [nowC EXCEPT ![t] = 0]
  /\ UNCHANGED req

\* A thread takes up a delivered request and reads the verifier's clock.  A
\* delivery may be the first, a retry or a duplicate.
Receive(t, r) ==
  /\ pc[t] = "idle"
  /\ r.timestamp <= clock + MaxLead
  /\ pc' = [pc EXCEPT ![t] = "signature"]
  /\ req' = [req EXCEPT ![t] = r]
  /\ nowV' = [nowV EXCEPT ![t] = clock]
  /\ verdict' = [verdict EXCEPT ![t] = "none"]
  /\ UNCHANGED <<clock, boot, nowC, cacheVars>>

\* The closed window of verify_signature: -skew <= drift <= skew.
InWindow(r, now) == /\ now - r.timestamp <= Skew
                    /\ r.timestamp - now <= Skew

RejectSkew(t) ==
  /\ pc[t] = "signature"
  /\ ~InWindow(req[t], nowV[t])
  /\ Return(t, "SKEW")
  /\ UNCHANGED <<clock, boot, cacheVars>>

PassSignature(t) ==
  /\ pc[t] = "signature"
  /\ InWindow(req[t], nowV[t])
  /\ pc' = [pc EXCEPT ![t] = "seen_before"]
  /\ UNCHANGED <<clock, boot, cacheVars, req, nowV, nowC, verdict>>

\* seen_before reads its clock before it waits for the lock.
ReadCacheClock(t) ==
  /\ pc[t] = "seen_before"
  /\ pc' = [pc EXCEPT ![t] = "lock"]
  /\ nowC' = [nowC EXCEPT ![t] = clock]
  /\ UNCHANGED <<clock, boot, cacheVars, req, nowV, verdict>>

\* Mutant of Unexpired: the prune loop drops an entry a second early.
UnexpiredEarly(now) == {e \in seen : e.expiry > now + 1}

\* The entries the prune loop leaves.
Unexpired(now) == {e \in seen : e.expiry > now}

\* Mutants of ExpiryOf: a slip of the sign; a retention of one skew; one counted
\* from the timestamp.
ExpirySignSlip(t) == nowV[t] - 2 * Skew
ExpiryOneSkew(t) == nowV[t] + Skew
ExpiryFromTimestamp(t) == req[t].timestamp + 2 * Skew

\* The expiry verify passes: now + 2 * skew.
ExpiryOf(t) == nowV[t] + 2 * Skew

\* The critical section that finds the nonce.
RejectReplay(t) ==
  /\ pc[t] = "lock"
  /\ \E e \in Unexpired(nowC[t]) : e.nonce = req[t].nonce
  /\ seen' = Unexpired(nowC[t])
  /\ Return(t, "REPLAY")
  /\ UNCHANGED <<clock, boot, admitted>>

\* Mutants of Admit: the nonce is stored before it is looked up, so it is always
\* found; it is looked up and never stored.
AdmitStoresFirst(t) ==
  /\ pc[t] = "lock"
  /\ \A e \in Unexpired(nowC[t]) : e.nonce # req[t].nonce
  /\ seen' = Unexpired(nowC[t])
               \cup {[nonce |-> req[t].nonce, expiry |-> ExpiryOf(t)]}
  /\ Return(t, "REPLAY")
  /\ UNCHANGED <<clock, boot, admitted>>
AdmitUnrecorded(t) ==
  /\ pc[t] = "lock"
  /\ \A e \in Unexpired(nowC[t]) : e.nonce # req[t].nonce
  /\ seen' = Unexpired(nowC[t])
  /\ admitted' = [admitted EXCEPT ![boot][req[t]] = @ + 1]
  /\ Return(t, "ok")
  /\ UNCHANGED <<clock, boot>>

\* The critical section that does not find it and records it.
Admit(t) ==
  /\ pc[t] = "lock"
  /\ \A e \in Unexpired(nowC[t]) : e.nonce # req[t].nonce
  /\ seen' = Unexpired(nowC[t])
               \cup {[nonce |-> req[t].nonce, expiry |-> ExpiryOf(t)]}
  /\ admitted' = [admitted EXCEPT ![boot][req[t]] = @ + 1]
  /\ Return(t, "ok")
  /\ UNCHANGED <<clock, boot>>

\* Time passes, but no further than a call in progress may be stalled.
Tick ==
  /\ clock < MaxTime
  /\ \A t \in Threads : pc[t] # "idle" => clock < nowV[t] + MaxStall
  /\ clock' = clock + 1
  /\ UNCHANGED <<boot, cacheVars, threadVars>>

\* The process restarts; the cache is process-local (replay.py:6-9).
Restart ==
  /\ boot < MaxBoots
  /\ boot' = boot + 1
  /\ pc' = [t \in Threads |-> "idle"]
  /\ nowV' = [t \in Threads |-> 0]
  /\ nowC' = [t \in Threads |-> 0]
  /\ verdict' = [t \in Threads |-> "none"]
  /\ seen' = {}
  /\ UNCHANGED <<clock, req, admitted>>

\* What a thread does on its own once it has a request.
Proceed(t) ==
  \/ RejectSkew(t)
  \/ PassSignature(t)
  \/ ReadCacheClock(t)
  \/ RejectReplay(t)
  \/ Admit(t)

Next ==
  \/ Tick
  \/ Restart
  \/ \E t \in Threads : Proceed(t) \/ \E r \in Requests : Receive(t, r)

Spec == Init /\ [][Next]_vars

\* A scheduled thread runs its call to the end: nothing in verify waits for
\* anything but the cache's lock, which is held for one step.
FairSpec == Spec /\ \A t \in Threads : WF_vars(Proceed(t))

-----------------------------------------------------------------------------

\* The environment keeps the retention window ahead of the signature window:
\* the entry of a request outlives every moment the request may pass at.
RetentionCovers == MaxLead + MaxStall < Skew

\* No incarnation lets the same signed request through twice, however often it
\* is delivered and however the threads interleave (replay.py:2-4).
AtMostOncePerBoot == \A b \in Boots, r \in Requests : admitted[b][r] <= 1

\* A request is refused as a replay only when this process has really let a
\* request with its nonce through (verifier.py:330-333).
ReplayJustified ==
  \A t \in Threads : verdict[t] = "REPLAY" =>
    \E r \in Requests : r.nonce = req[t].nonce /\ admitted[boot][r] > 0

\* Whatever stale clock a thread prunes with, an entry leaves the cache only
\* when its expiry is past, or with the whole process (replay.py:52-54).
NonceHeldUntilExpiry ==
  [][boot' = boot => \A e \in seen \ seen' : e.expiry <= clock]_vars

\* The dict keeps one expiry per nonce and holds it no longer than the
\* retention the verifier asks for: memory is that of the last 2 * skew.
RetentionBounded ==
  /\ \A e \in seen : e.expiry <= clock + 2 * Skew
  /\ \A e, f \in seen : e.nonce = f.nonce => e = f

\* Suppression does not lose requests: when a request in its window is taken
\* up, this incarnation has let it (or its nonce) through once it is decided,
\* unless the process restarts.
DeliveredIsAdmitted ==
  \A t \in Threads, b \in Boots, n \in Nonces :
    (/\ pc[t] = "signature" /\ boot = b
     /\ req[t].nonce = n /\ InWindow(req[t], nowV[t]))
      ~> (\/ boot # b
          \/ \E r \in Requests : r.nonce = n /\ admitted[b][r] > 0)

Promise == INSTANCE AtMostOnce

\* Two clock reads, a lock and pruning, seen from outside, are one admission
\* per request and incarnation: every step is a step of AtMostOnce or none.
ImplementsAtMostOnce == Promise!Spec
=============================================================================
