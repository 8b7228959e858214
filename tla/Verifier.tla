------------------------------ MODULE Verifier ------------------------------
(***************************************************************************)
(* The integrated per-request Verifier (verifier.py) of one process: the   *)
(* worker threads that run verify, the administrators who edit the         *)
(* allowlist while they run (Allowlist), and the application that          *)
(* registers hooks on the live verifier.                                   *)
(*                                                                         *)
(* verify is cut where it touches what it shares with others: the clock,   *)
(* the allowlist, the replay cache and the two hook lists, which it reads  *)
(* at different moments and never together.  What lies between two cuts is *)
(* local to the call and is one step; which of its checks fails first does *)
(* not matter here, so a rejection is named after its step.                *)
(*                                                                         *)
(* An optional value (request.user_token, the operator policy, a           *)
(* signature) is a set of at most one element.  The split of the replay    *)
(* check into its clock read and its critical section is in ReplayGuard.   *)
(***************************************************************************)
EXTENDS Allowlist, Sequences

CONSTANTS
  Threads,        \* worker threads that share the verifier
  OperatorKeys, AccountKeys, UserKeys,    \* public keys by role (nkeys.py)
  Nonces, Requests, Configs,
  ExtTypes, Validators,
  Refuses,        \* Refuses[v]: the requests validator v raises on
  Skew,
  MaxTime, MaxHooks    \* bounds on the clock and on the hook lists

Keys == OperatorKeys \cup AccountKeys \cup UserKeys

\* A token as its verified claims.  sealed: its own signature verifies; nbf and
\* exp are 0 when absent; malformed: the extensions in it that do not decode.
Token == [kind : {"operator", "account", "user"}, id : Ids, iss : Keys, sub : Keys,
          epoch : Nat, nbf : Nat, exp : Nat, bearer : BOOLEAN, sealed : BOOLEAN,
          malformed : SUBSET ExtTypes]

\* verifier.Request.  signer: whose signature over this timestamp and context it
\* carries, or none.
Request == [account : SUBSET Token, user : SUBSET Token, signer : SUBSET Keys,
            timestamp : Nat, nonce : SUBSET Nonces]

\* How the Verifier was built: pinned to the key root, perhaps with an operator
\* token (policy), or over the entries of a keyring.  Nothing checks root's role.
Config == [kind : {"pinned", "keyring"}, root : Keys, policy : SUBSET Token,
           entries : SUBSET Token, resolver : [Keys -> SUBSET Token], replay : BOOLEAN]

AtMostOne(S) == \A x, y \in S : x = y

-----------------------------------------------------------------------------
(* What the token primitives decide (token.py), and the chain of a request. *)

\* Claims.expired and Claims.not_yet_valid: a window widened by the skew.
Expired(c, n) == c.exp # 0 /\ n - Skew > c.exp
NotYetValid(c, n) == c.nbf # 0 /\ n + Skew < c.nbf
InForce(c, n) == ~Expired(c, n) /\ ~NotYetValid(c, n)

\* verify_operator, verify_account and verify_user.
VerifiesOperator(o, key) ==
  o.sealed /\ o.kind = "operator" /\ o.iss = key /\ o.sub = key /\ key \in OperatorKeys
VerifiesAccount(a, key) ==
  a.sealed /\ a.kind = "account" /\ a.iss = key /\ a.sub \in AccountKeys
VerifiesUser(u, key) ==
  u.sealed /\ u.kind = "user" /\ u.iss = key /\ u.sub \in UserKeys

\* The operator token given to the constructor does not verify: every request fails.
Poisoned(c) == c.kind = "pinned" /\ \E o \in c.policy : ~VerifiesOperator(o, c.root)

\* The account token of a request: its own, or the resolver's for the issuer of
\* a user token that comes alone.
Presented(c, r) ==
  IF r.account # {} THEN r.account
  ELSE UNION {c.resolver[u.iss] : u \in {v \in r.user : v.sealed}}

\* Mutant of Policies: the keyring looks an entry up by key alone.
PoliciesAnyEpoch(c, a) ==
  IF c.kind = "keyring" THEN {o \in c.entries : o.sub = a.iss} ELSE c.policy

\* The operator policy _anchor enforces on an account token: the keyring entry
\* it names, the one operator token, or none.
Policies(c, a) ==
  IF c.kind = "keyring" THEN {o \in c.entries : o.sub = a.iss /\ o.epoch = a.epoch}
  ELSE c.policy

Trusts(c, a) ==
  IF c.kind = "keyring" THEN VerifiesAccount(a, a.iss) /\ Policies(c, a) # {}
  ELSE VerifiesAccount(a, c.root)

\* The account claims _anchor returns for a request; none when it raises.
AccountOf(c, r) == {a \in Presented(c, r) : ~Poisoned(c) /\ Trusts(c, a)}

\* The windows and epoch of the operator and the account (verifier.py:277-294).
InDomain(c, a, n) ==
  /\ InForce(a, n)
  /\ \A o \in Policies(c, a) : InForce(o, n) /\ a.epoch = o.epoch

\* The user token, when there is one, under the account (verifier.py:299-309).
UserHolds(c, a, r, n) ==
  \A u \in r.user :
    /\ VerifiesUser(u, a.sub)
    /\ \A o \in Policies(c, a) : u.epoch = o.epoch
    /\ InForce(u, n)

\* Whoever must have signed: the user of a chain credential, else the account.
Subject(a, r) == IF r.user # {} THEN {u.sub : u \in r.user} ELSE {a.sub}

\* Possession: a signature of the subject in the skew window, or the waiver of a
\* bearer user token when the request carries no signature at all.
Proven(a, r, n) ==
  IF r.signer = {} THEN \E u \in r.user : u.bearer
  ELSE /\ r.signer = Subject(a, r)
       /\ n - r.timestamp <= Skew /\ r.timestamp - n <= Skew

CarriesSound(c, r, e) ==
  \A k \in AccountOf(c, r) \cup r.user : e \notin k.malformed

-----------------------------------------------------------------------------
ASSUME TimeAssumption == Skew \in Nat /\ MaxTime \in Nat /\ MaxHooks \in Nat
ASSUME RequestAssumption ==
  /\ Requests # {}
  /\ Requests \subseteq Request
  /\ \A r \in Requests : /\ AtMostOne(r.account) /\ AtMostOne(r.user)
                         /\ AtMostOne(r.signer) /\ AtMostOne(r.nonce)
ASSUME ConfigAssumption ==
  /\ Configs \subseteq Config
  /\ \A c \in Configs :
       /\ AtMostOne(c.policy)
       /\ \A k \in Keys : AtMostOne(c.resolver[k])
       /\ \A o \in c.entries : VerifiesOperator(o, o.sub)    \* keyring.py:37-66
       /\ \A o, p \in c.entries : (o.sub = p.sub /\ o.epoch = p.epoch) => o = p
ASSUME HookAssumption == Refuses \in [Validators -> SUBSET Requests]

VARIABLES
  clock,
  config,       \* the Verifier's configuration, fixed at construction
  seen,         \* the replay cache's entries
  extTypes,     \* Verifier._extension_types, a list that only grows
  validators,   \* Verifier._validators, likewise
  pc, req,
  now,          \* now[t]: the one instant a call judges every window at
  found,        \* found[t]: the set object its lookup in the allowlist has loaded
  at,           \* at[t]: how many entries of the current hook list it has run
  verdict,
  since,        \* history: what held when call t began, and during it
  spent         \* history: the nonces some call has spent

others == <<config, seen, extTypes, validators>>
shared == <<others, allowlist>>
calls == <<pc, req, now, found, at, verdict, since>>
vars == <<clock, shared, calls, spent>>

Labels == {"idle", "anchor", "domain", "allowlist", "possession", "extensions", "hooks", "returned"}
Verdicts == {"none", "ok", "UNANCHORED", "OUT_OF_DOMAIN", "NOT_ALLOWLISTED", "BAD_USER",
             "UNPROVEN", "NONCE", "REPLAY", "EXTENSION", "VALIDATOR"}
History == [time : Nat, ever : SUBSET Ids, always : SUBSET Ids,
            extTypes : Nat, validators : Nat]

AnyRequest == CHOOSE r \in Requests : TRUE
NoHistory == [time |-> 0, ever |-> {}, always |-> {}, extTypes |-> 0, validators |-> 0]

TypeOK ==
  /\ clock \in Nat
  /\ config \in Configs
  /\ AllowlistTypeOK
  /\ seen \in SUBSET [nonce : Nonces, expiry : Nat]
  /\ extTypes \in Seq(ExtTypes) /\ validators \in Seq(Validators)
  /\ pc \in [Threads -> Labels]
  /\ req \in [Threads -> Requests]
  /\ now \in [Threads -> Nat]
  /\ found \in [Threads -> Sets]
  /\ at \in [Threads -> Nat]
  /\ verdict \in [Threads -> Verdicts]
  /\ since \in [Threads -> History]
  /\ spent \in SUBSET Nonces

Init ==
  /\ clock = 0
  /\ config \in Configs
  /\ AllowlistInit
  /\ seen = {} /\ extTypes = <<>> /\ validators = <<>>
  /\ pc = [t \in Threads |-> "idle"]
  /\ req = [t \in Threads |-> AnyRequest]
  /\ now = [t \in Threads |-> 0]
  /\ found = [t \in Threads |-> AnySet]
  /\ at = [t \in Threads |-> 0]
  /\ verdict = [t \in Threads |-> "none"]
  /\ since = [t \in Threads |-> NoHistory]
  /\ spent = {}

-----------------------------------------------------------------------------
(* One call of verify. *)

Return(t, v) ==
  /\ pc' = [pc EXCEPT ![t] = "returned"]
  /\ verdict' = [verdict EXCEPT ![t] = v]
  /\ UNCHANGED <<req, now, found, at, since>>

Goto(t, label) == pc' = [pc EXCEPT ![t] = label]

Receive(t, r) ==
  /\ pc[t] = "idle"
  /\ Goto(t, "anchor")
  /\ req' = [req EXCEPT ![t] = r]
  /\ since' = [since EXCEPT ![t] =
       [time |-> clock, ever |-> Listed \cup Pending("add"),
        always |-> Listed \ Pending("discard"),
        extTypes |-> Len(extTypes), validators |-> Len(validators)]]
  /\ UNCHANGED <<clock, shared, now, found, at, verdict, spent>>

RejectUnanchored(t) ==
  /\ pc[t] = "anchor"
  /\ AccountOf(config, req[t]) = {}
  /\ Return(t, "UNANCHORED")
  /\ UNCHANGED <<clock, shared, spent>>

\* Mutant of Anchor: the skew is taken off the clock here already.
AnchorSkewed(t) ==
  /\ pc[t] = "anchor"
  /\ AccountOf(config, req[t]) # {}
  /\ Goto(t, "domain")
  /\ now' = [now EXCEPT ![t] = clock - Skew]
  /\ UNCHANGED <<clock, shared, req, found, at, verdict, since, spent>>

\* The clock is read once the account token is anchored.
Anchor(t) ==
  /\ pc[t] = "anchor"
  /\ AccountOf(config, req[t]) # {}
  /\ Goto(t, "domain")
  /\ now' = [now EXCEPT ![t] = clock]
  /\ UNCHANGED <<clock, shared, req, found, at, verdict, since, spent>>

RejectDomain(t) ==
  /\ pc[t] = "domain"
  /\ \E a \in AccountOf(config, req[t]) : ~InDomain(config, a, now[t])
  /\ Return(t, "OUT_OF_DOMAIN")
  /\ UNCHANGED <<clock, shared, spent>>

\* Mutant of PassDomain: the user token is judged at a second reading of the clock.
PassDomainRereads(t) ==
  /\ pc[t] = "domain"
  /\ \E a \in AccountOf(config, req[t]) : InDomain(config, a, now[t])
  /\ Goto(t, "allowlist")
  /\ found' = [found EXCEPT ![t] = current]
  /\ now' = [now EXCEPT ![t] = clock]
  /\ UNCHANGED <<clock, shared, req, at, verdict, since, spent>>

\* The windows hold; the lookup in the allowlist loads _ids.
PassDomain(t) ==
  /\ pc[t] = "domain"
  /\ \E a \in AccountOf(config, req[t]) : InDomain(config, a, now[t])
  /\ Goto(t, "allowlist")
  /\ found' = [found EXCEPT ![t] = current]
  /\ UNCHANGED <<clock, shared, req, now, at, verdict, since, spent>>

InAllowlist(t) == \A a \in AccountOf(config, req[t]) : a.id \in content[found[t]]

RejectUnlisted(t) ==
  /\ pc[t] = "allowlist" /\ ~InAllowlist(t)
  /\ Return(t, "NOT_ALLOWLISTED")
  /\ UNCHANGED <<clock, shared, spent>>

\* Mutant of PassAllowlist: the verdict of the lookup is not heeded.
PassAllowlistAnyway(t) ==
  /\ pc[t] = "allowlist"
  /\ Goto(t, "possession")
  /\ UNCHANGED <<clock, shared, req, now, found, at, verdict, since, spent>>

PassAllowlist(t) ==
  /\ pc[t] = "allowlist" /\ InAllowlist(t)
  /\ Goto(t, "possession")
  /\ found' = [found EXCEPT ![t] = AnySet]
  /\ UNCHANGED <<clock, shared, req, now, at, verdict, since, spent>>

RejectUser(t) ==
  /\ pc[t] = "possession"
  /\ \E a \in AccountOf(config, req[t]) : ~UserHolds(config, a, req[t], now[t])
  /\ Return(t, "BAD_USER")
  /\ UNCHANGED <<clock, shared, spent>>

RejectUnproven(t) ==
  /\ pc[t] = "possession"
  /\ \E a \in AccountOf(config, req[t]) :
       UserHolds(config, a, req[t], now[t]) /\ ~Proven(a, req[t], now[t])
  /\ Return(t, "UNPROVEN")
  /\ UNCHANGED <<clock, shared, spent>>

Possesses(t) ==
  \E a \in AccountOf(config, req[t]) :
    UserHolds(config, a, req[t], now[t]) /\ Proven(a, req[t], now[t])

\* A bearer request has no signed nonce and is never looked up.
Guarded(r) == config.replay /\ r.signer # {}

RejectNonce(t) ==
  /\ pc[t] = "possession" /\ Possesses(t)
  /\ Guarded(req[t]) /\ req[t].nonce = {}
  /\ Return(t, "NONCE")
  /\ UNCHANGED <<clock, shared, spent>>

Unexpired == {e \in seen : e.expiry > clock}
Recorded(r) == \E e \in Unexpired : e.nonce \in r.nonce

RejectReplay(t) ==
  /\ pc[t] = "possession" /\ Possesses(t)
  /\ Guarded(req[t]) /\ Recorded(req[t])
  /\ seen' = Unexpired
  /\ Return(t, "REPLAY")
  /\ UNCHANGED <<clock, config, allowlist, extTypes, validators, spent>>

\* The nonce is recorded before the hooks run.
Possess(t) ==
  /\ pc[t] = "possession" /\ Possesses(t)
  /\ \/ ~Guarded(req[t]) /\ UNCHANGED <<seen, spent>>
     \/ /\ Guarded(req[t]) /\ req[t].nonce # {} /\ ~Recorded(req[t])
        /\ seen' = Unexpired \cup [nonce : req[t].nonce, expiry : {now[t] + 2 * Skew}]
        /\ spent' = spent \cup req[t].nonce
  /\ Goto(t, "extensions")
  /\ at' = [at EXCEPT ![t] = 0]
  /\ UNCHANGED <<clock, config, allowlist, extTypes, validators, req, now, found, verdict, since>>

\* One turn of the loop over the live list of required extension types.
CheckExtension(t) ==
  /\ pc[t] = "extensions" /\ at[t] < Len(extTypes)
  /\ CarriesSound(config, req[t], extTypes[at[t] + 1])
  /\ at' = [at EXCEPT ![t] = @ + 1]
  /\ UNCHANGED <<clock, shared, pc, req, now, found, verdict, since, spent>>

RejectExtension(t) ==
  /\ pc[t] = "extensions" /\ at[t] < Len(extTypes)
  /\ ~CarriesSound(config, req[t], extTypes[at[t] + 1])
  /\ Return(t, "EXTENSION")
  /\ UNCHANGED <<clock, shared, spent>>

\* Mutant of ExtensionsDone: the second loop goes on with the index of the first.
ExtensionsDoneKeepsIndex(t) ==
  /\ pc[t] = "extensions" /\ at[t] = Len(extTypes)
  /\ Goto(t, "hooks")
  /\ UNCHANGED <<clock, shared, req, now, found, at, verdict, since, spent>>

ExtensionsDone(t) ==
  /\ pc[t] = "extensions" /\ at[t] = Len(extTypes)
  /\ Goto(t, "hooks")
  /\ at' = [at EXCEPT ![t] = 0]
  /\ UNCHANGED <<clock, shared, req, now, found, verdict, since, spent>>

\* One turn of the loop over the live list of validators.
RunValidator(t) ==
  /\ pc[t] = "hooks" /\ at[t] < Len(validators)
  /\ req[t] \notin Refuses[validators[at[t] + 1]]
  /\ at' = [at EXCEPT ![t] = @ + 1]
  /\ UNCHANGED <<clock, shared, pc, req, now, found, verdict, since, spent>>

\* Mutant of RejectValidator: the exception is swallowed and the hook tried again.
RejectValidatorRetries(t) ==
  /\ pc[t] = "hooks" /\ at[t] < Len(validators)
  /\ req[t] \in Refuses[validators[at[t] + 1]]
  /\ UNCHANGED vars

RejectValidator(t) ==
  /\ pc[t] = "hooks" /\ at[t] < Len(validators)
  /\ req[t] \in Refuses[validators[at[t] + 1]]
  /\ Return(t, "VALIDATOR")
  /\ UNCHANGED <<clock, shared, spent>>

Accept(t) ==
  /\ pc[t] = "hooks" /\ at[t] = Len(validators)
  /\ Return(t, "ok")
  /\ UNCHANGED <<clock, shared, spent>>

\* The transport has taken the result; the thread is free for another request.
Reply(t) ==
  /\ pc[t] = "returned"
  /\ Goto(t, "idle")
  /\ req' = [req EXCEPT ![t] = AnyRequest]
  /\ now' = [now EXCEPT ![t] = 0]
  /\ found' = [found EXCEPT ![t] = AnySet]
  /\ at' = [at EXCEPT ![t] = 0]
  /\ verdict' = [verdict EXCEPT ![t] = "none"]
  /\ since' = [since EXCEPT ![t] = NoHistory]
  /\ UNCHANGED <<clock, shared, spent>>

Proceed(t) ==
  \/ RejectUnanchored(t) \/ Anchor(t)
  \/ RejectDomain(t) \/ PassDomain(t) \/ RejectUnlisted(t) \/ PassAllowlist(t)
  \/ RejectUser(t) \/ RejectUnproven(t) \/ RejectNonce(t) \/ RejectReplay(t) \/ Possess(t)
  \/ CheckExtension(t) \/ RejectExtension(t) \/ ExtensionsDone(t)
  \/ RunValidator(t) \/ RejectValidator(t) \/ Accept(t)

-----------------------------------------------------------------------------
(* What happens around the calls. *)

InProgress(t) == pc[t] \notin {"idle", "returned"}

\* Calls in progress witness that ids come onto the allowlist and others leave it.
Witness(added, kept) ==
  since' = [t \in Threads |->
    IF InProgress(t) THEN [since[t] EXCEPT !.ever = @ \cup added, !.always = @ \cap kept]
    ELSE since[t]]

UnderEdits == <<clock, others, pc, req, now, found, at, verdict, spent>>

\* StaticAllowlist.add, discard and replace.
Add(a, id) == Load(a, "add", id) /\ Witness({id}, Ids) /\ UNCHANGED UnderEdits
Discard(a, id) == Load(a, "discard", id) /\ Witness({}, Ids \ {id}) /\ UNCHANGED UnderEdits
FinishEdit(a) == Change(a) /\ UNCHANGED <<since, UnderEdits>>

LookedThrough == {found[t] : t \in {u \in Threads : pc[u] = "allowlist"}}
Replace(ids) ==
  Swap(ids, Named \cup LookedThrough) /\ Witness(ids, ids) /\ UNCHANGED UnderEdits

RequireExtension(e) ==
  /\ Len(extTypes) < MaxHooks
  /\ extTypes' = Append(extTypes, e)
  /\ UNCHANGED <<clock, config, allowlist, seen, validators, calls, spent>>

RegisterValidator(v) ==
  /\ Len(validators) < MaxHooks
  /\ validators' = Append(validators, v)
  /\ UNCHANGED <<clock, config, allowlist, seen, extTypes, calls, spent>>

Tick ==
  /\ clock < MaxTime
  /\ clock' = clock + 1
  /\ UNCHANGED <<shared, calls, spent>>

Environment ==
  \/ Tick
  \/ \E a \in Admins : FinishEdit(a) \/ \E id \in Ids : Add(a, id) \/ Discard(a, id)
  \/ \E ids \in SUBSET Ids : Replace(ids)
  \/ \E e \in ExtTypes : RequireExtension(e)
  \/ \E v \in Validators : RegisterValidator(v)

Next ==
  \/ Environment
  \/ \E t \in Threads : Proceed(t) \/ Reply(t) \/ \E r \in Requests : Receive(t, r)

Spec == Init /\ [][Next]_vars

\* A call waits for nothing but its turn (the replay cache's lock is held for one
\* step), so a scheduled thread runs it to the end.
FairSpec == Spec /\ \A t \in Threads : WF_vars(Proceed(t))

-----------------------------------------------------------------------------

\* What a request is entitled to, told without the order of the checks: somewhere
\* in the trusted domains, each taken alone, its whole chain stands at instant n.
Alone(c, o) == [c EXCEPT !.kind = "pinned", !.root = o.sub, !.policy = {o}]
Domains(c) == IF c.kind = "keyring" THEN {Alone(c, o) : o \in c.entries} ELSE {c}
Stands(c, r, n) == \E a \in AccountOf(c, r) :
  InDomain(c, a, n) /\ UserHolds(c, a, r, n) /\ Proven(a, r, n)
StandsIn(c, r, n) == {d \in Domains(c) : Stands(d, r, n)}

ReachedHooks(t) ==
  pc[t] \in {"extensions", "hooks"} \/ verdict[t] \in {"EXTENSION", "VALIDATOR", "ok"}

\* Hooks only see, and verify only returns, requests whose whole chain stood at
\* ONE instant of the call, in exactly one trusted domain taken alone: a keyring
\* never mixes the key, epoch or window of two entries (verifier.py:275-326).  By then
\* the nonce of a signed request is spent: no retry of it passes a hook's refusal
\* (verifier.py:323-333).
HooksSeeOnlyEntitled ==
  \A t \in Threads : ReachedHooks(t) =>
    /\ \E n \in since[t].time .. clock, d \in Domains(config) :
         StandsIn(config, req[t], n) = {d}
    /\ Guarded(req[t]) => req[t].nonce # {} /\ req[t].nonce \subseteq spent

\* An accepted account was on the allowlist, or being added, at some moment of the
\* call: a revocation that precedes the call and is not undone is final, though the
\* lookup may search a set that has been replaced (allowlist.py:3-5, 30-33).
RevocationTakesEffect ==
  \A t \in Threads : ReachedHooks(t) =>
    \E a \in Presented(config, req[t]) : a.id \in since[t].ever

\* A refusal has a cause: at some moment of the call the chain stood in no domain,
\* or its account was off the allowlist or being taken off it, or the nonce was
\* missing or spent, or a hook refuses.
RefusalJustified ==
  \A t \in Threads : (pc[t] = "returned" /\ verdict[t] # "ok") =>
    \/ \E n \in since[t].time .. clock : StandsIn(config, req[t], n) = {}
    \/ \E a \in Presented(config, req[t]) : a.id \notin since[t].always
    \/ Guarded(req[t]) /\ (req[t].nonce = {} \/ req[t].nonce \cap spent # {})
    \/ \E i \in DOMAIN extTypes : ~CarriesSound(config, req[t], extTypes[i])
    \/ \E i \in DOMAIN validators : req[t] \in Refuses[validators[i]]

\* The hook lists are read live: an accepted request passed every extension type
\* and validator registered before its call began (verifier.py:335-349).
NoHookSkipped ==
  \A t \in Threads : verdict[t] = "ok" =>
    /\ \A i \in 1 .. since[t].extTypes : CarriesSound(config, req[t], extTypes[i])
    /\ \A i \in 1 .. since[t].validators : req[t] \notin Refuses[validators[i]]

\* Every call of verify returns or raises, whatever is registered or edited
\* while it runs (verifier.py:251-351).
CallsReturn == \A t \in Threads : pc[t] = "anchor" ~> pc[t] = "returned"
=============================================================================
