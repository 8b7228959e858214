--------------------------- MODULE VerifierProofs ---------------------------
(***************************************************************************)
(* Theorems about Verifier for every number of worker threads,             *)
(* administrators and set objects, every configuration and set of          *)
(* requests, every skew and every list of hooks.                           *)
(***************************************************************************)
EXTENDS Verifier, SequenceTheorems, TLAPS

USE SetsAssumption, TimeAssumption, RequestAssumption, ConfigAssumption, HookAssumption

-----------------------------------------------------------------------------
(* A request stands for a verifier exactly when it stands in one of the      *)
(* domains the verifier trusts, taken alone, and then in that one only.      *)

LEMMA OneAccount ==
  ASSUME NEW c \in Configs, NEW r \in Requests
  PROVE  AtMostOne(Presented(c, r))
<1>1. c \in Config /\ r \in Request /\ AtMostOne(r.account) /\ AtMostOne(r.user)
  OBVIOUS
<1>2. \A u \in r.user : u.iss \in Keys
  BY <1>1 DEF Request, Token
<1>3. \A k \in Keys : AtMostOne(c.resolver[k])
  OBVIOUS
<1>4. CASE r.account # {}
  BY <1>1, <1>4 DEF Presented
<1>5. CASE r.account = {}
  <2> SUFFICES ASSUME NEW a \in Presented(c, r), NEW b \in Presented(c, r) PROVE a = b
    BY DEF AtMostOne
  <2>1. PICK u \in r.user : a \in c.resolver[u.iss]
    BY <1>5 DEF Presented
  <2>2. PICK v \in r.user : b \in c.resolver[v.iss]
    BY <1>5 DEF Presented
  <2>3. u = v
    BY <1>1 DEF AtMostOne
  <2> QED BY <1>2, <1>3, <2>1, <2>2, <2>3 DEF AtMostOne
<1> QED BY <1>4, <1>5

LEMMA AloneFacts ==
  ASSUME NEW c \in Configs, c.kind = "keyring", NEW o \in c.entries, NEW r, NEW n
  PROVE  Stands(Alone(c, o), r, n) <=>
           \E a \in Presented(c, r) :
             /\ VerifiesAccount(a, a.iss) /\ a.iss = o.sub /\ a.epoch = o.epoch
             /\ InForce(a, n) /\ InForce(o, n)
             /\ \A u \in r.user : VerifiesUser(u, a.sub) /\ u.epoch = o.epoch /\ InForce(u, n)
             /\ Proven(a, r, n)
<1> DEFINE d == Alone(c, o)
<1>1. c \in Config /\ VerifiesOperator(o, o.sub)
  OBVIOUS
<1>2. /\ d.kind = "pinned" /\ d.root = o.sub /\ d.policy = {o} /\ d.resolver = c.resolver
  BY <1>1 DEF Alone, Config
<1> HIDE DEF d
<1>3. Presented(d, r) = Presented(c, r)
  BY <1>2 DEF Presented
<1>4. ~Poisoned(d)
  BY <1>1, <1>2 DEF Poisoned
<1>5. \A a : Policies(d, a) = {o}
  BY <1>2 DEF Policies
<1>6. AccountOf(d, r) = {a \in Presented(c, r) : VerifiesAccount(a, o.sub)}
  BY <1>2, <1>3, <1>4 DEF AccountOf, Trusts
<1>7. \A a : VerifiesAccount(a, o.sub) <=> VerifiesAccount(a, a.iss) /\ a.iss = o.sub
  BY DEF VerifiesAccount
<1>8. \A a : InDomain(d, a, n) <=> InForce(a, n) /\ InForce(o, n) /\ a.epoch = o.epoch
  BY <1>5 DEF InDomain
<1>9. \A a : UserHolds(d, a, r, n) <=>
        \A u \in r.user : VerifiesUser(u, a.sub) /\ u.epoch = o.epoch /\ InForce(u, n)
  BY <1>5 DEF UserHolds
<1>10. Stands(d, r, n) <=>
         \E a \in AccountOf(d, r) : InDomain(d, a, n) /\ UserHolds(d, a, r, n) /\ Proven(a, r, n)
  BY DEF Stands
<1>11. Stands(d, r, n) <=>
         \E a \in Presented(c, r) :
             /\ VerifiesAccount(a, a.iss) /\ a.iss = o.sub /\ a.epoch = o.epoch
             /\ InForce(a, n) /\ InForce(o, n)
             /\ \A u \in r.user : VerifiesUser(u, a.sub) /\ u.epoch = o.epoch /\ InForce(u, n)
             /\ Proven(a, r, n)
  BY <1>6, <1>7, <1>8, <1>9, <1>10
<1> QED BY <1>11 DEF d

LEMMA KeyringFacts ==
  ASSUME NEW c \in Configs, c.kind = "keyring", NEW r, NEW n
  PROVE  Stands(c, r, n) <=>
           \E a \in Presented(c, r), o \in c.entries :
             /\ VerifiesAccount(a, a.iss) /\ a.iss = o.sub /\ a.epoch = o.epoch
             /\ InForce(a, n) /\ InForce(o, n)
             /\ \A u \in r.user : VerifiesUser(u, a.sub) /\ u.epoch = o.epoch /\ InForce(u, n)
             /\ Proven(a, r, n)
<1>1. ~Poisoned(c)
  BY DEF Poisoned
<1>2. \A a : Policies(c, a) = {o \in c.entries : o.sub = a.iss /\ o.epoch = a.epoch}
  BY DEF Policies
<1>3. \A o, p \in c.entries : (o.sub = p.sub /\ o.epoch = p.epoch) => o = p
  OBVIOUS
<1>4. \A a, o : o \in c.entries /\ o.sub = a.iss /\ o.epoch = a.epoch => Policies(c, a) = {o}
  BY <1>2, <1>3
<1>5. \A a : a \in AccountOf(c, r) <=>
        /\ a \in Presented(c, r) /\ VerifiesAccount(a, a.iss)
        /\ \E o \in c.entries : o.sub = a.iss /\ o.epoch = a.epoch
  BY <1>1, <1>2 DEF AccountOf, Trusts
<1>6. \A a, o : Policies(c, a) = {o} =>
        /\ InDomain(c, a, n) <=> InForce(a, n) /\ InForce(o, n) /\ a.epoch = o.epoch
        /\ UserHolds(c, a, r, n) <=>
             \A u \in r.user : VerifiesUser(u, a.sub) /\ u.epoch = o.epoch /\ InForce(u, n)
  BY DEF InDomain, UserHolds
<1>7. Stands(c, r, n) <=>
        \E a \in AccountOf(c, r) : InDomain(c, a, n) /\ UserHolds(c, a, r, n) /\ Proven(a, r, n)
  BY DEF Stands
<1> QED BY <1>4, <1>5, <1>6, <1>7

LEMMA StandsInOne ==
  ASSUME NEW c \in Configs, NEW r \in Requests, NEW n
  PROVE  /\ Stands(c, r, n) => \E d \in Domains(c) : StandsIn(c, r, n) = {d}
         /\ ~Stands(c, r, n) => StandsIn(c, r, n) = {}
<1>0. c \in Config
  OBVIOUS
<1>1. CASE c.kind # "keyring"
  BY <1>1 DEF Domains, StandsIn
<1>2. CASE c.kind = "keyring"
  <2>1. Domains(c) = {Alone(c, o) : o \in c.entries}
    BY <1>2 DEF Domains
  <2>2. \A o \in c.entries : Stands(Alone(c, o), r, n) => Stands(c, r, n)
    BY <1>2, AloneFacts, KeyringFacts
  <2>3. \A o, p \in c.entries : Stands(Alone(c, o), r, n) /\ Stands(Alone(c, p), r, n) => o = p
    <3> SUFFICES ASSUME NEW o \in c.entries, NEW p \in c.entries,
                        Stands(Alone(c, o), r, n), Stands(Alone(c, p), r, n)
                 PROVE  o = p
      OBVIOUS
    <3>1. PICK a \in Presented(c, r) : a.iss = o.sub /\ a.epoch = o.epoch
      BY <1>2, AloneFacts
    <3>2. PICK b \in Presented(c, r) : b.iss = p.sub /\ b.epoch = p.epoch
      BY <1>2, AloneFacts
    <3>3. a = b
      BY OneAccount DEF AtMostOne
    <3> QED BY <3>1, <3>2, <3>3
  <2>4. Stands(c, r, n) => \E o \in c.entries : Stands(Alone(c, o), r, n)
    <3> SUFFICES ASSUME Stands(c, r, n) PROVE \E o \in c.entries : Stands(Alone(c, o), r, n)
      OBVIOUS
    <3>1. PICK a \in Presented(c, r), o \in c.entries :
             /\ VerifiesAccount(a, a.iss) /\ a.iss = o.sub /\ a.epoch = o.epoch
             /\ InForce(a, n) /\ InForce(o, n)
             /\ \A u \in r.user : VerifiesUser(u, a.sub) /\ u.epoch = o.epoch /\ InForce(u, n)
             /\ Proven(a, r, n)
      BY <1>2, KeyringFacts
    <3> QED BY <1>2, <3>1, AloneFacts
  <2>5. StandsIn(c, r, n) = {Alone(c, o) : o \in {p \in c.entries : Stands(Alone(c, p), r, n)}}
    BY <2>1 DEF StandsIn
  <2> QED BY <2>1, <2>2, <2>3, <2>4, <2>5
<1> QED BY <1>1, <1>2

-----------------------------------------------------------------------------
(* The inductive invariant. *)

Entitled(t) ==
  \E n \in since[t].time .. clock, d \in Domains(config) :
    StandsIn(config, req[t], n) = {d}

\* The nonce of a signed request is on record.
Spent(t) == Guarded(req[t]) => req[t].nonce # {} /\ req[t].nonce \subseteq spent

Admitted(t) == \E a \in Presented(config, req[t]) : a.id \in since[t].ever

Justified(t) ==
  \/ \E n \in since[t].time .. clock : StandsIn(config, req[t], n) = {}
  \/ \E a \in Presented(config, req[t]) : a.id \notin since[t].always
  \/ Guarded(req[t]) /\ (req[t].nonce = {} \/ req[t].nonce \cap spent # {})
  \/ \E i \in DOMAIN extTypes : ~CarriesSound(config, req[t], extTypes[i])
  \/ \E i \in DOMAIN validators : req[t] \in Refuses[validators[i]]

Sound(t, k) == \A i \in 1 .. k : CarriesSound(config, req[t], extTypes[i])
Passed(t, k) == \A i \in 1 .. k : req[t] \notin Refuses[validators[i]]

\* While a call runs, the allowlist it looks through and the one in force hold at
\* most what was ever listed, and at least what always was.
Edited(t) == InProgress(t) =>
  /\ Listed \cup Pending("add") \subseteq since[t].ever
  /\ since[t].always \subseteq Listed \ Pending("discard")
  /\ pc[t] = "allowlist" => /\ content[found[t]] \subseteq since[t].ever
                            /\ since[t].always \subseteq content[found[t]]

\* What the checks a call has behind it have established.
Checked(t) ==
  /\ pc[t] # "returned" => verdict[t] = "none"
  /\ pc[t] # "idle" => since[t].time <= clock
  /\ pc[t] \in {"domain", "allowlist", "possession"} =>
       now[t] \in since[t].time .. clock /\ AccountOf(config, req[t]) # {}
  /\ pc[t] \in {"allowlist", "possession"} =>
       \A a \in AccountOf(config, req[t]) : InDomain(config, a, now[t])
  /\ pc[t] = "possession" => Admitted(t)
  /\ ReachedHooks(t) => Entitled(t) /\ Spent(t) /\ Admitted(t)
  /\ pc[t] = "returned" /\ verdict[t] # "ok" => Justified(t)

\* How far a call has come in the live lists of hooks.
Hooked(t) ==
  /\ pc[t] # "idle" => since[t].extTypes <= Len(extTypes) /\ since[t].validators <= Len(validators)
  /\ pc[t] = "extensions" => at[t] <= Len(extTypes) /\ Sound(t, at[t])
  /\ pc[t] = "hooks" =>
       /\ at[t] <= Len(validators) /\ Passed(t, at[t])
       /\ Sound(t, since[t].extTypes)
  /\ verdict[t] = "ok" => Sound(t, since[t].extTypes) /\ Passed(t, since[t].validators)

Recording == \A e \in seen : e.nonce \in spent

VInv == TypeOK /\ Recording /\ \A t \in Threads : Edited(t) /\ Checked(t) /\ Hooked(t)

Grows(s, s2) == Len(s) <= Len(s2) /\ \A i \in 1 .. Len(s) : s2[i] = s[i]

LEMMA GrowsFacts ==
  /\ \A S : \A s \in Seq(S) : Grows(s, s)
  /\ \A S : \A s \in Seq(S) : \A e \in S : Append(s, e) \in Seq(S) /\ Grows(s, Append(s, e))
BY DEF Grows

LEMMA AccountFacts ==
  ASSUME NEW c \in Configs, NEW r \in Requests
  PROVE  AccountOf(c, r) \subseteq Presented(c, r) /\ AtMostOne(AccountOf(c, r))
BY OneAccount DEF AccountOf, AtMostOne

(* A step that leaves a call alone, while the clock, the lists of hooks and  *)
(* the spent nonces grow, and the call's history at most witnesses edits.    *)
LEMMA OthersKeep ==
  ASSUME TypeOK, TypeOK', NEW d \in Threads, Checked(d), Hooked(d),
         config' = config, clock <= clock', spent \subseteq spent',
         Grows(extTypes, extTypes'), Grows(validators, validators'),
         pc'[d] = pc[d], req'[d] = req[d], now'[d] = now[d], at'[d] = at[d],
         verdict'[d] = verdict[d],
         since'[d].time = since[d].time, since'[d].extTypes = since[d].extTypes,
         since'[d].validators = since[d].validators,
         since[d].ever \subseteq since'[d].ever, since'[d].always \subseteq since[d].always
  PROVE  Checked(d)' /\ Hooked(d)'
<1>0. /\ clock \in Nat /\ clock' \in Nat /\ since[d].time \in Nat
      /\ Len(extTypes) \in Nat /\ Len(extTypes') \in Nat
      /\ Len(validators) \in Nat /\ Len(validators') \in Nat
      /\ at[d] \in Nat /\ since[d].extTypes \in Nat /\ since[d].validators \in Nat
      /\ DOMAIN extTypes = 1 .. Len(extTypes) /\ DOMAIN validators = 1 .. Len(validators)
      /\ DOMAIN extTypes' = 1 .. Len(extTypes') /\ DOMAIN validators' = 1 .. Len(validators')
  BY LenProperties DEF TypeOK, History
<1>1. Admitted(d) => Admitted(d)'
  BY DEF Admitted
<1>a. since[d].time .. clock \subseteq since'[d].time .. clock'
  BY <1>0
<1>2. Entitled(d) => Entitled(d)'
  <2> SUFFICES ASSUME NEW n \in since[d].time .. clock, NEW k \in Domains(config),
                      StandsIn(config, req[d], n) = {k}
               PROVE  Entitled(d)'
    BY DEF Entitled
  <2>1. n \in since'[d].time .. clock' /\ k \in Domains(config') /\ StandsIn(config', req'[d], n) = {k}
    BY <1>a
  <2> QED BY <2>1 DEF Entitled
<1>3. Justified(d) => Justified(d)'
  <2>1. ASSUME NEW n \in since[d].time .. clock, StandsIn(config, req[d], n) = {}
        PROVE  Justified(d)'
    <3>1. n \in since'[d].time .. clock' /\ StandsIn(config', req'[d], n) = {}
      BY <1>a, <2>1
    <3> QED BY <3>1 DEF Justified
  <2>2. ASSUME NEW a \in Presented(config, req[d]), a.id \notin since[d].always
        PROVE  Justified(d)'
    <3>1. a \in Presented(config', req'[d]) /\ a.id \notin since'[d].always
      BY <2>2
    <3> QED BY <3>1 DEF Justified
  <2>3. ASSUME Guarded(req[d]), req[d].nonce = {} \/ req[d].nonce \cap spent # {}
        PROVE  Justified(d)'
    <3>1. Guarded(req[d])'
      BY <2>3 DEF Guarded
    <3>2. req'[d].nonce = {} \/ req'[d].nonce \cap spent' # {}
      BY <2>3
    <3> QED BY <3>1, <3>2 DEF Justified
  <2>4. ASSUME NEW i \in DOMAIN extTypes, ~CarriesSound(config, req[d], extTypes[i])
        PROVE  Justified(d)'
    <3>1. i \in DOMAIN extTypes' /\ ~CarriesSound(config', req'[d], extTypes'[i])
      BY <1>0, <2>4 DEF Grows
    <3> QED BY <3>1 DEF Justified
  <2>5. ASSUME NEW i \in DOMAIN validators, req[d] \in Refuses[validators[i]]
        PROVE  Justified(d)'
    <3>1. i \in DOMAIN validators' /\ req'[d] \in Refuses[validators'[i]]
      BY <1>0, <2>5 DEF Grows
    <3> QED BY <3>1 DEF Justified
  <2> QED BY <2>1, <2>2, <2>3, <2>4, <2>5 DEF Justified
<1>b. Spent(d) => Spent(d)'
  BY DEF Spent, Guarded
<1>4. ReachedHooks(d)' <=> ReachedHooks(d)
  BY DEF ReachedHooks
<1>5. \A k \in 0 .. Len(extTypes) : Sound(d, k) => Sound(d, k)'
  BY <1>0 DEF Sound, Grows
<1>6. \A k \in 0 .. Len(validators) : Passed(d, k) => Passed(d, k)'
  BY <1>0 DEF Passed, Grows
<1>7. Checked(d)'
  BY <1>0, <1>1, <1>b, <1>2, <1>3, <1>4 DEF Checked
<1>8. Hooked(d)'
  <2>1. verdict[d] = "ok" => pc[d] = "returned"
    BY DEF Checked
  <2> QED BY <1>0, <1>5, <1>6, <2>1 DEF Hooked, Grows
<1> QED BY <1>7, <1>8

LEMMA EditedKeeps ==
  ASSUME NEW d \in Threads, Edited(d), UNCHANGED allowlist,
         pc'[d] = pc[d], found'[d] = found[d], since'[d] = since[d]
  PROVE  Edited(d)'
BY DEF Edited, InProgress, Listed, Pending, allowlist

LEMMA VInit == Init => VInv
<1> SUFFICES ASSUME Init PROVE VInv
  OBVIOUS
<1>1. AnySet \in Sets /\ AnyRequest \in Requests
  BY DEF AnySet, AnyRequest
<1>2. TypeOK
  BY <1>1, EmptySeq DEF Init, TypeOK, AllowlistInit, AllowlistTypeOK, Labels, Verdicts, NoHistory, History
<1>3. \A t \in Threads : Edited(t) /\ Checked(t) /\ Hooked(t)
  BY DEF Init, Edited, InProgress, Checked, Hooked, ReachedHooks
<1> QED BY <1>2, <1>3 DEF Init, VInv, Recording

-----------------------------------------------------------------------------
(* What happens around the calls keeps it. *)

LEMMA TickKeeps == ASSUME VInv, Tick PROVE VInv'
<1> USE DEF VInv
<1>1. TypeOK'
  BY DEF Tick, shared, others, allowlist, calls, TypeOK, AllowlistTypeOK
<1>2. Grows(extTypes, extTypes) /\ Grows(validators, validators)
  BY GrowsFacts DEF TypeOK
<1>3. ASSUME NEW d \in Threads PROVE Edited(d)' /\ Checked(d)' /\ Hooked(d)'
  <2>1. Edited(d)'
    BY EditedKeeps DEF Tick, shared, calls
  <2>2. clock <= clock'
    BY DEF Tick, TypeOK
  <2> QED BY <1>1, <1>2, <2>1, <2>2, OthersKeep DEF Tick, shared, others, calls
<1> QED BY <1>1, <1>3 DEF Tick, shared, others, Recording

LEMMA RegistrationKeeps ==
  ASSUME VInv, (\E e \in ExtTypes : RequireExtension(e)) \/ (\E v \in Validators : RegisterValidator(v))
  PROVE  VInv'
<1> USE DEF VInv
<1>1. /\ extTypes' \in Seq(ExtTypes) /\ validators' \in Seq(Validators)
      /\ Grows(extTypes, extTypes') /\ Grows(validators, validators')
      /\ UNCHANGED <<clock, config, allowlist, seen, calls, spent>>
  <2>1. /\ extTypes \in Seq(ExtTypes) /\ validators \in Seq(Validators)
        /\ Grows(extTypes, extTypes) /\ Grows(validators, validators)
    BY GrowsFacts DEF TypeOK
  <2>2. ASSUME NEW e \in ExtTypes, RequireExtension(e)
        PROVE  extTypes' \in Seq(ExtTypes) /\ Grows(extTypes, extTypes')
    BY <2>1, <2>2, GrowsFacts DEF RequireExtension
  <2>3. ASSUME NEW v \in Validators, RegisterValidator(v)
        PROVE  validators' \in Seq(Validators) /\ Grows(validators, validators')
    BY <2>1, <2>3, GrowsFacts DEF RegisterValidator
  <2>4. ASSUME NEW e \in ExtTypes, RequireExtension(e)
        PROVE  UNCHANGED <<clock, config, allowlist, seen, calls, spent, validators>>
    BY <2>4 DEF RequireExtension
  <2>5. ASSUME NEW v \in Validators, RegisterValidator(v)
        PROVE  UNCHANGED <<clock, config, allowlist, seen, calls, spent, extTypes>>
    BY <2>5 DEF RegisterValidator
  <2> QED BY <2>1, <2>2, <2>3, <2>4, <2>5
<1>2. TypeOK'
  BY <1>1 DEF allowlist, calls, TypeOK, AllowlistTypeOK
<1>3. ASSUME NEW d \in Threads PROVE Edited(d)' /\ Checked(d)' /\ Hooked(d)'
  <2>1. Edited(d)'
    BY <1>1, EditedKeeps DEF calls
  <2>2. clock <= clock'
    BY <1>1 DEF TypeOK
  <2> QED BY <1>1, <1>2, <2>1, <2>2, OthersKeep DEF calls
<1> QED BY <1>1, <1>2, <1>3 DEF Recording

(* The allowlist is edited and the calls in progress witness it.             *)
LEMMA EditKeeps ==
  ASSUME VInv, AllowlistTypeOK', UNCHANGED UnderEdits, since' \in [Threads -> History],
         \A d \in Threads :
           /\ since'[d].time = since[d].time /\ since'[d].extTypes = since[d].extTypes
           /\ since'[d].validators = since[d].validators
           /\ since[d].ever \subseteq since'[d].ever /\ since'[d].always \subseteq since[d].always
           /\ Edited(d)'
  PROVE  VInv'
<1> USE DEF VInv, UnderEdits, others
<1>1. TypeOK'
  BY DEF TypeOK
<1>2. Grows(extTypes, extTypes) /\ Grows(validators, validators) /\ clock <= clock
  BY GrowsFacts DEF TypeOK
<1>3. ASSUME NEW d \in Threads PROVE Checked(d)' /\ Hooked(d)'
  BY <1>1, <1>2, OthersKeep
<1> QED BY <1>1, <1>3 DEF Recording

LEMMA WitnessFacts ==
  ASSUME TypeOK, NEW added \in SUBSET Ids, NEW kept \in SUBSET Ids, Witness(added, kept)
  PROVE  /\ since' \in [Threads -> History]
         /\ \A d \in Threads :
              /\ since'[d].time = since[d].time /\ since'[d].extTypes = since[d].extTypes
              /\ since'[d].validators = since[d].validators
              /\ since[d].ever \subseteq since'[d].ever
              /\ since'[d].always \subseteq since[d].always
              /\ InProgress(d) => added \subseteq since'[d].ever /\ since'[d].always \subseteq kept
<1> DEFINE seenBy(h) == [h EXCEPT !.ever = @ \cup added, !.always = @ \cap kept]
<1>1. ASSUME NEW h \in History
      PROVE  /\ seenBy(h) \in History
             /\ seenBy(h).time = h.time /\ seenBy(h).extTypes = h.extTypes
             /\ seenBy(h).validators = h.validators
             /\ seenBy(h).ever = h.ever \cup added /\ seenBy(h).always = h.always \cap kept
  BY DEF History
<1>2. since' = [t \in Threads |-> IF InProgress(t) THEN seenBy(since[t]) ELSE since[t]]
  BY DEF Witness
<1>3. \A d \in Threads : since[d] \in History
  BY DEF TypeOK
<1> HIDE DEF seenBy
<1> QED BY <1>1, <1>2, <1>3

LEMMA AddKeeps ==
  ASSUME VInv, NEW a \in Admins, NEW id \in Ids, Add(a, id)
  PROVE  VInv'
<1> USE DEF VInv
<1> DEFINE added == {id}
           kept == Ids
<1>w. TypeOK /\ added \in SUBSET Ids /\ kept \in SUBSET Ids /\ Witness(added, kept)
  BY DEF Add
<1> HIDE DEF added, kept
<1>v. \A d \in Threads : InProgress(d) =>
        /\ since[d].ever \cup added \subseteq since'[d].ever
        /\ since'[d].always \subseteq since[d].always \cap kept
  BY <1>w, WitnessFacts
<1>1. AllowlistTypeOK'
  BY DEF Add, Load, TypeOK, AllowlistTypeOK, Edit
<1>2. /\ Listed' = Listed /\ Pending("add")' = Pending("add") \cup {id}
      /\ Pending("discard")' = Pending("discard") /\ content' = content
  <2> DEFINE f == [op |-> "add", id |-> id, set |-> current]
             under == UNION {edit[b] : b \in Admins}
  <2>1. /\ edit[a] = {} /\ edit' = [edit EXCEPT ![a] = {f}]
        /\ current' = current /\ content' = content /\ edit \in [Admins -> SUBSET Edit]
    BY DEF Add, Load, TypeOK, AllowlistTypeOK
  <2>2. under' = under \cup {f}
    BY <2>1
  <2>3. f.op = "add" /\ f.id = id
    OBVIOUS
  <2>4. \A op : Pending(op) = {e.id : e \in {g \in under : g.op = op}}
    BY DEF Pending
  <2>5. \A op : Pending(op)' = {e.id : e \in {g \in under' : g.op = op}}
    BY DEF Pending
  <2> HIDE DEF under, f
  <2> QED BY <2>1, <2>2, <2>3, <2>4, <2>5 DEF Listed
<1>3. ASSUME NEW d \in Threads PROVE Edited(d)'
  <2>1. InProgress(d)' <=> InProgress(d)
    BY DEF Add, UnderEdits, InProgress
  <2>2. InProgress(d) =>
        /\ since[d].ever \cup {id} \subseteq since'[d].ever
        /\ since'[d].always \subseteq since[d].always \cap Ids
    BY <1>v DEF added, kept
  <2> QED BY <1>2, <2>1, <2>2 DEF Add, UnderEdits, Edited
<1> QED BY <1>w, <1>1, <1>3, WitnessFacts, EditKeeps DEF Add

LEMMA DiscardKeeps ==
  ASSUME VInv, NEW a \in Admins, NEW id \in Ids, Discard(a, id)
  PROVE  VInv'
<1> USE DEF VInv
<1> DEFINE added == {}
           kept == Ids \ {id}
<1>w. TypeOK /\ added \in SUBSET Ids /\ kept \in SUBSET Ids /\ Witness(added, kept)
  BY DEF Discard
<1> HIDE DEF added, kept
<1>v. \A d \in Threads : InProgress(d) =>
        /\ since[d].ever \cup added \subseteq since'[d].ever
        /\ since'[d].always \subseteq since[d].always \cap kept
  BY <1>w, WitnessFacts
<1>1. AllowlistTypeOK'
  BY DEF Discard, Load, TypeOK, AllowlistTypeOK, Edit
<1>2. /\ Listed' = Listed /\ Pending("discard")' = Pending("discard") \cup {id}
      /\ Pending("add")' = Pending("add") /\ content' = content
  <2> DEFINE f == [op |-> "discard", id |-> id, set |-> current]
             under == UNION {edit[b] : b \in Admins}
  <2>1. /\ edit[a] = {} /\ edit' = [edit EXCEPT ![a] = {f}]
        /\ current' = current /\ content' = content /\ edit \in [Admins -> SUBSET Edit]
    BY DEF Discard, Load, TypeOK, AllowlistTypeOK
  <2>2. under' = under \cup {f}
    BY <2>1
  <2>3. f.op = "discard" /\ f.id = id
    OBVIOUS
  <2>4. \A op : Pending(op) = {e.id : e \in {g \in under : g.op = op}}
    BY DEF Pending
  <2>5. \A op : Pending(op)' = {e.id : e \in {g \in under' : g.op = op}}
    BY DEF Pending
  <2> HIDE DEF under, f
  <2> QED BY <2>1, <2>2, <2>3, <2>4, <2>5 DEF Listed
<1>3. ASSUME NEW d \in Threads PROVE Edited(d)'
  <2>1. InProgress(d)' <=> InProgress(d)
    BY DEF Discard, UnderEdits, InProgress
  <2>2. InProgress(d) =>
        /\ since[d].ever \cup {} \subseteq since'[d].ever
        /\ since'[d].always \subseteq since[d].always \cap (Ids \ {id})
    BY <1>v DEF added, kept
  <2> QED BY <1>2, <2>1, <2>2 DEF Discard, UnderEdits, Edited
<1> QED BY <1>w, <1>1, <1>3, WitnessFacts, EditKeeps DEF Discard

(* The end of an edit changes whatever set the edit has loaded.              *)
LEMMA FinishEditKeeps ==
  ASSUME VInv, NEW a \in Admins, FinishEdit(a)
  PROVE  VInv'
<1> USE DEF VInv
<1>1. PICK e \in edit[a] :
        /\ content' = [content EXCEPT ![e.set] =
                         IF e.op = "add" THEN @ \cup {e.id} ELSE @ \ {e.id}]
        /\ edit' = [edit EXCEPT ![a] = {}] /\ current' = current
        /\ since' = since
  BY DEF FinishEdit, Change
<1>2. e \in Edit /\ e.id \in Ids /\ e.set \in Sets /\ e.op \in {"add", "discard"} /\ current \in Sets
  BY DEF TypeOK, AllowlistTypeOK, Edit
<1>3. AllowlistTypeOK'
  BY <1>1, <1>2 DEF TypeOK, AllowlistTypeOK
<1>4. /\ e.id \in Pending(e.op)
      /\ \A op \in {"add", "discard"} : Pending(op)' \subseteq Pending(op)
  BY <1>1 DEF Pending, TypeOK, AllowlistTypeOK
<1>5. \A s \in Sets : /\ e.op = "add" => /\ content[s] \subseteq content'[s]
                                        /\ content'[s] \subseteq content[s] \cup Pending("add")
                      /\ e.op = "discard" => /\ content'[s] \subseteq content[s]
                                             /\ content[s] \ Pending("discard") \subseteq content'[s]
  BY <1>1, <1>2, <1>4 DEF TypeOK, AllowlistTypeOK
<1>6. ASSUME NEW d \in Threads PROVE Edited(d)'
  <2>1. InProgress(d)' <=> InProgress(d)
    BY DEF FinishEdit, UnderEdits, InProgress
  <2>2. found'[d] = found[d] /\ found[d] \in Sets /\ pc'[d] = pc[d]
    BY DEF FinishEdit, UnderEdits, TypeOK
  <2>3. Listed' = content'[current]
    BY <1>1 DEF Listed
  <2> QED BY <1>1, <1>2, <1>4, <1>5, <2>1, <2>2, <2>3 DEF Edited, Listed
<1>7. since \in [Threads -> History]
  BY DEF TypeOK
<1> QED BY <1>1, <1>3, <1>6, <1>7, EditKeeps DEF FinishEdit

LEMMA ReplaceKeeps ==
  ASSUME VInv, NEW ids \in SUBSET Ids, Replace(ids)
  PROVE  VInv'
<1> USE DEF VInv
<1> DEFINE added == ids
           kept == ids
<1>w. TypeOK /\ added \in SUBSET Ids /\ kept \in SUBSET Ids /\ Witness(added, kept)
  BY DEF Replace
<1> HIDE DEF added, kept
<1>v. \A d \in Threads : InProgress(d) =>
        /\ since[d].ever \cup added \subseteq since'[d].ever
        /\ since'[d].always \subseteq since[d].always \cap kept
  BY <1>w, WitnessFacts
<1> DEFINE inUse == Named \cup LookedThrough
           free == Sets \ ({current} \cup inUse)
<1>1. /\ current' \in free /\ edit' = edit
      /\ content' = [s \in Sets |-> IF s = current' THEN ids
                                    ELSE IF s \in inUse THEN content[s] ELSE {}]
  BY DEF Replace, Swap
<1>2. AllowlistTypeOK'
  BY <1>1 DEF TypeOK, AllowlistTypeOK
<1>3. Listed' = ids /\ \A op : Pending(op)' = Pending(op)
  BY <1>1 DEF Listed, Pending
<1>4. ASSUME NEW d \in Threads PROVE Edited(d)'
  <2>1. /\ InProgress(d)' <=> InProgress(d)
        /\ found'[d] = found[d] /\ found[d] \in Sets /\ pc'[d] = pc[d]
    BY DEF Replace, UnderEdits, InProgress, TypeOK
  <2>2. InProgress(d) =>
        /\ since[d].ever \cup ids \subseteq since'[d].ever
        /\ since'[d].always \subseteq since[d].always \cap ids
    BY <1>v DEF added, kept
  <2>3. pc[d] = "allowlist" => content'[found[d]] = content[found[d]]
    <3> SUFFICES ASSUME pc[d] = "allowlist" PROVE content'[found[d]] = content[found[d]]
      OBVIOUS
    <3>1. found[d] \in inUse
      BY DEF LookedThrough
    <3> HIDE DEF inUse
    <3> QED BY <1>1, <2>1, <3>1
  <2> QED BY <1>3, <2>1, <2>2, <2>3 DEF Edited
<1> QED BY <1>w, <1>2, <1>4, WitnessFacts, EditKeeps DEF Replace

-----------------------------------------------------------------------------
(* The steps of a call keep it. *)

LEMMA StepKeeps ==
  ASSUME VInv, TypeOK', Recording', NEW t \in Threads,
         UNCHANGED <<clock, config, allowlist, extTypes, validators>>, spent \subseteq spent',
         \A d \in Threads \ {t} :
           /\ pc'[d] = pc[d] /\ req'[d] = req[d] /\ now'[d] = now[d] /\ found'[d] = found[d]
           /\ at'[d] = at[d] /\ verdict'[d] = verdict[d] /\ since'[d] = since[d],
         Edited(t)', Checked(t)', Hooked(t)'
  PROVE  VInv'
<1> USE DEF VInv
<1>1. Grows(extTypes, extTypes) /\ Grows(validators, validators) /\ clock <= clock
  BY GrowsFacts DEF TypeOK
<1>2. ASSUME NEW d \in Threads PROVE Edited(d)' /\ Checked(d)' /\ Hooked(d)'
  <2>1. CASE d = t
    BY <2>1
  <2>2. CASE d # t
    BY <1>1, <2>2, EditedKeeps, OthersKeep
  <2> QED BY <2>1, <2>2
<1> QED BY <1>2

LEMMA ReturnKeeps ==
  ASSUME VInv, NEW t \in Threads, InProgress(t), NEW v \in Verdicts \ {"none"}, Return(t, v),
         UNCHANGED <<clock, config, allowlist, extTypes, validators, spent>>,
         seen' \subseteq seen,
         v # "ok" => Justified(t),
         v \in {"EXTENSION", "VALIDATOR", "ok"} => ReachedHooks(t),
         v = "ok" => Sound(t, since[t].extTypes) /\ Passed(t, since[t].validators)
  PROVE  VInv'
<1> USE DEF VInv
<1>1. TypeOK'
  BY DEF TypeOK, Return, Labels, allowlist, AllowlistTypeOK
<1>2. Recording'
  BY DEF Recording
<1>3. pc'[t] = "returned" /\ verdict'[t] = v /\ UNCHANGED <<req, now, found, at, since>>
  BY DEF Return, TypeOK
<1>4. Edited(t)'
  BY <1>3 DEF Edited, InProgress
<1>5. Checked(t)'
  <2>1. Entitled(t)' <=> Entitled(t)
    BY <1>3 DEF Entitled
  <2>2. Admitted(t)' <=> Admitted(t)
    BY <1>3 DEF Admitted
  <2>3. Justified(t)' <=> Justified(t)
    BY <1>3 DEF Justified, Guarded
  <2>4. ReachedHooks(t)' => ReachedHooks(t)
    BY <1>3 DEF ReachedHooks
  <2>5. Spent(t)' <=> Spent(t)
    BY <1>3 DEF Spent, Guarded
  <2> QED BY <1>3, <2>1, <2>2, <2>3, <2>4, <2>5 DEF Checked, InProgress
<1>6. Hooked(t)'
  BY <1>3 DEF Hooked, InProgress, Sound, Passed
<1>7. \A d \in Threads \ {t} : pc'[d] = pc[d] /\ verdict'[d] = verdict[d]
  BY DEF Return, TypeOK
<1> QED BY <1>1, <1>2, <1>3, <1>4, <1>5, <1>6, <1>7, StepKeeps

LEMMA ReceiveKeeps ==
  ASSUME VInv, NEW t \in Threads, NEW r \in Requests, Receive(t, r)
  PROVE  VInv'
<1> USE DEF VInv
<1> DEFINE h == [time |-> clock, ever |-> Listed \cup Pending("add"),
                 always |-> Listed \ Pending("discard"),
                 extTypes |-> Len(extTypes), validators |-> Len(validators)]
<1>1. h \in History
  BY LenProperties DEF TypeOK, AllowlistTypeOK, History, Listed, Pending, Edit
<1>2. /\ pc' = [pc EXCEPT ![t] = "anchor"] /\ req' = [req EXCEPT ![t] = r]
      /\ since' = [since EXCEPT ![t] = h] /\ pc[t] = "idle"
      /\ UNCHANGED <<clock, shared, now, found, at, verdict, spent>>
  BY DEF Receive, Goto
<1>3. /\ h.time = clock /\ h.ever = Listed \cup Pending("add")
      /\ h.always = Listed \ Pending("discard")
      /\ h.extTypes = Len(extTypes) /\ h.validators = Len(validators)
  OBVIOUS
<1> HIDE DEF h
<1>4. TypeOK'
  BY <1>1, <1>2 DEF TypeOK, Labels, shared, others, allowlist, AllowlistTypeOK
<1>5. pc'[t] = "anchor" /\ since'[t] = h /\ verdict'[t] = "none"
  BY <1>2 DEF TypeOK, Checked
<1>6. Edited(t)'
  BY <1>2, <1>3, <1>5 DEF Edited, shared, allowlist, Listed, Pending
<1>7. Checked(t)'
  BY <1>2, <1>3, <1>5 DEF Checked, ReachedHooks, TypeOK
<1>8. Hooked(t)'
  BY <1>2, <1>3, <1>5, LenProperties DEF Hooked, TypeOK, shared, others
<1>9. \A d \in Threads \ {t} : pc'[d] = pc[d] /\ req'[d] = req[d] /\ since'[d] = since[d]
  BY <1>2 DEF TypeOK
<1> QED BY <1>2, <1>4, <1>6, <1>7, <1>8, <1>9, StepKeeps DEF shared, others, Recording

LEMMA ReplyKeeps ==
  ASSUME VInv, NEW t \in Threads, Reply(t)
  PROVE  VInv'
<1> USE DEF VInv
<1>1. AnySet \in Sets /\ AnyRequest \in Requests /\ NoHistory \in History
  BY DEF AnySet, AnyRequest, NoHistory, History
<1>2. TypeOK'
  BY <1>1 DEF Reply, Goto, TypeOK, Labels, Verdicts, shared, others, allowlist, AllowlistTypeOK
<1>3. pc'[t] = "idle" /\ verdict'[t] = "none"
  BY DEF Reply, Goto, TypeOK
<1>4. Edited(t)' /\ Checked(t)' /\ Hooked(t)'
  BY <1>3 DEF Edited, InProgress, Checked, ReachedHooks, Hooked
<1>5. \A d \in Threads \ {t} :
        /\ pc'[d] = pc[d] /\ req'[d] = req[d] /\ now'[d] = now[d] /\ found'[d] = found[d]
        /\ at'[d] = at[d] /\ verdict'[d] = verdict[d] /\ since'[d] = since[d]
  BY DEF Reply, Goto, TypeOK
<1> QED BY <1>2, <1>4, <1>5, StepKeeps DEF Reply, shared, others, Recording

LEMMA AnchorKeeps ==
  ASSUME VInv, NEW t \in Threads, Anchor(t)
  PROVE  VInv'
<1> USE DEF VInv
<1>1. TypeOK'
  BY DEF Anchor, Goto, TypeOK, Labels, shared, others, allowlist, AllowlistTypeOK
<1>2. /\ pc[t] = "anchor" /\ pc'[t] = "domain" /\ now'[t] = clock
      /\ UNCHANGED <<clock, shared, req, found, at, verdict, since, spent>>
      /\ AccountOf(config, req[t]) # {}
  BY DEF Anchor, Goto, TypeOK
<1>3. Edited(t)'
  BY <1>2 DEF Edited, InProgress, shared, allowlist, Listed, Pending
<1>4. Checked(t)'
  BY <1>2 DEF Checked, ReachedHooks, shared, others, TypeOK, History
<1>5. Hooked(t)'
  BY <1>2 DEF Hooked, Checked, shared, others
<1>6. \A d \in Threads \ {t} : pc'[d] = pc[d] /\ now'[d] = now[d]
  BY DEF Anchor, Goto, TypeOK
<1> QED BY <1>1, <1>2, <1>3, <1>4, <1>5, <1>6, StepKeeps DEF shared, others, Recording

LEMMA PassDomainKeeps ==
  ASSUME VInv, NEW t \in Threads, PassDomain(t)
  PROVE  VInv'
<1> USE DEF VInv
<1>1. TypeOK'
  BY DEF PassDomain, Goto, TypeOK, Labels, shared, others, allowlist, AllowlistTypeOK
<1>2. /\ pc[t] = "domain" /\ pc'[t] = "allowlist" /\ found'[t] = current
      /\ UNCHANGED <<clock, shared, req, now, at, verdict, since, spent>>
      /\ \E a \in AccountOf(config, req[t]) : InDomain(config, a, now[t])
  BY DEF PassDomain, Goto, TypeOK
<1>3. Edited(t)'
  BY <1>2 DEF Edited, InProgress, shared, allowlist, Listed, Pending
<1>4. \A a \in AccountOf(config, req[t]) : InDomain(config, a, now[t])
  BY <1>2, AccountFacts DEF TypeOK, AtMostOne
<1>5. Checked(t)'
  BY <1>2, <1>4 DEF Checked, ReachedHooks, shared, others
<1>6. Hooked(t)'
  BY <1>2 DEF Hooked, Checked, shared, others
<1>7. \A d \in Threads \ {t} : pc'[d] = pc[d] /\ found'[d] = found[d]
  BY DEF PassDomain, Goto, TypeOK
<1> QED BY <1>1, <1>2, <1>3, <1>5, <1>6, <1>7, StepKeeps DEF shared, others, Recording

LEMMA PassAllowlistKeeps ==
  ASSUME VInv, NEW t \in Threads, PassAllowlist(t)
  PROVE  VInv'
<1> USE DEF VInv
<1>0. AnySet \in Sets
  BY DEF AnySet
<1>1. TypeOK'
  BY <1>0 DEF PassAllowlist, Goto, TypeOK, Labels, shared, others, allowlist, AllowlistTypeOK
<1>2. /\ pc[t] = "allowlist" /\ pc'[t] = "possession"
      /\ UNCHANGED <<clock, shared, req, now, at, verdict, since, spent>>
      /\ \A a \in AccountOf(config, req[t]) : a.id \in content[found[t]]
  BY DEF PassAllowlist, InAllowlist, Goto, TypeOK
<1>3. Edited(t)'
  BY <1>2 DEF Edited, InProgress, shared, allowlist, Listed, Pending
<1>4. Admitted(t)
  <2>1. PICK a \in AccountOf(config, req[t]) : a.id \in content[found[t]]
    BY <1>2 DEF Checked
  <2>2. a \in Presented(config, req[t])
    BY <2>1, AccountFacts DEF TypeOK
  <2>3. content[found[t]] \subseteq since[t].ever
    BY <1>2 DEF Edited, InProgress
  <2> QED BY <2>1, <2>2, <2>3 DEF Admitted
<1>5. Admitted(t)'
  BY <1>2, <1>4 DEF Admitted, shared, others
<1>6. Checked(t)'
  BY <1>2, <1>5 DEF Checked, ReachedHooks, shared, others
<1>7. Hooked(t)'
  BY <1>2 DEF Hooked, Checked, shared, others
<1>8. \A d \in Threads \ {t} : pc'[d] = pc[d] /\ found'[d] = found[d]
  BY DEF PassAllowlist, Goto, TypeOK
<1> QED BY <1>1, <1>2, <1>3, <1>6, <1>7, <1>8, StepKeeps DEF shared, others, Recording

(* At the instant of the call, the whole chain stands in one domain.         *)
LEMMA PossessesIsEntitled ==
  ASSUME VInv, NEW t \in Threads, pc[t] = "possession", Possesses(t)
  PROVE  Entitled(t)
<1>1. Stands(config, req[t], now[t])
  BY DEF Possesses, Stands, VInv, Checked
<1>2. PICK d \in Domains(config) : StandsIn(config, req[t], now[t]) = {d}
  BY <1>1, StandsInOne DEF VInv, TypeOK
<1>3. now[t] \in since[t].time .. clock
  BY DEF VInv, Checked
<1> QED BY <1>2, <1>3 DEF Entitled

LEMMA PossessKeeps ==
  ASSUME VInv, NEW t \in Threads, Possess(t)
  PROVE  VInv'
<1> USE DEF VInv
<1>1. /\ pc[t] = "possession" /\ pc'[t] = "extensions" /\ at'[t] = 0
      /\ UNCHANGED <<clock, config, allowlist, extTypes, validators, req, now, found, verdict, since>>
  BY DEF Possess, Goto, TypeOK
<1>2. /\ seen' \in SUBSET [nonce : Nonces, expiry : Nat] /\ spent' \in SUBSET Nonces
      /\ spent \subseteq spent' /\ Recording'
  <2>1. CASE UNCHANGED <<seen, spent>>
    BY <2>1 DEF TypeOK, Recording
  <2>2. CASE /\ seen' = Unexpired \cup [nonce : req[t].nonce, expiry : {now[t] + 2 * Skew}]
             /\ spent' = spent \cup req[t].nonce
    <3>1. req[t].nonce \in SUBSET Nonces /\ now[t] + 2 * Skew \in Nat
      BY DEF TypeOK, Request
    <3>2. Unexpired \subseteq seen
      BY DEF Unexpired
    <3> QED BY <2>2, <3>1, <3>2 DEF TypeOK, Recording
  <2> QED BY <2>1, <2>2 DEF Possess
<1>3. TypeOK'
  BY <1>2 DEF Possess, Goto, TypeOK, Labels, allowlist, AllowlistTypeOK
<1>4. Edited(t)'
  BY <1>1 DEF Edited, InProgress, allowlist, Listed, Pending
<1>5. Entitled(t) /\ Admitted(t)
  BY <1>1, PossessesIsEntitled DEF Possess, Checked
<1>6. Entitled(t)' /\ Admitted(t)'
  BY <1>1, <1>5 DEF Entitled, Admitted
<1>a. Spent(t)'
  BY <1>1 DEF Possess, Spent, Guarded
<1>7. Checked(t)'
  BY <1>1, <1>6, <1>a DEF Checked
<1>8. Hooked(t)'
  <2>1. Len(extTypes) \in Nat /\ verdict[t] = "none"
    BY <1>1, LenProperties DEF Checked, TypeOK
  <2>2. Sound(t, at[t])'
    BY <1>1 DEF Sound
  <2> QED BY <1>1, <2>1, <2>2 DEF Hooked
<1>9. \A d \in Threads \ {t} : pc'[d] = pc[d] /\ at'[d] = at[d]
  BY DEF Possess, Goto, TypeOK
<1> QED BY <1>1, <1>2, <1>3, <1>4, <1>7, <1>8, <1>9, StepKeeps

(* One more entry of a hook list is behind the call.                         *)
LEMMA HookStepKeeps ==
  ASSUME VInv, NEW t \in Threads,
         \/ CheckExtension(t) \/ ExtensionsDone(t) \/ RunValidator(t)
  PROVE  VInv'
<1> USE DEF VInv
<1>1. /\ UNCHANGED <<clock, shared, req, now, found, verdict, since, spent>>
      /\ \A d \in Threads \ {t} : pc'[d] = pc[d] /\ at'[d] = at[d]
      /\ pc[t] \in {"extensions", "hooks"} /\ pc'[t] \in {"extensions", "hooks"}
      /\ at'[t] \in Nat
      /\ pc' \in [Threads -> Labels] /\ at' \in [Threads -> Nat]
  <2>0. pc \in [Threads -> Labels] /\ at \in [Threads -> Nat]
    BY DEF TypeOK
  <2>1. CASE CheckExtension(t)
    BY <2>0, <2>1 DEF CheckExtension
  <2>2. CASE ExtensionsDone(t)
    BY <2>0, <2>2 DEF ExtensionsDone, Goto, Labels
  <2>3. CASE RunValidator(t)
    BY <2>0, <2>3 DEF RunValidator
  <2> QED BY <2>1, <2>2, <2>3
<1>2. TypeOK'
  BY <1>1 DEF TypeOK, shared, others, allowlist, AllowlistTypeOK
<1>3. Edited(t)'
  BY <1>1 DEF Edited, InProgress, shared, allowlist, Listed, Pending
<1>4. Entitled(t)' /\ Admitted(t)'
  BY <1>1 DEF Checked, ReachedHooks, Entitled, Admitted, shared, others
<1>a. Spent(t)'
  BY <1>1 DEF Checked, ReachedHooks, Spent, Guarded, shared, others
<1>5. Checked(t)'
  BY <1>1, <1>4, <1>a DEF Checked, shared, others
<1>6. Hooked(t)'
  <2>0. /\ at[t] \in Nat /\ Len(extTypes) \in Nat /\ Len(validators) \in Nat
        /\ since[t].extTypes \in Nat
    BY LenProperties DEF TypeOK, History
  <2>1. CASE CheckExtension(t)
    <3>1. /\ pc[t] = "extensions" /\ pc'[t] = "extensions" /\ at'[t] = at[t] + 1
          /\ at[t] < Len(extTypes) /\ CarriesSound(config, req[t], extTypes[at[t] + 1])
      BY <2>1 DEF CheckExtension, TypeOK
    <3>2. Sound(t, at[t])
      BY <3>1 DEF Hooked
    <3>3. Sound(t, at[t] + 1)
      BY <2>0, <3>1, <3>2 DEF Sound
    <3> QED BY <1>1, <2>0, <3>1, <3>3 DEF Hooked, Checked, Sound, shared, others
  <2>2. CASE ExtensionsDone(t)
    <3>1. /\ pc[t] = "extensions" /\ pc'[t] = "hooks" /\ at'[t] = 0 /\ at[t] = Len(extTypes)
      BY <2>2 DEF ExtensionsDone, Goto, TypeOK
    <3>2. Sound(t, since[t].extTypes)
      BY <2>0, <3>1 DEF Hooked, Sound
    <3> QED BY <1>1, <2>0, <3>1, <3>2 DEF Hooked, Checked, Sound, Passed, shared, others
  <2>3. CASE RunValidator(t)
    <3>1. /\ pc[t] = "hooks" /\ pc'[t] = "hooks" /\ at'[t] = at[t] + 1
          /\ at[t] < Len(validators) /\ req[t] \notin Refuses[validators[at[t] + 1]]
      BY <2>3 DEF RunValidator, TypeOK
    <3>2. Passed(t, at[t] + 1)
      BY <2>0, <3>1 DEF Hooked, Passed
    <3> QED BY <1>1, <2>0, <3>1, <3>2 DEF Hooked, Checked, Sound, Passed, shared, others
  <2> QED BY <2>1, <2>2, <2>3
<1> QED BY <1>1, <1>2, <1>3, <1>5, <1>6, StepKeeps DEF shared, others, Recording

(* A call is refused for a cause.                                            *)
LEMMA RejectKeeps ==
  ASSUME VInv, NEW t \in Threads,
         \/ RejectUnanchored(t) \/ RejectDomain(t) \/ RejectUnlisted(t) \/ RejectUser(t)
         \/ RejectUnproven(t) \/ RejectNonce(t) \/ RejectReplay(t) \/ RejectExtension(t)
         \/ RejectValidator(t)
  PROVE  VInv'
<1> USE DEF VInv
<1>0. /\ config \in Configs /\ req[t] \in Requests /\ since[t].time \in Nat /\ clock \in Nat
      /\ at[t] \in Nat /\ Len(extTypes) \in Nat /\ Len(validators) \in Nat
      /\ DOMAIN extTypes = 1 .. Len(extTypes) /\ DOMAIN validators = 1 .. Len(validators)
  BY LenProperties DEF TypeOK, History
<1>1. ASSUME NEW n \in since[t].time .. clock, ~Stands(config, req[t], n)
      PROVE  Justified(t)
  BY <1>0, <1>1, StandsInOne DEF Justified
<1>2. ASSUME pc[t] \in {"domain", "allowlist", "possession"}, ~Stands(config, req[t], now[t])
      PROVE  Justified(t)
  BY <1>1, <1>2 DEF Checked
<1>3. \A a, b \in AccountOf(config, req[t]) : a = b
  BY <1>0, AccountFacts DEF AtMostOne
<1>4. CASE RejectUnanchored(t)
  <2>1. ~Stands(config, req[t], clock) /\ clock \in since[t].time .. clock
    BY <1>0, <1>4 DEF RejectUnanchored, Stands, Checked
  <2>2. Justified(t)
    BY <1>1, <2>1
  <2> QED BY <1>4, <2>2, ReturnKeeps DEF RejectUnanchored, InProgress, Verdicts, shared, others
<1>5. CASE RejectDomain(t)
  <2>1. ~Stands(config, req[t], now[t])
    BY <1>3, <1>5 DEF RejectDomain, Stands
  <2>2. Justified(t)
    BY <1>2, <1>5, <2>1 DEF RejectDomain
  <2> QED BY <1>5, <2>2, ReturnKeeps DEF RejectDomain, InProgress, Verdicts, shared, others
<1>6. CASE RejectUnlisted(t)
  <2>1. PICK a \in AccountOf(config, req[t]) : a.id \notin content[found[t]]
    BY <1>6 DEF RejectUnlisted, InAllowlist
  <2>2. a \in Presented(config, req[t]) /\ since[t].always \subseteq content[found[t]]
    BY <1>0, <1>6, AccountFacts DEF RejectUnlisted, Edited, InProgress
  <2>3. Justified(t)
    BY <2>1, <2>2 DEF Justified
  <2> QED BY <1>6, <2>3, ReturnKeeps DEF RejectUnlisted, InProgress, Verdicts, shared, others
<1>7. CASE RejectUser(t)
  <2>1. ~Stands(config, req[t], now[t])
    BY <1>3, <1>7 DEF RejectUser, Stands
  <2>2. Justified(t)
    BY <1>2, <1>7, <2>1 DEF RejectUser
  <2> QED BY <1>7, <2>2, ReturnKeeps DEF RejectUser, InProgress, Verdicts, shared, others
<1>8. CASE RejectUnproven(t)
  <2>1. ~Stands(config, req[t], now[t])
    BY <1>3, <1>8 DEF RejectUnproven, Stands
  <2>2. Justified(t)
    BY <1>2, <1>8, <2>1 DEF RejectUnproven
  <2> QED BY <1>8, <2>2, ReturnKeeps DEF RejectUnproven, InProgress, Verdicts, shared, others
<1>9. CASE RejectNonce(t)
  <2>1. Justified(t)
    BY <1>9 DEF RejectNonce, Justified
  <2> QED BY <1>9, <2>1, ReturnKeeps DEF RejectNonce, InProgress, Verdicts, shared, others
<1>10. CASE RejectReplay(t)
  <2>1. PICK e \in seen : e.nonce \in req[t].nonce
    BY <1>10 DEF RejectReplay, Recorded, Unexpired
  <2>2. req[t].nonce \cap spent # {}
    BY <2>1 DEF Recording
  <2>3. Justified(t)
    BY <1>10, <2>2 DEF RejectReplay, Justified
  <2>4. seen' \subseteq seen
    BY <1>10 DEF RejectReplay, Unexpired
  <2> QED BY <1>10, <2>3, <2>4, ReturnKeeps DEF RejectReplay, InProgress, Verdicts
<1>11. CASE RejectExtension(t)
  <2>1. at[t] + 1 \in DOMAIN extTypes /\ ~CarriesSound(config, req[t], extTypes[at[t] + 1])
    BY <1>0, <1>11 DEF RejectExtension
  <2>2. Justified(t)
    BY <2>1 DEF Justified
  <2> QED BY <1>11, <2>2, ReturnKeeps
          DEF RejectExtension, ReachedHooks, InProgress, Verdicts, shared, others
<1>12. CASE RejectValidator(t)
  <2>1. at[t] + 1 \in DOMAIN validators /\ req[t] \in Refuses[validators[at[t] + 1]]
    BY <1>0, <1>12 DEF RejectValidator
  <2>2. Justified(t)
    BY <2>1 DEF Justified
  <2> QED BY <1>12, <2>2, ReturnKeeps
          DEF RejectValidator, ReachedHooks, InProgress, Verdicts, shared, others
<1> QED BY <1>4, <1>5, <1>6, <1>7, <1>8, <1>9, <1>10, <1>11, <1>12

LEMMA AcceptKeeps ==
  ASSUME VInv, NEW t \in Threads, Accept(t)
  PROVE  VInv'
<1> USE DEF VInv
<1>1. /\ pc[t] = "hooks" /\ at[t] = Len(validators) /\ Return(t, "ok")
      /\ UNCHANGED <<clock, shared, spent>>
  BY DEF Accept
<1>2. Sound(t, since[t].extTypes) /\ Passed(t, Len(validators))
  BY <1>1 DEF Hooked
<1>3. Passed(t, since[t].validators)
  <2>1. /\ Len(validators) \in Nat /\ since[t].validators \in Nat
        /\ since[t].validators <= Len(validators)
    BY <1>1, LenProperties DEF TypeOK, History, Hooked
  <2> QED BY <1>2, <2>1 DEF Passed
<1> QED BY <1>1, <1>2, <1>3, ReturnKeeps DEF ReachedHooks, InProgress, Verdicts, shared, others

LEMMA StutterKeeps ==
  ASSUME VInv, UNCHANGED vars
  PROVE  VInv'
<1> USE DEF VInv, vars, shared, others, calls
<1>1. TypeOK'
  BY DEF TypeOK, allowlist, AllowlistTypeOK
<1>2. Grows(extTypes, extTypes) /\ Grows(validators, validators) /\ clock <= clock
  BY GrowsFacts DEF TypeOK
<1>3. ASSUME NEW d \in Threads PROVE Edited(d)' /\ Checked(d)' /\ Hooked(d)'
  BY <1>1, <1>2, EditedKeeps, OthersKeep
<1> QED BY <1>1, <1>3 DEF Recording

LEMMA VStep == VInv /\ [Next]_vars => VInv'
<1> SUFFICES ASSUME VInv, [Next]_vars PROVE VInv'
  OBVIOUS
<1>1. CASE Environment
  BY <1>1, TickKeeps, RegistrationKeeps, AddKeeps, DiscardKeeps, FinishEditKeeps, ReplaceKeeps
  DEF Environment
<1>2. ASSUME NEW t \in Threads, Proceed(t) PROVE VInv'
  BY <1>2, AnchorKeeps, PassDomainKeeps, PassAllowlistKeeps, PossessKeeps, HookStepKeeps,
     RejectKeeps, AcceptKeeps DEF Proceed
<1>3. ASSUME NEW t \in Threads, Reply(t) \/ \E r \in Requests : Receive(t, r) PROVE VInv'
  BY <1>3, ReplyKeeps, ReceiveKeeps
<1>4. CASE UNCHANGED vars
  BY <1>4, StutterKeeps
<1> QED BY <1>1, <1>2, <1>3, <1>4 DEF Next

LEMMA VInvariant == Spec => []VInv
BY VInit, VStep, PTL DEF Spec

-----------------------------------------------------------------------------

\* The state of the verifier, its allowlist and its calls keeps its shape.
THEOREM TypeCorrect == Spec => []TypeOK
<1>1. VInv => TypeOK
  BY DEF VInv
<1> QED BY <1>1, VInvariant, PTL

\* No hook runs for, and verify never returns, a request whose whole chain did not
\* stand at one instant of the call in exactly one trusted domain, or whose signed
\* nonce is not on record, for every keyring, resolver and request
\* (verifier.py:275-333).
THEOREM HooksSeeOnlyEntitledHolds == Spec => []HooksSeeOnlyEntitled
<1>1. VInv => HooksSeeOnlyEntitled
  BY DEF VInv, Checked, Entitled, Spent, HooksSeeOnlyEntitled
<1> QED BY <1>1, VInvariant, PTL

\* A revocation that precedes a call is final for it, whatever number of threads
\* add, discard and replace under it (allowlist.py:3-5, 30-33).
THEOREM RevocationTakesEffectHolds == Spec => []RevocationTakesEffect
<1>1. VInv => RevocationTakesEffect
  BY DEF VInv, Checked, Admitted, RevocationTakesEffect
<1> QED BY <1>1, VInvariant, PTL

\* No refusal without a cause (verifier.py:251-351).
THEOREM RefusalJustifiedHolds == Spec => []RefusalJustified
<1>1. VInv => RefusalJustified
  BY DEF VInv, Checked, Justified, RefusalJustified
<1> QED BY <1>1, VInvariant, PTL

\* An accepted request passed every hook registered before its call, though the
\* lists grow while it is under way (verifier.py:335-349).
THEOREM NoHookSkippedHolds == Spec => []NoHookSkipped
<1>1. VInv => NoHookSkipped
  BY DEF VInv, Hooked, Sound, Passed, NoHookSkipped
<1> QED BY <1>1, VInvariant, PTL

-----------------------------------------------------------------------------
(* The safety half of CallsReturn. *)

ShortLists == Len(extTypes) <= MaxHooks /\ Len(validators) <= MaxHooks

LEMMA ListsStayShort == Spec => []ShortLists
<1>1. Init => ShortLists
  BY DEF Init, ShortLists
<1>2. TypeOK /\ ShortLists /\ [Next]_vars => ShortLists'
  <2> SUFFICES ASSUME TypeOK, ShortLists, [Next]_vars,
                      ~UNCHANGED <<extTypes, validators>>
               PROVE  ShortLists'
    BY DEF ShortLists
  <2>1. \/ \E e \in ExtTypes : RequireExtension(e)
        \/ \E v \in Validators : RegisterValidator(v)
    BY DEF Next, Environment, Tick, Add, Discard, FinishEdit, Replace, UnderEdits, Proceed, Reply,
           Receive, RejectUnanchored, Anchor, RejectDomain, PassDomain, RejectUnlisted,
           PassAllowlist, RejectUser, RejectUnproven, RejectNonce, RejectReplay, Possess,
           CheckExtension, RejectExtension, ExtensionsDone, RunValidator, RejectValidator,
           Accept, shared, others, vars
  <2>2. extTypes \in Seq(ExtTypes) /\ validators \in Seq(Validators)
    BY DEF TypeOK
  <2>3. ASSUME NEW e \in ExtTypes, RequireExtension(e) PROVE ShortLists'
    <3>1. Len(extTypes') = Len(extTypes) + 1 /\ Len(extTypes) \in Nat
      BY <2>2, <2>3, AppendProperties, LenProperties DEF RequireExtension
    <3> QED BY <2>3, <3>1 DEF RequireExtension, ShortLists
  <2>4. ASSUME NEW v \in Validators, RegisterValidator(v) PROVE ShortLists'
    <3>1. Len(validators') = Len(validators) + 1 /\ Len(validators) \in Nat
      BY <2>2, <2>4, AppendProperties, LenProperties DEF RegisterValidator
    <3> QED BY <2>4, <3>1 DEF RegisterValidator, ShortLists
  <2> QED BY <2>1, <2>3, <2>4
<1> QED BY <1>1, <1>2, TypeCorrect, PTL DEF Spec

\* The most steps a call still takes: one for each stretch of verify, and one for
\* every entry the two lists of hooks may yet come to hold.
ToGo(t) ==
  CASE pc[t] = "anchor" -> 2 * MaxHooks + 6
    [] pc[t] = "domain" -> 2 * MaxHooks + 5
    [] pc[t] = "allowlist" -> 2 * MaxHooks + 4
    [] pc[t] = "possession" -> 2 * MaxHooks + 3
    [] pc[t] = "extensions" -> 2 * MaxHooks + 2 - at[t]
    [] pc[t] = "hooks" -> MaxHooks + 1 - at[t]
    [] OTHER -> 0

(* What Proceed(t) leaves of the other calls. *)
LEMMA ProceedIsItsOwn ==
  ASSUME TypeOK, NEW t \in Threads, Proceed(t), NEW d \in Threads, d # t
  PROVE  UNCHANGED <<pc[d], req[d], now[d], at[d], verdict[d]>>
BY DEF TypeOK, Proceed, Return, Goto, RejectUnanchored, Anchor, RejectDomain, PassDomain,
       RejectUnlisted, PassAllowlist, RejectUser, RejectUnproven, RejectNonce, RejectReplay,
       Possess, CheckExtension, RejectExtension, ExtensionsDone, RunValidator,
       RejectValidator, Accept

LEMMA ProceedAdvances ==
  ASSUME TypeOK, ShortLists, NEW t \in Threads, Hooked(t), Proceed(t)
  PROVE  ToGo(t)' \in 0 .. ToGo(t) - 1
<1>1. /\ MaxHooks \in Nat /\ at \in [Threads -> Nat] /\ pc \in [Threads -> Labels]
      /\ Len(extTypes) \in 0 .. MaxHooks /\ Len(validators) \in 0 .. MaxHooks
  BY LenProperties DEF TypeOK, ShortLists
<1>2. /\ pc[t] = "extensions" => at[t] <= Len(extTypes)
      /\ pc[t] = "hooks" => at[t] <= Len(validators)
  BY DEF Hooked
<1>3. CASE RejectUnanchored(t) \/ Anchor(t)
  BY <1>1, <1>3 DEF RejectUnanchored, Anchor, Return, Goto, ToGo, Labels
<1>4. CASE RejectDomain(t) \/ PassDomain(t)
  BY <1>1, <1>4 DEF RejectDomain, PassDomain, Return, Goto, ToGo, Labels
<1>5. CASE RejectUnlisted(t) \/ PassAllowlist(t)
  BY <1>1, <1>5 DEF RejectUnlisted, PassAllowlist, Return, Goto, ToGo, Labels
<1>6. CASE RejectUser(t) \/ RejectUnproven(t) \/ RejectNonce(t) \/ RejectReplay(t) \/ Possess(t)
  BY <1>1, <1>6 DEF RejectUser, RejectUnproven, RejectNonce, RejectReplay, Possess,
                    Return, Goto, ToGo, Labels
<1>7. CASE CheckExtension(t) \/ RunValidator(t)
  <2>1. pc'[t] = pc[t] /\ at'[t] = at[t] + 1
    BY <1>1, <1>7 DEF CheckExtension, RunValidator
  <2>2. CASE pc[t] = "extensions"
    <3>1. at[t] < MaxHooks
      BY <1>1, <1>7, <2>2 DEF CheckExtension, RunValidator
    <3>2. ToGo(t) = 2 * MaxHooks + 2 - at[t] /\ ToGo(t)' = 2 * MaxHooks + 2 - (at[t] + 1)
      BY <2>1, <2>2 DEF ToGo
    <3> QED BY <1>1, <3>1, <3>2
  <2>3. CASE pc[t] = "hooks"
    <3>1. at[t] < MaxHooks
      BY <1>1, <1>7, <2>3 DEF CheckExtension, RunValidator
    <3>2. ToGo(t) = MaxHooks + 1 - at[t] /\ ToGo(t)' = MaxHooks + 1 - (at[t] + 1)
      BY <2>1, <2>3 DEF ToGo
    <3> QED BY <1>1, <3>1, <3>2
  <2> QED BY <1>7, <2>2, <2>3 DEF CheckExtension, RunValidator
<1>8. CASE ExtensionsDone(t)
  <2>1. pc[t] = "extensions" /\ pc'[t] = "hooks" /\ at'[t] = 0
    BY <1>1, <1>8 DEF ExtensionsDone, Goto
  <2> QED BY <1>1, <1>2, <2>1 DEF ToGo
<1>9. CASE RejectExtension(t) \/ RejectValidator(t) \/ Accept(t)
  <2>1. pc[t] \in {"extensions", "hooks"} /\ pc'[t] = "returned"
    BY <1>1, <1>9 DEF RejectExtension, RejectValidator, Accept, Return
  <2> QED BY <1>1, <1>2, <2>1 DEF ToGo
<1> QED BY <1>3, <1>4, <1>5, <1>6, <1>7, <1>8, <1>9 DEF Proceed

\* Every step of a call brings it nearer to its return, whatever was registered or
\* edited meanwhile, and nobody else's step moves it (verifier.py:251-351).
CallsOnlyAdvance ==
  [][\A t \in Threads : InProgress(t) =>
       IF Proceed(t) THEN ToGo(t)' \in 0 .. ToGo(t) - 1
       ELSE UNCHANGED <<pc[t], req[t], now[t], at[t], verdict[t]>>]_vars

(* No call of verify loops: it returns or raises within 2 * MaxHooks + 6     *)
(* steps of its own.                                                         *)
THEOREM CallsOnlyAdvanceHolds == Spec => CallsOnlyAdvance
<1>1. ASSUME VInv, ShortLists, [Next]_vars, NEW t \in Threads, InProgress(t)
      PROVE  IF Proceed(t) THEN ToGo(t)' \in 0 .. ToGo(t) - 1
             ELSE UNCHANGED <<pc[t], req[t], now[t], at[t], verdict[t]>>
  <2> USE DEF VInv
  <2>1. CASE Proceed(t)
    BY <1>1, <2>1, ProceedAdvances
  <2>2. ASSUME NEW u \in Threads, u # t, Proceed(u)
        PROVE  UNCHANGED <<pc[t], req[t], now[t], at[t], verdict[t]>>
    BY <1>1, <2>2, ProceedIsItsOwn
  <2>3. ASSUME NEW u \in Threads, Reply(u) \/ \E r \in Requests : Receive(u, r)
        PROVE  UNCHANGED <<pc[t], req[t], now[t], at[t], verdict[t]>>
    BY <1>1, <2>3 DEF Reply, Receive, Goto, InProgress, TypeOK
  <2>4. ASSUME Environment \/ UNCHANGED vars
        PROVE  UNCHANGED <<pc[t], req[t], now[t], at[t], verdict[t]>>
    BY <2>4 DEF Environment, Tick, Add, Discard, FinishEdit, Replace, UnderEdits,
                      RequireExtension, RegisterValidator, calls, vars
  <2> QED BY <1>1, <2>1, <2>2, <2>3, <2>4 DEF Next
<1>2. VInv /\ ShortLists /\ [Next]_vars =>
        [\A t \in Threads : InProgress(t) =>
           IF Proceed(t) THEN ToGo(t)' \in 0 .. ToGo(t) - 1
           ELSE UNCHANGED <<pc[t], req[t], now[t], at[t], verdict[t]>>]_vars
  BY <1>1
<1> QED BY <1>2, VInvariant, ListsStayShort, PTL DEF Spec, CallsOnlyAdvance

\* No call waits at a check with no alternative open to it: between its anchoring
\* and its possession check it has an account, and it is never past the end of a
\* list of hooks (verifier.py:276-349).
NeverStuck ==
  \A t \in Threads :
    /\ pc[t] \in {"domain", "possession"} => AccountOf(config, req[t]) # {}
    /\ pc[t] = "extensions" => at[t] \in 0 .. Len(extTypes)
    /\ pc[t] = "hooks" => at[t] \in 0 .. Len(validators)

(* At every label of a call some alternative of its step has its guard true. *)
THEOREM NeverStuckHolds == Spec => []NeverStuck
<1>1. VInv => NeverStuck
  <2> SUFFICES ASSUME VInv, NEW t \in Threads PROVE NeverStuck!(t)
    BY DEF NeverStuck
  <2>1. at[t] \in Nat /\ Len(extTypes) \in Nat /\ Len(validators) \in Nat
    BY LenProperties DEF VInv, TypeOK
  <2> QED BY <2>1 DEF VInv, Checked, Hooked, NeverStuck
<1> QED BY <1>1, VInvariant, PTL
=============================================================================
