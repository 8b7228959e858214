------------------------- MODULE MessageTokenProofs -------------------------
(***************************************************************************)
(* Theorems about message tokens for every set of keys, epochs, operator   *)
(* tokens and terms, every skew and every resolution of the clock.         *)
(***************************************************************************)
EXTENDS MessageToken, TLAPS

-----------------------------------------------------------------------------
(* What a verdict says. *)

(* Checks in a row succeed when each does.                                   *)
LEMMA ThenFacts ==
  ASSUME NEW a, NEW b
  PROVE  (Then(a, b) = "ok") <=> (a = "ok" /\ b = "ok")
BY DEF Then

(* A level check succeeds on a token of the type, the issuer and the role.   *)
LEMMA LevelFacts ==
  ASSUME NEW tokens, NEW type, NEW issuer, NEW role
  PROVE  (Level(tokens, type, issuer, role) = "ok") <=>
           /\ tokens # {}
           /\ The(tokens).type = type
           /\ The(tokens).iss = issuer
           /\ The(tokens).sub \in role
BY DEF Level, Decodes, Then, Unless

(* A message is accepted when all that is asked of it holds.                 *)
LEMMA AcceptedFacts ==
  ASSUME NEW m, NEW o, NEW now
  PROVE  (VerifyMessage(m, o, now) = "ok") <=>
           /\ SelfSigned(m) = "ok"
           /\ ~NoChain(m, o) /\ ~Differs(m, o)
           /\ Anchored(o, ChainOf(m, o)) = "ok"
           /\ VerifyUser(ChainOf(m, o).user, The(ChainOf(m, o).account).sub) = "ok"
           /\ The(ChainOf(m, o).user).sub = m.iss
           /\ InDomain(m, The(ChainOf(m, o).account), The(ChainOf(m, o).user),
                       Policy(o, The(ChainOf(m, o).account)), now) = "ok"
           /\ Bound(m, o) = "ok"
BY ThenFacts DEF VerifyMessage, Unless

-----------------------------------------------------------------------------
(* The tokens issued. *)

Shaped(m) ==
  m = [type |-> m.type, iss |-> m.iss, sub |-> m.sub, epoch |-> m.epoch, exp |-> m.exp,
       nbf |-> m.nbf, audience |-> m.audience, checksum |-> m.checksum, chain |-> m.chain]

\* What issuing leaves in a message for good: its shape, its signer, and a chain that
\* was checked when it was embedded.
Sealed(m) ==
  /\ Shaped(m)
  /\ m.type = "message" /\ m.iss = m.sub /\ m.sub \in UserKeys
  /\ m.chain # {} => /\ m.chain = {Chain}
                     /\ CheckChain(Chain, m.iss)

IssuedInv ==
  /\ operators \in OperatorSets
  /\ \A m \in Tokens(message) : Sealed(m)

(* The token of issue_message, when it is issued.                            *)
LEMMA MessageOfSealed ==
  ASSUME NEW key \in UserKeys, NEW epoch, NEW terms, NEW binding, NEW embed \in BOOLEAN,
         embed => CheckChain(Chain, key)
  PROVE  Sealed(MessageOf(key, epoch, terms, binding, embed))
<1> DEFINE m == MessageOf(key, epoch, terms, binding, embed)
<1>1. /\ m.iss = key /\ m.sub = key /\ m.type = "message"
      /\ m.chain = IF embed THEN {Chain} ELSE {}
  BY DEF MessageOf, Encoded
<1>2. Shaped(m)
  BY DEF MessageOf, Encoded, Shaped
<1> QED BY <1>1, <1>2 DEF Sealed

(* Once an account and a user token are issued they stay, and so does what   *)
(* was checked of them: every message keeps the chain it was minted with.    *)
LEMMA IssuedInvariant == Spec => []IssuedInv
<1>1. Init => IssuedInv
  BY DEF Init, IssuedInv, Tokens
<1>2. IssuedInv /\ [Next]_vars => IssuedInv'
  <2> SUFFICES ASSUME IssuedInv, [Next]_vars PROVE IssuedInv'
    OBVIOUS
  <2>1. ASSUME NEW epoch \in Epochs, NEW o \in OperatorKeys, NEW k \in AccountKeys,
               NEW terms \in AccountTerms, IssueAccount(o, k, epoch, terms)
        PROVE  IssuedInv'
    <3>1. ASSUME NEW m \in Tokens(message) PROVE m.chain = {}
      <4>1. Chain.account = {}
        BY <2>1 DEF IssueAccount, Chain, Tokens
      <4> QED BY <4>1 DEF IssuedInv, Sealed, CheckChain, Decodes
    <3> QED BY <2>1, <3>1 DEF IssueAccount, IssuedInv, Sealed, Shaped, Tokens
  <2>2. ASSUME NEW epoch \in Epochs, NEW a \in AccountKeys, NEW k \in UserKeys,
               NEW terms \in UserTerms, IssueUser(a, k, epoch, terms)
        PROVE  IssuedInv'
    <3>1. ASSUME NEW m \in Tokens(message) PROVE m.chain = {}
      <4>1. Chain.user = {}
        BY <2>2 DEF IssueUser, Chain, Tokens
      <4> QED BY <4>1, LevelFacts DEF IssuedInv, Sealed, CheckChain, VerifyUser
    <3> QED BY <2>2, <3>1 DEF IssueUser, IssuedInv, Sealed, Shaped, Tokens
  <2>3. ASSUME NEW epoch \in Epochs, NEW k \in UserKeys, NEW terms \in MessageTerms,
               NEW binding \in Bindings, NEW embed \in BOOLEAN,
               IssueMessage(k, epoch, terms, binding, embed)
        PROVE  IssuedInv'
    <3>0. PICK new : new = MessageOf(k, epoch, terms, binding, embed)
      OBVIOUS
    <3>1. Sealed(new)
      BY <2>3, <3>0, MessageOfSealed DEF IssueMessage
    <3>2. Tokens(message)' = {new}
      BY <2>3, <3>0 DEF IssueMessage, Tokens, Minted
    <3>3. Chain' = Chain
      BY <2>3 DEF IssueMessage, Chain, Tokens
    <3>4. Sealed(new)'
      BY <3>1, <3>3 DEF Sealed, Shaped, CheckChain
    <3> QED BY <2>3, <3>2, <3>4 DEF IssueMessage, IssuedInv
  <2>4. CASE Tick \/ UNCHANGED vars
    BY <2>4 DEF Tick, vars, IssuedInv, Sealed, Shaped, Tokens, Chain
  <2> QED BY <2>1, <2>2, <2>3, <2>4 DEF Next
<1> QED BY <1>1, <1>2, PTL DEF Spec

-----------------------------------------------------------------------------
(* The theorems. *)

(* A chain beside the token is walked like the same chain inside it: no      *)
(* verdict and no reason differs, whatever the anchor and the bindings asked *)
(* for (message.py:168-170, 189-209).                                        *)
THEOREM EmbeddingChangesNothingHolds == Spec => []EmbeddingChangesNothing
<1>1. ASSUME IssuedInv,
             NEW m \in Tokens(message), NEW anchor, NEW ch, ch # {},
             NEW binding, NEW required
      PROVE  VerifyMessage([m EXCEPT !.chain = ch], With(anchor, {}, binding, required), clock)
               = VerifyMessage([m EXCEPT !.chain = {}], With(anchor, ch, binding, required), clock)
  <2> DEFINE m1 == [m EXCEPT !.chain = ch]
             m2 == [m EXCEPT !.chain = {}]
             o1 == With(anchor, {}, binding, required)
             o2 == With(anchor, ch, binding, required)
  <2>1. /\ m1.chain = ch /\ m2.chain = {}
        /\ m1.type = m2.type /\ m1.iss = m2.iss /\ m1.sub = m2.sub /\ m1.epoch = m2.epoch
        /\ m1.exp = m2.exp /\ m1.nbf = m2.nbf
        /\ m1.audience = m2.audience /\ m1.checksum = m2.checksum
    <3>1. Shaped(m)
      BY <1>1 DEF IssuedInv, Sealed
    <3> QED BY <3>1 DEF Shaped
  <2>2. /\ o1.chain = {} /\ o2.chain = ch
        /\ o1.anchor = o2.anchor /\ o1.root = o2.root /\ o1.policy = o2.policy
        /\ o1.entries = o2.entries /\ o1.audience = o2.audience
        /\ o1.payload = o2.payload /\ o1.checksum = o2.checksum
    BY DEF With
  <2> HIDE DEF m1, m2, o1, o2
  <2>3. SelfSigned(m1) = SelfSigned(m2)
    BY <2>1 DEF SelfSigned
  <2>4. ~NoChain(m1, o1) /\ ~NoChain(m2, o2) /\ ~Differs(m1, o1) /\ ~Differs(m2, o2)
    BY <1>1, <2>1, <2>2 DEF NoChain, Differs
  <2>5. ChainOf(m1, o1) = ChainOf(m2, o2)
    BY <1>1, <2>1, <2>2 DEF ChainOf
  <2>6. ASSUME NEW c PROVE Anchored(o1, c) = Anchored(o2, c)
    BY <2>2 DEF Anchored, Entries
  <2>7. ASSUME NEW a PROVE Policy(o1, a) = Policy(o2, a)
    BY <2>2 DEF Policy, Entries
  <2>8. ASSUME NEW a, NEW u, NEW policy
        PROVE  InDomain(m1, a, u, policy, clock) = InDomain(m2, a, u, policy, clock)
    BY <2>1 DEF InDomain, Epoch, Window, Expired, NotYetValid
  <2>9. Bound(m1, o1) = Bound(m2, o2)
    BY <2>1, <2>2 DEF Bound
  <2>10. VerifyMessage(m1, o1, clock) = VerifyMessage(m2, o2, clock)
    BY <2>1, <2>3, <2>4, <2>5, <2>6, <2>7, <2>8, <2>9 DEF VerifyMessage
  <2> QED BY <2>10 DEF m1, m2, o1, o2
<1>2. IssuedInv => EmbeddingChangesNothing
  <2> SUFFICES ASSUME IssuedInv,
                      NEW m \in Tokens(message), NEW anchor \in Anchors,
                      NEW ch \in Supplies \ {{}}, NEW binding \in Bindings,
                      NEW required \in BOOLEAN
               PROVE  VerifyMessage([m EXCEPT !.chain = ch],
                                    With(anchor, {}, binding, required), clock)
                        = VerifyMessage([m EXCEPT !.chain = {}],
                                        With(anchor, ch, binding, required), clock)
    BY Zenon DEF EmbeddingChangesNothing
  <2>1. ch # {}
    OBVIOUS
  <2> QED BY <1>1, <2>1
<1> QED BY <1>2, IssuedInvariant, PTL

(* A window or an epoch fails a message for its own reasons.                 *)
LEMMA InDomainReasons ==
  ASSUME NEW m, NEW a, NEW u, NEW policy, NEW now
  PROVE  InDomain(m, a, u, policy, now)
           \in {"ok", "epoch_mismatch", "expired", "not_yet_valid"}
BY DEF InDomain, Then, Window, Unless, Epoch

(* A message that embeds its chain fails a receiver who trusts its operator  *)
(* for an epoch or a window only: what issue_message checks of the chain is  *)
(* enough for the rest (message.py:70-80).                                   *)
THEOREM EmbeddedChainIsSoundHolds == Spec => []EmbeddedChainIsSound
<1>1. ASSUME IssuedInv, NEW m \in Tokens(message), NEW anchor \in Anchors, m.chain # {}
      PROVE  \E k \in Tokens(account) : Verdict(m, anchor, {}) \in
               IF Names(anchor, k) THEN {"ok", "epoch_mismatch", "expired", "not_yet_valid"}
               ELSE {"wrong_issuer", "unknown_operator"}
  <2> DEFINE o == With(anchor, {}, Unbound, FALSE)
             a == The(Chain.account)
             u == The(Chain.user)
  <2>1. Sealed(m) /\ m.chain = {Chain} /\ CheckChain(Chain, m.iss)
    BY <1>1 DEF IssuedInv, Sealed
  <2>2. SelfSigned(m) = "ok"
    BY <2>1 DEF SelfSigned, Sealed, Then, Unless
  <2>3. o.chain = {} /\ o.policy = anchor.policy /\ o.root = anchor.root
        /\ o.anchor = anchor.anchor /\ o.entries = anchor.entries
    BY DEF With
  <2>4. ~NoChain(m, o) /\ ~Differs(m, o) /\ ChainOf(m, o) = Chain
    BY <2>1, <2>3 DEF NoChain, Differs, ChainOf, The
  <2>5. /\ Chain.account # {} /\ a.type = "account" /\ a.sub \in AccountKeys
        /\ VerifyUser(Chain.user, a.sub) = "ok" /\ u.sub = m.iss
    BY <2>1, LevelFacts DEF CheckChain, VerifyAccount, Decodes
  <2>a. a \in Tokens(account)
    BY <2>5 DEF Chain, The
  <2>6. /\ Names(anchor, a) => Anchored(o, Chain) = "ok"
        /\ ~Names(anchor, a) => Anchored(o, Chain) \in {"wrong_issuer", "unknown_operator"}
    <3> HIDE DEF o
    <3>1. ASSUME NEW key
          PROVE  VerifyAccount(Chain.account, key) = IF a.iss = key THEN "ok" ELSE "wrong_issuer"
      BY <2>5 DEF VerifyAccount, Level, Decodes, Then, Unless
    <3>2. ASSUME NEW key \in OperatorKeys, NEW p \in operators
          PROVE  VerifyOperator({p}, key) = IF p.sub = key THEN "ok" ELSE "wrong_issuer"
      <4>1. p.type = "operator" /\ p.iss = p.sub
        BY <1>1, OperatorAssumption DEF IssuedInv, Claims
      <4>2. The({p}) = p
        BY DEF The
      <4> QED BY <4>1, <4>2 DEF VerifyOperator, Level, Decodes, Then, Unless
    <3>3. CASE o.anchor = "keyring"
      <4>1. Entries(o, a) # {} <=> Names(anchor, a)
        BY <2>3, <3>3 DEF Entries, Names
      <4> QED BY <2>5, <3>1, <3>3, <4>1 DEF Anchored, Decodes, Then, Unless
    <3>4. CASE o.anchor # "keyring"
      <4>1. anchor.root \in OperatorKeys /\ (anchor.policy = {} \/ \E p \in operators : anchor.policy = {p})
        BY <2>3, <3>4 DEF Anchors, Pinned, Keyring, Optional
      <4>2. CASE anchor.policy = {}
        BY <2>3, <3>1, <3>4, <4>2 DEF Anchored, Names, Then
      <4>3. ASSUME NEW p \in operators, anchor.policy = {p}
            PROVE  /\ Names(anchor, a) => Anchored(o, Chain) = "ok"
                   /\ ~Names(anchor, a) => Anchored(o, Chain) \in {"wrong_issuer", "unknown_operator"}
        <5>1. Names(anchor, a) <=> a.iss = anchor.root /\ p.sub = anchor.root
          BY <2>3, <3>4, <4>3 DEF Names
        <5>2. Anchored(o, Chain) = Then(VerifyAccount(Chain.account, anchor.root),
                                        VerifyOperator({p}, anchor.root))
          BY <2>3, <3>4, <4>3 DEF Anchored
        <5> QED BY <3>1, <3>2, <4>1, <5>1, <5>2 DEF Then
      <4> QED BY <4>1, <4>2, <4>3
    <3> QED BY <3>3, <3>4
  <2>7. Bound(m, o) = "ok"
    BY DEF Bound, With, Unbound, Then, Unless
  <2>8. InDomain(m, a, u, Policy(o, a), clock) \in {"ok", "epoch_mismatch", "expired", "not_yet_valid"}
    BY InDomainReasons
  <2> HIDE DEF o, a, u
  <2>9. VerifyMessage(m, o, clock) = Then(Anchored(o, Chain), InDomain(m, a, u, Policy(o, a), clock))
    BY <2>2, <2>4, <2>5, <2>7 DEF VerifyMessage, Then, Unless, a, u
  <2>10. VerifyMessage(m, o, clock) \in
           IF Names(anchor, a) THEN {"ok", "epoch_mismatch", "expired", "not_yet_valid"}
           ELSE {"wrong_issuer", "unknown_operator"}
    BY <2>6, <2>8, <2>9 DEF Then
  <2> QED BY <2>a, <2>10 DEF Verdict, o
<1>2. IssuedInv => EmbeddedChainIsSound
  BY <1>1 DEF EmbeddedChainIsSound
<1> QED BY <1>2, IssuedInvariant, PTL

-----------------------------------------------------------------------------
(* The keyring. *)

(* Two single-entry policies that agree on key and epoch are one.            *)
LEMMA EntriesFacts ==
  ASSUME NEW S, OneEach(S), NEW a, NEW e \in S, e.sub = a.iss, e.epoch = a.epoch,
         NEW o, o.entries = S
  PROVE  Entries(o, a) = {e}
BY DEF Entries, OneEach

(* The domain check is the policy's, the epochs' and the windows' together.  *)
LEMMA InDomainFacts ==
  ASSUME NEW m, NEW a, NEW u, NEW policy, NEW now
  PROVE  (InDomain(m, a, u, policy, now) = "ok") <=>
           /\ policy # {} => /\ Window(The(policy), now) = "ok"
                             /\ m.epoch = The(policy).epoch
           /\ m.epoch = a.epoch /\ m.epoch = u.epoch
           /\ Window(a, now) = "ok" /\ Window(u, now) = "ok" /\ Window(m, now) = "ok"
<1>1. ASSUME NEW k PROVE (Epoch(m, k) = "ok") <=> (m.epoch = k.epoch)
  BY DEF Epoch, Unless
<1> QED BY <1>1, ThenFacts DEF InDomain

\* The entries that, each alone as the pinned operator, accept a message.
Alone(m, S, ch) == {e \in S : Verdict(m, Pinned(e.sub, {e}), ch) = "ok"}

(* What a keyring accepts is accepted by one entry of it as the pinned       *)
(* operator with its policy, and by no other; what one entry alone accepts   *)
(* the keyring accepts (message.py:153-155, 217-232).                        *)
THEOREM KeyringIsItsEntriesHolds == Spec => []KeyringIsItsEntries
<1>1. ASSUME IssuedInv,
             NEW m \in Tokens(message), NEW ch,
             NEW S \in SUBSET operators, OneEach(S)
      PROVE  /\ Verdict(m, Keyring(S), ch) = "ok" <=> Alone(m, S, ch) # {}
             /\ \A d, e \in Alone(m, S, ch) : d = e
  <2> DEFINE k == With(Keyring(S), ch, Unbound, FALSE)
             o(e) == With(Pinned(e.sub, {e}), ch, Unbound, FALSE)
             c == ChainOf(m, k)
             a == The(c.account)
             u == The(c.user)
             Common == /\ SelfSigned(m) = "ok" /\ ~NoChain(m, k) /\ ~Differs(m, k)
                       /\ Decodes(c.account) /\ VerifyAccount(c.account, a.iss) = "ok"
                       /\ VerifyUser(c.user, a.sub) = "ok" /\ u.sub = m.iss
                       /\ Bound(m, k) = "ok"
             Under(e) == e.sub = a.iss /\ e.epoch = a.epoch
                         /\ InDomain(m, a, u, {e}, clock) = "ok"
  <2>1. /\ k.chain = ch /\ k.anchor = "keyring" /\ k.entries = S
        /\ k.audience = {} /\ k.payload = {} /\ k.checksum = FALSE
    BY DEF With, Keyring, Unbound
  <2>2. ASSUME NEW e \in S
        PROVE  /\ o(e).chain = ch /\ o(e).anchor = "pinned" /\ o(e).root = e.sub
               /\ o(e).policy = {e}
               /\ o(e).audience = {} /\ o(e).payload = {} /\ o(e).checksum = FALSE
    BY DEF With, Pinned, Unbound
  <2>3. ASSUME NEW e \in S
        PROVE  e.type = "operator" /\ e.iss = e.sub /\ e.sub \in OperatorKeys
    BY <1>1, OperatorAssumption DEF IssuedInv, Claims
  <2>4. ASSUME NEW e \in S
        PROVE  /\ NoChain(m, o(e)) <=> NoChain(m, k)
               /\ Differs(m, o(e)) <=> Differs(m, k)
               /\ ChainOf(m, o(e)) = c
               /\ Bound(m, o(e)) = Bound(m, k)
    BY <2>1, <2>2 DEF NoChain, Differs, ChainOf, Bound
  <2>5. ASSUME NEW e \in S PROVE VerifyOperator({e}, e.sub) = "ok"
    <3>1. The({e}) = e
      BY DEF The
    <3> QED BY <2>3, <3>1, LevelFacts, ThenFacts DEF VerifyOperator, Unless
  <2> HIDE DEF k, o, c, a, u
  <2>6. ASSUME NEW e \in S
        PROVE  InDomain(m, a, u, {e}, clock) = "ok" =>
                 m.epoch = e.epoch /\ m.epoch = a.epoch
    <3>1. The({e}) = e
      BY DEF The
    <3> QED BY <3>1, InDomainFacts
  <2>7. ASSUME NEW e \in S
        PROVE  Verdict(m, Pinned(e.sub, {e}), ch) = "ok" <=> Common /\ Under(e)
    <3>1. Anchored(o(e), c) = "ok" <=>
            Decodes(c.account) /\ VerifyAccount(c.account, a.iss) = "ok" /\ e.sub = a.iss
      <4>1. Anchored(o(e), c) = "ok" <=> VerifyAccount(c.account, e.sub) = "ok"
        BY <2>2, <2>5, ThenFacts DEF Anchored
      <4> QED BY <4>1, LevelFacts DEF VerifyAccount, Decodes, a
    <3>2. Policy(o(e), a) = {e}
      BY <2>2 DEF Policy
    <3>3. VerifyMessage(m, o(e), clock) = "ok" <=>
            /\ SelfSigned(m) = "ok" /\ ~NoChain(m, k) /\ ~Differs(m, k)
            /\ Anchored(o(e), c) = "ok"
            /\ VerifyUser(c.user, a.sub) = "ok" /\ u.sub = m.iss
            /\ InDomain(m, a, u, {e}, clock) = "ok"
            /\ Bound(m, k) = "ok"
      <4>1. VerifyMessage(m, o(e), clock) = "ok" <=>
              /\ SelfSigned(m) = "ok" /\ ~NoChain(m, o(e)) /\ ~Differs(m, o(e))
              /\ Anchored(o(e), ChainOf(m, o(e))) = "ok"
              /\ VerifyUser(ChainOf(m, o(e)).user, The(ChainOf(m, o(e)).account).sub) = "ok"
              /\ The(ChainOf(m, o(e)).user).sub = m.iss
              /\ InDomain(m, The(ChainOf(m, o(e)).account), The(ChainOf(m, o(e)).user),
                          Policy(o(e), The(ChainOf(m, o(e)).account)), clock) = "ok"
              /\ Bound(m, o(e)) = "ok"
        BY AcceptedFacts, Zenon
      <4> QED BY <2>4, <3>2, <4>1 DEF a, u
    <3>4. VerifyMessage(m, o(e), clock) = "ok" <=> Common /\ Under(e)
      BY <2>6, <3>1, <3>3
    <3> QED BY <3>4 DEF Verdict, o
  <2>8. Verdict(m, Keyring(S), ch) = "ok" <=> Common /\ \E e \in S : Under(e)
    <3>1. Anchored(k, c) = "ok" <=>
            /\ Decodes(c.account) /\ VerifyAccount(c.account, a.iss) = "ok"
            /\ Entries(k, a) # {}
      BY <2>1, ThenFacts DEF Anchored, Unless, a
    <3>2. Policy(k, a) = Entries(k, a)
      BY <2>1 DEF Policy
    <3>3. VerifyMessage(m, k, clock) = "ok" <=>
            /\ Common /\ Entries(k, a) # {}
            /\ InDomain(m, a, u, Entries(k, a), clock) = "ok"
      BY <3>1, <3>2, AcceptedFacts DEF a, u, c
    <3>4. (Entries(k, a) # {} /\ InDomain(m, a, u, Entries(k, a), clock) = "ok")
            <=> \E e \in S : Under(e)
      <4>1. ASSUME NEW e \in S, e.sub = a.iss, e.epoch = a.epoch
            PROVE  Entries(k, a) = {e}
        BY <1>1, <2>1, <4>1, EntriesFacts
      <4>2. Entries(k, a) # {} => \E e \in S : e.sub = a.iss /\ e.epoch = a.epoch
        BY <2>1 DEF Entries
      <4> QED BY <4>1, <4>2
    <3> QED BY <3>3, <3>4 DEF Verdict, k
  <2>9. ASSUME NEW d \in S, NEW e \in S, Under(d), Under(e) PROVE d = e
    BY <1>1, <2>9 DEF OneEach
  <2> QED BY <2>7, <2>8, <2>9 DEF Alone
<1>2. IssuedInv => KeyringIsItsEntries
  <2> SUFFICES ASSUME IssuedInv,
                      NEW m \in Tokens(message), NEW anchor \in Anchors, NEW ch \in Supplies,
                      anchor.anchor = "keyring"
               PROVE  /\ Verdict(m, anchor, ch) = "ok" <=> Alone(m, anchor.entries, ch) # {}
                      /\ \A d, e \in Alone(m, anchor.entries, ch) : d = e
    BY Zenon DEF KeyringIsItsEntries, Alone
  <2>1. PICK S \in SUBSET operators : anchor = Keyring(S) /\ OneEach(S)
    BY DEF Anchors, Pinned
  <2>2. anchor.entries = S
    BY <2>1 DEF Keyring
  <2> QED BY <1>1, <2>1, <2>2
<1> QED BY <1>2, IssuedInvariant, PTL

-----------------------------------------------------------------------------
(* Windows: what is asked for, what a token carries, what a check reads.     *)

(* Whole seconds are at most a part of a second before the instant.          *)
LEMMA WholeSeconds ==
  ASSUME NEW i \in Nat
  PROVE  /\ i \div Second \in Nat
         /\ (i \div Second) * Second <= i /\ i < (i \div Second) * Second + Second
         /\ i < Second <=> i \div Second = 0
<1>1. Second \in Nat \ {0}
  BY TimeAssumption
<1>2. i \div Second \in Nat /\ (i \div Second) * Second <= i
  BY <1>1
<1>3. i < (i \div Second) * Second + Second
  BY <1>1
<1>4. i >= Second => i \div Second # 0
  BY <1>1, <1>3, SMT
<1>5. i < Second => i \div Second = 0
  BY <1>1, SMT
<1> QED BY <1>1, <1>2, <1>3, <1>4, <1>5

AllTerms == AccountTerms \cup UserTerms \cup MessageTerms

\* A minted token carries the window it was asked for, cut to seconds, and the
\* window is at most one instant at each end.
WindowKept(t) ==
  /\ t.until \subseteq Nat /\ AtMostOne(t.until)
  /\ t.from \subseteq Nat /\ AtMostOne(t.from)
  /\ t.token.exp = InSeconds(t.until)
  /\ t.token.nbf = InSeconds(t.from)

(* The window's ends in seconds are those of the instants themselves.        *)
LEMMA SecondsOf ==
  ASSUME NEW S \in SUBSET Nat, AtMostOne(S)
  PROVE  /\ S = {} => InSeconds(S) = 0
         /\ \A i \in S : InSeconds(S) = i \div Second
BY DEF InSeconds, AtMostOne

(* A token that passes its window check at an instant was asked for then, or *)
(* for an expiry that its encoding has lost.                                 *)
LEMMA CheckedIsAsked ==
  ASSUME NEW t, WindowKept(t), NEW now \in Nat, Window(t.token, now) = "ok"
  PROVE  /\ \A i \in t.until : now <= i + Skew \/ ForgottenExpiry(i)
         /\ \A i \in t.from : now + Skew > i - Second
<1>1. ~Expired(t.token, now) /\ ~NotYetValid(t.token, now)
  BY ThenFacts DEF Window, Unless
<1>2. Second \in Nat \ {0} /\ Skew \in Nat
  BY TimeAssumption
<1>3. ASSUME NEW i \in t.until, ~ForgottenExpiry(i) PROVE now <= i + Skew
  <2>1. t.token.exp = i \div Second
    BY SecondsOf DEF WindowKept
  <2>2. i \in Nat /\ i >= Second
    BY <1>2, <1>3 DEF WindowKept, ForgottenExpiry
  <2>3. t.token.exp \in Nat \ {0} /\ t.token.exp * Second <= i
    BY <1>2, <2>1, <2>2, WholeSeconds
  <2>4. now - Skew <= t.token.exp * Second
    BY <1>1, <1>2, <2>3 DEF Expired
  <2>5. t.token.exp * Second \in Nat
    BY <1>2, <2>3
  <2> QED BY <1>2, <2>2, <2>3, <2>4, <2>5
<1>4. ASSUME NEW i \in t.from PROVE now + Skew > i - Second
  <2>1. t.token.nbf = i \div Second
    BY SecondsOf DEF WindowKept
  <2>2. i \in Nat
    BY DEF WindowKept
  <2>3. t.token.nbf \in Nat /\ i < t.token.nbf * Second + Second
    BY <2>1, <2>2, WholeSeconds
  <2>4. now + Skew >= t.token.nbf * Second
    BY <1>1, <1>2, <2>3 DEF NotYetValid
  <2>5. t.token.nbf * Second \in Nat
    BY <1>2, <2>3
  <2> QED BY <1>2, <2>2, <2>3, <2>4, <2>5
<1> QED BY <1>3, <1>4

(* A token asked for at an instant passes its window check then, when the    *)
(* skew makes good for a second.                                             *)
LEMMA AskedIsChecked ==
  ASSUME NEW t, WindowKept(t), NEW now \in Nat, Skew >= Second,
         \A i \in t.until : now <= i,
         \A i \in t.from : now >= i
  PROVE  Window(t.token, now) = "ok"
<1>1. Second \in Nat \ {0} /\ Skew \in Nat
  BY TimeAssumption
<1>2. ~Expired(t.token, now)
  <2>1. CASE t.until = {}
    BY <2>1, SecondsOf DEF WindowKept, Expired
  <2>2. CASE t.until # {}
    <3>1. PICK i \in t.until : t.token.exp = i \div Second
      BY <2>2, SecondsOf DEF WindowKept
    <3>2. i \in Nat /\ now <= i
      BY DEF WindowKept
    <3>3. t.token.exp \in Nat /\ i < t.token.exp * Second + Second
      BY <3>1, <3>2, WholeSeconds
    <3>4. t.token.exp * Second \in Nat
      BY <1>1, <3>3
    <3> QED BY <1>1, <3>2, <3>3, <3>4 DEF Expired
  <2> QED BY <2>1, <2>2
<1>3. ~NotYetValid(t.token, now)
  <2>1. CASE t.from = {}
    BY <2>1, SecondsOf DEF WindowKept, NotYetValid
  <2>2. CASE t.from # {}
    <3>1. PICK i \in t.from : t.token.nbf = i \div Second
      BY <2>2, SecondsOf DEF WindowKept
    <3>2. i \in Nat /\ now >= i
      BY DEF WindowKept
    <3>3. t.token.nbf \in Nat /\ t.token.nbf * Second <= i
      BY <3>1, <3>2, WholeSeconds
    <3>4. t.token.nbf * Second \in Nat
      BY <1>1, <3>3
    <3> QED BY <1>1, <3>2, <3>3, <3>4 DEF NotYetValid
  <2> QED BY <2>1, <2>2
<1> QED BY <1>2, <1>3 DEF Window, Then, Unless

(* A mint function gives a token the window it was asked for, in seconds.    *)
LEMMA MintedKept ==
  ASSUME NEW terms \in AllTerms, ValidTerms(terms), NEW now \in Nat,
         NEW token, token.exp = Expires(terms, now), token.nbf = InSeconds(terms.not_before)
  PROVE  WindowKept(Minted(token, terms, now))
<1> DEFINE t == Minted(token, terms, now)
<1>1. /\ t.token = token /\ t.from = terms.not_before /\ t.until = Until(terms, now)
  BY DEF Minted
<1>2. Second \in Nat \ {0}
  BY TimeAssumption
<1>3. /\ terms.ttl \subseteq Int /\ terms.expiry \subseteq Nat /\ terms.not_before \subseteq Nat
      /\ AtMostOne(terms.ttl) /\ AtMostOne(terms.expiry) /\ AtMostOne(terms.not_before)
  BY TermsAssumption DEF AllTerms, Terms
<1>4. ASSUME NEW i \in Until(terms, now) PROVE i \in Nat
  BY <1>2, <1>3 DEF Until, ValidTerms
<1>5. AtMostOne(Until(terms, now))
  <2> SUFFICES ASSUME NEW i \in Until(terms, now), NEW j \in Until(terms, now) PROVE i = j
    BY DEF AtMostOne
  <2>1. CASE terms.ttl = {}
    BY <1>3, <2>1 DEF AtMostOne, Until
  <2>2. CASE terms.expiry = {}
    BY <1>3, <2>2 DEF AtMostOne, Until
  <2> QED BY <2>1, <2>2 DEF ValidTerms
<1> HIDE DEF t
<1>6. WindowKept(t)
  BY <1>1, <1>3, <1>4, <1>5 DEF WindowKept, Expires
<1> QED BY <1>6 DEF t

(* Every token issued is the only one of its level, of its type and for a    *)
(* key of its role, with the window it was asked for; a message's expiry is  *)
(* in its token.                                                             *)
MintedInv ==
  /\ clock \in Nat /\ clock >= Second
  /\ AtMostOne(account) /\ AtMostOne(user) /\ AtMostOne(message)
  /\ \A t \in account : t.token.type = "account" /\ t.token.sub \in AccountKeys
  /\ \A t \in user : t.token.type = "user" /\ t.token.sub \in UserKeys
  /\ \A t \in Minteds : WindowKept(t)
  /\ \A t \in message : \A i \in t.until : ~ForgottenExpiry(i)

(* Its invariance.                                                           *)
LEMMA MintedInvariant == Spec => []MintedInv
<1>1. Init => MintedInv
  BY TimeAssumption DEF Init, MintedInv, Minteds, AtMostOne
<1>2. MintedInv /\ [Next]_vars => MintedInv'
  <2> SUFFICES ASSUME MintedInv, [Next]_vars PROVE MintedInv'
    OBVIOUS
  <2>1. ASSUME NEW epoch \in Epochs, NEW o \in OperatorKeys, NEW k \in AccountKeys,
               NEW terms \in AccountTerms, IssueAccount(o, k, epoch, terms)
        PROVE  MintedInv'
    <3>0. PICK token : token = Encoded("account", o, k, epoch, terms, clock)
      OBVIOUS
    <3>1. PICK new : new = Minted(token, terms, clock)
      OBVIOUS
    <3>2. WindowKept(new)
      BY <2>1, <3>0, <3>1, MintedKept DEF IssueAccount, Encoded, AllTerms, MintedInv
    <3>3. new.token.type = "account" /\ new.token.sub \in AccountKeys
      BY <3>0, <3>1 DEF Minted, Encoded
    <3>4. account' = {new}
      BY <2>1, <3>0, <3>1 DEF IssueAccount
    <3> QED BY <2>1, <3>2, <3>3, <3>4 DEF IssueAccount, MintedInv, Minteds, AtMostOne, WindowKept
  <2>2. ASSUME NEW epoch \in Epochs, NEW a \in AccountKeys, NEW k \in UserKeys,
               NEW terms \in UserTerms, IssueUser(a, k, epoch, terms)
        PROVE  MintedInv'
    <3>0. PICK token : token = Encoded("user", a, k, epoch, terms, clock)
      OBVIOUS
    <3>1. PICK new : new = Minted(token, terms, clock)
      OBVIOUS
    <3>2. WindowKept(new)
      BY <2>2, <3>0, <3>1, MintedKept DEF IssueUser, Encoded, AllTerms, MintedInv
    <3>3. new.token.type = "user" /\ new.token.sub \in UserKeys
      BY <3>0, <3>1 DEF Minted, Encoded
    <3>4. user' = {new}
      BY <2>2, <3>0, <3>1 DEF IssueUser
    <3> QED BY <2>2, <3>2, <3>3, <3>4 DEF IssueUser, MintedInv, Minteds, AtMostOne, WindowKept
  <2>3. ASSUME NEW epoch \in Epochs, NEW k \in UserKeys, NEW terms \in MessageTerms,
               NEW binding \in Bindings, NEW embed \in BOOLEAN,
               IssueMessage(k, epoch, terms, binding, embed)
        PROVE  MintedInv'
    <3>0. PICK token : token = MessageOf(k, epoch, terms, binding, embed)
      OBVIOUS
    <3>1. PICK new : new = Minted(token, terms, clock)
      OBVIOUS
    <3>2. token.exp = Expires(terms, clock) /\ token.nbf = InSeconds(terms.not_before)
      BY <3>0 DEF MessageOf, Encoded
    <3>3. WindowKept(new)
      BY <2>3, <3>1, <3>2, MintedKept DEF IssueMessage, AllTerms, MintedInv
    <3>4. message' = {new}
      BY <2>3, <3>0, <3>1 DEF IssueMessage
    <3>5. ASSUME NEW i \in new.until PROVE ~ForgottenExpiry(i)
      <4>1. i \in Nat /\ new.token.exp = i \div Second
        BY <3>3, SecondsOf DEF WindowKept
      <4>2. new.token.exp # 0
        BY <2>3, <3>1, <3>2 DEF IssueMessage, Minted
      <4> QED BY <4>1, <4>2, WholeSeconds DEF ForgottenExpiry
    <3> QED BY <2>3, <3>3, <3>4, <3>5 DEF IssueMessage, MintedInv, Minteds, AtMostOne, WindowKept
  <2>4. CASE Tick
    BY <2>4, TimeAssumption DEF Tick, MintedInv, Minteds, AtMostOne, WindowKept
  <2>5. CASE UNCHANGED vars
    BY <2>5 DEF vars, MintedInv, Minteds, AtMostOne, WindowKept
  <2> QED BY <2>1, <2>2, <2>3, <2>4, <2>5 DEF Next
<1> QED BY <1>1, <1>2, PTL DEF Spec

(* Every token of a level is the one its chain carries.                      *)
LEMMA TheMinted ==
  ASSUME NEW minted, AtMostOne(minted), NEW t \in minted
  PROVE  Tokens(minted) = {t.token} /\ The(Tokens(minted)) = t.token
<1>1. Tokens(minted) = {t.token}
  BY DEF Tokens, AtMostOne
<1> QED BY <1>1 DEF The

(* The anchors: a pinned operator whose policy is one of the operator tokens *)
(* if it has any, and a keyring of them, one for a key and an epoch.         *)
LEMMA AnchorFacts ==
  ASSUME NEW anchor \in Anchors
  PROVE  \/ /\ anchor.anchor = "pinned" /\ anchor.root \in OperatorKeys
            /\ anchor.policy = {} \/ \E p \in operators : anchor.policy = {p}
         \/ /\ anchor.anchor = "keyring" /\ OneEach(anchor.entries)
            /\ anchor.entries \subseteq operators
BY DEF Anchors, Pinned, Keyring, Optional

(* What an operator token gives a receiver that pins its key.                *)
LEMMA PolicyFacts ==
  ASSUME operators \in OperatorSets, NEW p \in operators, NEW key \in OperatorKeys
  PROVE  (VerifyOperator({p}, key) = "ok") <=> p.sub = key
<1>1. The({p}) = p
  BY DEF The
<1>2. p.type = "operator" /\ p.iss = p.sub
  BY OperatorAssumption DEF Claims
<1> QED BY <1>1, <1>2, LevelFacts, ThenFacts DEF VerifyOperator, Unless

(* The account check of an anchor that a chain stands on.                    *)
LEMMA AnchoredFacts ==
  ASSUME operators \in OperatorSets, NEW anchor \in Anchors, NEW o, NEW ch,
         o.anchor = anchor.anchor, o.root = anchor.root, o.policy = anchor.policy,
         o.entries = anchor.entries
  PROVE  (Anchored(o, ch) = "ok") <=>
           /\ ch.account # {} /\ The(ch.account).type = "account"
           /\ The(ch.account).sub \in AccountKeys
           /\ IF anchor.anchor = "keyring"
              THEN Entries(o, The(ch.account)) # {}
              ELSE /\ The(ch.account).iss = anchor.root
                   /\ \A p \in anchor.policy : p.sub = anchor.root
<1> DEFINE Sound == /\ ch.account # {} /\ The(ch.account).type = "account"
                    /\ The(ch.account).sub \in AccountKeys
<1>1. ASSUME NEW key
      PROVE  (VerifyAccount(ch.account, key) = "ok") <=> Sound /\ The(ch.account).iss = key
  BY LevelFacts DEF VerifyAccount
<1>2. CASE anchor.anchor = "keyring"
  BY <1>1, <1>2, ThenFacts DEF Anchored, Unless, Decodes
<1>3. CASE anchor.anchor # "keyring"
  <2>1. (Anchored(o, ch) = "ok") <=>
          /\ Sound /\ The(ch.account).iss = anchor.root
          /\ o.policy = {} \/ VerifyOperator(o.policy, anchor.root) = "ok"
    BY <1>1, <1>3, ThenFacts DEF Anchored
  <2>2. anchor.root \in OperatorKeys /\ (o.policy = {} \/ \E p \in operators : o.policy = {p})
    BY <1>3, AnchorFacts
  <2>3. (o.policy = {} \/ VerifyOperator(o.policy, anchor.root) = "ok")
          <=> \A p \in o.policy : p.sub = anchor.root
    BY <2>2, PolicyFacts
  <2> QED BY <1>3, <2>1, <2>3
<1> QED BY <1>2, <1>3

(* A message is accepted with no other chain than the one issued.            *)
LEMMA AcceptedChain ==
  ASSUME IssuedInv, MintedInv, NEW m \in Tokens(message), NEW anchor \in Anchors,
         NEW ch \in Supplies, NEW o, o = With(anchor, ch, Unbound, FALSE),
         VerifyMessage(m, o, clock) = "ok"
  PROVE  ChainOf(m, o) = Chain
<1> DEFINE c == ChainOf(m, o)
<1>1. /\ ~NoChain(m, o)
      /\ VerifyUser(c.user, The(c.account).sub) = "ok"
  BY AcceptedFacts
<1> HIDE DEF c
<1>2. c.user # {} /\ The(c.user).type = "user"
  BY <1>1, LevelFacts DEF VerifyUser
<1>3. o.chain = ch
  BY DEF With
<1>4. CASE m.chain # {}
  <2>1. m.chain = {Chain}
    BY <1>4 DEF IssuedInv, Sealed
  <2> QED BY <1>4, <2>1 DEF ChainOf, The
<1>5. CASE m.chain = {}
  <2>1. ch # {}
    BY <1>1, <1>3, <1>5 DEF NoChain
  <2>2. PICK d : ch = {d} /\ d \in {Chain, [account |-> Chain.user, user |-> Chain.account],
                                    [account |-> Chain.account, user |-> {}]}
    BY <2>1 DEF Supplies
  <2>3. c = d
    BY <1>3, <1>5, <2>2 DEF ChainOf, The, c
  <2>4. CASE d = [account |-> Chain.user, user |-> Chain.account]
    <3>1. c.user = Tokens(account)
      <4>1. d.user = Chain.account
        BY <2>4
      <4> QED BY <2>3, <4>1 DEF Chain
    <3>2. PICK t \in account : The(c.user) = t.token
      BY <1>2, <3>1 DEF Tokens, The
    <3> QED BY <1>2, <3>2 DEF MintedInv
  <2>5. CASE d = [account |-> Chain.account, user |-> {}]
    BY <1>2, <2>3, <2>5
  <2>6. CASE d = Chain
    BY <2>3, <2>6 DEF c
  <2> QED BY <2>2, <2>4, <2>5, <2>6, Zenon
<1> QED BY <1>4, <1>5

(* Nothing outlives what was asked for: an accepted message has its whole    *)
(* chain, in one epoch, under an operator that is trusted now, and every     *)
(* window as it was asked for holds, but for the skew, a part of a second at *)
(* its beginning and, for the tokens of the chain, an expiry the encoding    *)
(* takes for none (message.py:115-117, 172-311, token.py:244-254, 313-326,   *)
(* 352-353).                                                                 *)
THEOREM NeverBeyondWhatWasAskedHolds == Spec => []NeverBeyondWhatWasAsked
<1>1. ASSUME IssuedInv, MintedInv, NEW m \in Tokens(message), NEW anchor \in Anchors,
             NEW ch \in Supplies, Verdict(m, anchor, ch) = "ok"
      PROVE  /\ Complete /\ Linked
             /\ \A a \in Tokens(account) : Trusts(anchor, a)
             /\ \A t \in Minteds :
                  /\ \A i \in t.until : \/ clock <= i + Skew
                                        \/ ForgottenExpiry(i) /\ t \notin message
                  /\ \A i \in t.from : clock + Skew > i - Second
  <2>0. PICK o : o = With(anchor, ch, Unbound, FALSE)
    OBVIOUS
  <2> DEFINE a == The(Chain.account)
             u == The(Chain.user)
  <2>1. VerifyMessage(m, o, clock) = "ok"
    BY <1>1, <2>0 DEF Verdict
  <2>2. ChainOf(m, o) = Chain
    BY <1>1, <2>0, <2>1, AcceptedChain
  <2>3. /\ o.anchor = anchor.anchor /\ o.root = anchor.root /\ o.policy = anchor.policy
        /\ o.entries = anchor.entries
    BY <2>0 DEF With
  <2>4. /\ Anchored(o, Chain) = "ok" /\ VerifyUser(Chain.user, a.sub) = "ok"
        /\ u.sub = m.iss /\ InDomain(m, a, u, Policy(o, a), clock) = "ok"
    BY <2>1, <2>2, AcceptedFacts
  <2>5. Chain.account # {} /\ Chain.user # {} /\ u.iss = a.sub
    <3>1. Chain.account # {}
      BY <1>1, <2>3, <2>4, AnchoredFacts DEF IssuedInv
    <3> QED BY <2>4, <3>1, LevelFacts DEF VerifyUser
  <2>6. PICK ta \in account, tu \in user, tm \in message : m = tm.token
    BY <2>5 DEF Chain, Tokens
  <2>7. /\ Tokens(account) = {ta.token} /\ a = ta.token
        /\ Tokens(user) = {tu.token} /\ u = tu.token
        /\ Tokens(message) = {m}
    BY <1>1, <2>6, TheMinted DEF MintedInv, Chain
  <2> HIDE DEF a, u
  <2>8. /\ m.epoch = a.epoch /\ m.epoch = u.epoch
        /\ Window(a, clock) = "ok" /\ Window(u, clock) = "ok" /\ Window(m, clock) = "ok"
        /\ Policy(o, a) # {} => /\ Window(The(Policy(o, a)), clock) = "ok"
                                /\ m.epoch = The(Policy(o, a)).epoch
    BY <2>4, InDomainFacts
  <2>9. Complete /\ Linked
    BY <2>4, <2>5, <2>6, <2>7, <2>8 DEF Complete, Linked
  <2>10. Trusts(anchor, a)
    <3>1. IF anchor.anchor = "keyring"
          THEN Entries(o, a) # {}
          ELSE a.iss = anchor.root /\ \A p \in anchor.policy : p.sub = anchor.root
      BY <1>1, <2>3, <2>4, AnchoredFacts DEF IssuedInv, a
    <3>2. CASE anchor.anchor = "keyring"
      <4>1. Policy(o, a) = Entries(o, a)
        BY <2>3, <3>2 DEF Policy
      <4>2. PICK e \in Entries(o, a) : e = The(Entries(o, a))
        BY <3>1, <3>2 DEF The
      <4>3. e \in anchor.entries /\ e.sub = a.iss /\ e.epoch = a.epoch
        BY <2>3, <4>2 DEF Entries
      <4> QED BY <2>8, <3>1, <3>2, <4>1, <4>2, <4>3 DEF Trusts
    <3>3. CASE anchor.anchor # "keyring"
      <4>1. anchor.policy = {} \/ \E p \in operators : anchor.policy = {p}
        BY <3>3, AnchorFacts
      <4>2. Policy(o, a) = anchor.policy
        BY <2>3, <3>3 DEF Policy
      <4>3. ASSUME NEW p \in anchor.policy
            PROVE  p.sub = a.iss /\ p.epoch = a.epoch /\ Window(p, clock) = "ok"
        <5>1. The(anchor.policy) = p
          BY <4>1 DEF The
        <5> QED BY <2>8, <3>1, <3>3, <4>2, <5>1
      <4> QED BY <3>1, <3>3, <4>3 DEF Trusts
    <3> QED BY <3>2, <3>3
  <2>11. ASSUME NEW t \in Minteds PROVE WindowKept(t) /\ Window(t.token, clock) = "ok"
    <3>1. t.token \in {a, u, m}
      BY <2>7 DEF Minteds, Tokens
    <3> QED BY <1>1, <2>8, <3>1 DEF MintedInv
  <2>12. ASSUME NEW t \in Minteds
         PROVE  /\ \A i \in t.until : \/ clock <= i + Skew
                                      \/ ForgottenExpiry(i) /\ t \notin message
                /\ \A i \in t.from : clock + Skew > i - Second
    BY <1>1, <2>11, CheckedIsAsked DEF MintedInv
  <2> QED BY <2>7, <2>9, <2>10, <2>12
<1>2. IssuedInv /\ MintedInv => NeverBeyondWhatWasAsked
  BY <1>1, Zenon DEF NeverBeyondWhatWasAsked
<1> QED BY <1>2, IssuedInvariant, MintedInvariant, PTL

(* Nothing asked for is lost to the whole seconds of a token: under a skew   *)
(* of a second, a linked chain whose windows as asked for hold now is        *)
(* accepted wherever its operator is trusted (token.py:313-326, 244-254).    *)
THEOREM WhatWasAskedIsAcceptedHolds == Spec => []WhatWasAskedIsAccepted
<1>1. ASSUME IssuedInv, MintedInv, Complete, Linked, Skew >= Second,
             \A t \in Minteds : /\ \A i \in t.until : clock <= i
                                /\ \A i \in t.from : clock >= i,
             NEW m \in Tokens(message), NEW a \in Tokens(account), NEW anchor \in Anchors,
             Trusts(anchor, a)
      PROVE  Verdict(m, anchor, {Chain}) = "ok"
  <2>0. PICK o : o = With(anchor, {Chain}, Unbound, FALSE)
    OBVIOUS
  <2>1. /\ o.anchor = anchor.anchor /\ o.root = anchor.root /\ o.policy = anchor.policy
        /\ o.entries = anchor.entries /\ o.chain = {Chain}
    BY <2>0 DEF With
  <2>2. PICK ta \in account, tu \in user, tm \in message : a = ta.token /\ m = tm.token
    BY <1>1 DEF Complete, Tokens
  <2>3. PICK u : u = tu.token
    OBVIOUS
  <2>4. /\ Chain.account = {a} /\ The(Chain.account) = a
        /\ Chain.user = {u} /\ The(Chain.user) = u
    BY <1>1, <2>2, <2>3, TheMinted DEF MintedInv, Chain
  <2>5. /\ u.iss = a.sub /\ m.iss = u.sub /\ a.epoch = m.epoch /\ u.epoch = m.epoch
    BY <1>1, <2>2, <2>3 DEF Linked, Tokens
  <2>6. Sealed(m) /\ operators \in OperatorSets
    BY <1>1 DEF IssuedInv
  <2>7. SelfSigned(m) = "ok"
    BY <2>6 DEF SelfSigned, Sealed, Then, Unless
  <2>8. ~NoChain(m, o) /\ ~Differs(m, o) /\ ChainOf(m, o) = Chain
    BY <2>1, <2>6 DEF NoChain, Differs, ChainOf, The, Sealed
  <2>9. a.type = "account" /\ a.sub \in AccountKeys /\ u.type = "user" /\ u.sub \in UserKeys
    BY <1>1, <2>2, <2>3 DEF MintedInv
  <2>10. Anchored(o, Chain) = "ok"
    <3>0. (Anchored(o, Chain) = "ok") <=>
            /\ Chain.account # {} /\ The(Chain.account).type = "account"
            /\ The(Chain.account).sub \in AccountKeys
            /\ IF anchor.anchor = "keyring"
               THEN Entries(o, The(Chain.account)) # {}
               ELSE /\ The(Chain.account).iss = anchor.root
                    /\ \A p \in anchor.policy : p.sub = anchor.root
      BY <2>1, <2>6, AnchoredFacts
    <3>1. CASE anchor.anchor = "keyring"
      <4>1. Entries(o, a) # {}
        BY <1>1, <2>1, <3>1 DEF Trusts, Entries
      <4> QED BY <2>4, <2>9, <3>0, <3>1, <4>1
    <3>2. CASE anchor.anchor # "keyring"
      <4>1. a.iss = anchor.root /\ \A p \in anchor.policy : p.sub = anchor.root
        BY <1>1, <3>2 DEF Trusts
      <4> QED BY <2>4, <2>9, <3>0, <3>2, <4>1
    <3> QED BY <3>1, <3>2
  <2>11. VerifyUser(Chain.user, a.sub) = "ok"
    BY <2>4, <2>5, <2>9, LevelFacts DEF VerifyUser
  <2>12. Policy(o, a) # {} => /\ Window(The(Policy(o, a)), clock) = "ok"
                              /\ m.epoch = The(Policy(o, a)).epoch
    <3>1. CASE anchor.anchor = "keyring"
      <4>1. PICK e \in anchor.entries : /\ e.sub = a.iss /\ e.epoch = a.epoch
                                        /\ Window(e, clock) = "ok"
        BY <1>1, <3>1 DEF Trusts
      <4>2. Entries(o, a) = {e}
        BY <2>1, <3>1, <4>1, AnchorFacts, EntriesFacts
      <4>3. Policy(o, a) = {e} /\ The({e}) = e
        BY <2>1, <3>1, <4>2 DEF Policy, The
      <4> QED BY <2>5, <4>1, <4>3
    <3>2. CASE anchor.anchor # "keyring"
      <4>1. Policy(o, a) = anchor.policy
        BY <2>1, <3>2 DEF Policy
      <4>2. Policy(o, a) # {} => The(Policy(o, a)) \in anchor.policy
        BY <4>1 DEF The
      <4> QED BY <1>1, <2>5, <3>2, <4>2 DEF Trusts
    <3> QED BY <3>1, <3>2
  <2>13. ASSUME NEW t \in Minteds PROVE Window(t.token, clock) = "ok"
    BY <1>1, AskedIsChecked DEF MintedInv
  <2>14. Window(a, clock) = "ok" /\ Window(u, clock) = "ok" /\ Window(m, clock) = "ok"
    BY <2>2, <2>3, <2>13 DEF Minteds
  <2>15. InDomain(m, a, u, Policy(o, a), clock) = "ok"
    BY <2>5, <2>12, <2>14, InDomainFacts
  <2>16. Bound(m, o) = "ok"
    BY <2>0 DEF Bound, With, Unbound, Then, Unless
  <2>17. VerifyMessage(m, o, clock) = "ok"
    BY <2>4, <2>5, <2>7, <2>8, <2>10, <2>11, <2>15, <2>16, AcceptedFacts
  <2> QED BY <2>0, <2>17 DEF Verdict
<1>2. IssuedInv /\ MintedInv => WhatWasAskedIsAccepted
  BY <1>1, Zenon DEF WhatWasAskedIsAccepted
<1> QED BY <1>2, IssuedInvariant, MintedInvariant, PTL
-----------------------------------------------------------------------------

(* A request's chain comes as far as its proof of possession when all that   *)
(* is asked of it holds.                                                     *)
LEMMA RequestFacts ==
  ASSUME NEW ch, NEW o, NEW now
  PROVE  (VerifyRequest(ch, o, now) = "ok") <=>
           LET a == The(ch.account)
               u == The(ch.user)
               policy == Policy(o, a)
           IN  /\ Anchored(o, ch) = "ok"
               /\ policy # {} => Window(The(policy), now) = "ok"
               /\ OfDomain(a, policy) /\ Window(a, now) = "ok"
               /\ VerifyUser(ch.user, a.sub) = "ok"
               /\ OfDomain(u, policy) /\ Window(u, now) = "ok"
BY ThenFacts DEF VerifyRequest, Unless

(* The request path and the message path judge a chain alike, but for the    *)
(* epochs where no operator policy is enforced (verifier.py:277-309,         *)
(* message.py:247-270).                                                      *)
THEOREM PathsAgreeHolds == Spec => []PathsAgree
<1>1. ASSUME IssuedInv, MintedInv, NEW m \in Tokens(message), NEW anchor \in Anchors,
             NEW o, o = With(anchor, {Chain}, Unbound, FALSE)
      PROVE  /\ VerifyMessage(m, o, clock) = "ok" <=>
                  /\ VerifyRequest(Chain, o, clock) = "ok"
                  /\ \A k \in Tokens(account) \cup Tokens(user) : k.epoch = m.epoch
                  /\ (\A u \in Tokens(user) : u.sub = m.iss) /\ Window(m, clock) = "ok"
             /\ VerifyRequest(Chain, o, clock) = "ok" =>
                  \/ anchor.anchor = "pinned" /\ anchor.policy = {}
                  \/ \A j, k \in Tokens(account) \cup Tokens(user) : j.epoch = k.epoch
  <2> DEFINE a == The(Chain.account)
             u == The(Chain.user)
             policy == Policy(o, a)
  <2>1. /\ o.anchor = anchor.anchor /\ o.root = anchor.root /\ o.policy = anchor.policy
        /\ o.entries = anchor.entries /\ o.chain = {Chain}
    BY <1>1 DEF With
  <2>2. Sealed(m) /\ operators \in OperatorSets
    BY <1>1 DEF IssuedInv
  <2>3. /\ SelfSigned(m) = "ok" /\ ~NoChain(m, o) /\ ~Differs(m, o) /\ ChainOf(m, o) = Chain
        /\ Bound(m, o) = "ok"
    <3>1. SelfSigned(m) = "ok"
      BY <2>2 DEF SelfSigned, Sealed, Then, Unless
    <3>2. ~NoChain(m, o) /\ ~Differs(m, o) /\ ChainOf(m, o) = Chain
      BY <2>1, <2>2 DEF NoChain, Differs, ChainOf, The, Sealed
    <3>3. Bound(m, o) = "ok"
      BY <1>1 DEF Bound, With, Unbound, Then, Unless
    <3> QED BY <3>1, <3>2, <3>3
  <2>4. VerifyMessage(m, o, clock) = "ok" <=>
          /\ Anchored(o, Chain) = "ok" /\ VerifyUser(Chain.user, a.sub) = "ok"
          /\ u.sub = m.iss /\ InDomain(m, a, u, policy, clock) = "ok"
    BY <2>3, AcceptedFacts
  <2>5. VerifyRequest(Chain, o, clock) = "ok" <=>
          /\ Anchored(o, Chain) = "ok"
          /\ policy # {} => Window(The(policy), clock) = "ok"
          /\ OfDomain(a, policy) /\ Window(a, clock) = "ok"
          /\ VerifyUser(Chain.user, a.sub) = "ok"
          /\ OfDomain(u, policy) /\ Window(u, clock) = "ok"
    BY RequestFacts
  <2>6. InDomain(m, a, u, policy, clock) = "ok" <=>
          /\ m.epoch = a.epoch /\ m.epoch = u.epoch
          /\ Window(a, clock) = "ok" /\ Window(u, clock) = "ok" /\ Window(m, clock) = "ok"
          /\ policy # {} => /\ Window(The(policy), clock) = "ok"
                            /\ m.epoch = The(policy).epoch
    BY InDomainFacts
  <2>7. ASSUME Anchored(o, Chain) = "ok", VerifyUser(Chain.user, a.sub) = "ok"
        PROVE  /\ Tokens(account) = {a} /\ Tokens(user) = {u}
               /\ policy = {} => anchor.anchor = "pinned" /\ anchor.policy = {}
    <3>1. Chain.account # {}
      BY <2>1, <2>2, <2>7, AnchoredFacts
    <3>2. Chain.user # {}
      BY <2>7, LevelFacts DEF VerifyUser
    <3>3. PICK ta \in account, tu \in user : TRUE
      BY <3>1, <3>2 DEF Chain, Tokens
    <3>4. Tokens(account) = {a} /\ Tokens(user) = {u}
      BY <1>1, <3>3, TheMinted DEF MintedInv, Chain
    <3>5. anchor.anchor = "keyring" => policy # {}
      BY <2>1, <2>2, <2>7, AnchoredFacts DEF Policy
    <3>6. anchor.anchor # "keyring" => anchor.anchor = "pinned" /\ policy = anchor.policy
      BY <2>1, AnchorFacts DEF Policy
    <3> QED BY <3>4, <3>5, <3>6
  <2> HIDE DEF a, u, policy
  <2>8. /\ OfDomain(a, policy) <=> (policy # {} => a.epoch = The(policy).epoch)
        /\ OfDomain(u, policy) <=> (policy # {} => u.epoch = The(policy).epoch)
    BY DEF OfDomain
  <2>9. ASSUME VerifyMessage(m, o, clock) = "ok"
        PROVE  /\ VerifyRequest(Chain, o, clock) = "ok"
               /\ \A k \in Tokens(account) \cup Tokens(user) : k.epoch = m.epoch
               /\ (\A k \in Tokens(user) : k.sub = m.iss) /\ Window(m, clock) = "ok"
    BY <2>4, <2>5, <2>6, <2>7, <2>8, <2>9
  <2>10. ASSUME VerifyRequest(Chain, o, clock) = "ok",
                \A k \in Tokens(account) \cup Tokens(user) : k.epoch = m.epoch,
                \A k \in Tokens(user) : k.sub = m.iss,
                Window(m, clock) = "ok"
         PROVE  VerifyMessage(m, o, clock) = "ok"
    BY <2>4, <2>5, <2>6, <2>7, <2>8, <2>10
  <2>11. ASSUME VerifyRequest(Chain, o, clock) = "ok",
                ~(anchor.anchor = "pinned" /\ anchor.policy = {}),
                NEW j \in Tokens(account) \cup Tokens(user),
                NEW k \in Tokens(account) \cup Tokens(user)
         PROVE  j.epoch = k.epoch
    BY <2>5, <2>7, <2>8, <2>11
  <2> QED BY <2>9, <2>10, <2>11
<1>2. IssuedInv /\ MintedInv => PathsAgree
  BY <1>1, Zenon DEF PathsAgree
<1> QED BY <1>2, IssuedInvariant, MintedInvariant, PTL

-----------------------------------------------------------------------------

(* The ends of a window as a token carries them are whole seconds.           *)
LEMMA InSecondsNat ==
  ASSUME NEW S \in SUBSET Nat
  PROVE  InSeconds(S) \in Nat
<1>1. CASE S = {}
  BY <1>1 DEF InSeconds
<1>2. CASE S # {}
  <2>1. PICK i \in S : InSeconds(S) = i \div Second
    BY <1>2 DEF InSeconds
  <2> QED BY <2>1, WholeSeconds
<1> QED BY <1>1, <1>2

(* What the issuers encode are claims.                                       *)
LEMMA EncodedClaims ==
  ASSUME NEW type, NEW iss \in Keys, NEW sub \in Keys, NEW epoch \in Epochs,
         NEW terms \in AllTerms, ValidTerms(terms), NEW now \in Nat
  PROVE  Encoded(type, iss, sub, epoch, terms, now) \in Claims(type)
<1>1. /\ terms.ttl \subseteq Int /\ terms.expiry \subseteq Nat /\ terms.not_before \subseteq Nat
  BY TermsAssumption DEF AllTerms, Terms
<1>2. Until(terms, now) \subseteq Nat
  BY <1>1 DEF Until, ValidTerms
<1>3. Expires(terms, now) \in Nat /\ InSeconds(terms.not_before) \in Nat
  BY <1>1, <1>2, InSecondsNat DEF Expires
<1> QED BY <1>3 DEF Encoded, Claims

\* The part of the type invariant that the issued and minted tokens do not give.
ClaimsInv ==
  /\ clock \in Second .. MaxTime
  /\ Tokens(account) \subseteq Claims("account")
  /\ Tokens(user) \subseteq Claims("user")
  /\ \A m \in Tokens(message) : m.exp \in Nat \ {0}

(* Type correctness: tokens carry claims of their level in whole seconds,    *)
(* and a message has an expiry, a user's key and its own chain or none       *)
(* (message.py:82-136).                                                      *)
THEOREM TypeCorrect == Spec => []TypeOK
<1>1. Init => ClaimsInv
  BY TimeAssumption DEF Init, ClaimsInv, Tokens
<1>2. ClaimsInv /\ [Next]_vars => ClaimsInv'
  <2> SUFFICES ASSUME ClaimsInv, [Next]_vars PROVE ClaimsInv'
    OBVIOUS
  <2>0. clock \in Nat
    BY TimeAssumption DEF ClaimsInv
  <2>1. ASSUME NEW epoch \in Epochs, NEW o \in OperatorKeys, NEW k \in AccountKeys,
               NEW terms \in AccountTerms, IssueAccount(o, k, epoch, terms)
        PROVE  ClaimsInv'
    <3>1. Encoded("account", o, k, epoch, terms, clock) \in Claims("account")
      BY <2>0, <2>1, EncodedClaims DEF IssueAccount, Keys, AllTerms
    <3> QED BY <2>1, <3>1 DEF IssueAccount, ClaimsInv, Tokens, Minted
  <2>2. ASSUME NEW epoch \in Epochs, NEW a \in AccountKeys, NEW k \in UserKeys,
               NEW terms \in UserTerms, IssueUser(a, k, epoch, terms)
        PROVE  ClaimsInv'
    <3>1. Encoded("user", a, k, epoch, terms, clock) \in Claims("user")
      BY <2>0, <2>2, EncodedClaims DEF IssueUser, Keys, AllTerms
    <3> QED BY <2>2, <3>1 DEF IssueUser, ClaimsInv, Tokens, Minted
  <2>3. ASSUME NEW epoch \in Epochs, NEW k \in UserKeys, NEW terms \in MessageTerms,
               NEW binding \in Bindings, NEW embed \in BOOLEAN,
               IssueMessage(k, epoch, terms, binding, embed)
        PROVE  ClaimsInv'
    <3>0. PICK new : new = MessageOf(k, epoch, terms, binding, embed)
      OBVIOUS
    <3>1. Encoded("message", k, k, epoch, terms, clock) \in Claims("message")
      BY <2>0, <2>3, EncodedClaims DEF IssueMessage, Keys, AllTerms
    <3>2. new.exp = Expires(terms, clock)
      BY <3>0 DEF MessageOf, Encoded
    <3>3. new.exp \in Nat \ {0}
      BY <2>3, <3>1, <3>2 DEF IssueMessage, Claims, Encoded
    <3>4. Tokens(message)' = {new}
      BY <2>3, <3>0 DEF IssueMessage, Tokens, Minted
    <3> QED BY <2>3, <3>3, <3>4 DEF IssueMessage, ClaimsInv, Tokens
  <2>4. CASE Tick
    BY <2>4, TimeAssumption DEF Tick, ClaimsInv, Tokens
  <2>5. CASE UNCHANGED vars
    BY <2>5 DEF vars, ClaimsInv, Tokens
  <2> QED BY <2>1, <2>2, <2>3, <2>4, <2>5 DEF Next
<1>3. ClaimsInv /\ IssuedInv => TypeOK
  BY DEF ClaimsInv, IssuedInv, Sealed, TypeOK
<1> QED BY <1>1, <1>2, <1>3, IssuedInvariant, PTL DEF Spec
=============================================================================
