---------------------------- MODULE MessageToken ----------------------------
(***************************************************************************)
(* Message tokens (message.py): an operator's tenant, its user and the     *)
(* user's message are issued one after the other while time passes, and a  *)
(* receiver may at any moment run verify_message with any options, or take *)
(* the chain that comes with a request to Verifier.verify.                 *)
(*                                                                         *)
(* Issuing asks for a window in the issuer's time, which is finer than the *)
(* whole seconds a token carries; the model's clock counts ticks, Second   *)
(* of them to a second.  An optional value is a set of at most one         *)
(* element.  A token is the claims of a wire string whose own signature    *)
(* verifies, and an empty set where the string does not decode.            *)
(***************************************************************************)
EXTENDS Integers

CONSTANTS
  Second,         \* ticks per second
  Skew,           \* verify_message(skew=...), in ticks
  OperatorKeys, AccountKeys, UserKeys,
  Epochs,
  OperatorSets,   \* the operator tokens that exist, a choice of sets
  AccountTerms, UserTerms, MessageTerms,    \* validity arguments of the issuers
  Bindings,       \* what a message may be bound to: an audience and a checksum
  MaxTime         \* bound on the clock

Keys == OperatorKeys \cup AccountKeys \cup UserKeys
\* The validity arguments of an issuer.
Terms == [ttl : SUBSET Int, expiry : SUBSET Nat, not_before : SUBSET Nat]

AtMostOne(S) == \A i, j \in S : i = j

\* The claims all levels share (token._Decoded), the times in seconds, 0 for none.
Claims(type) == [type : {type}, iss : Keys, sub : Keys, epoch : Epochs, exp : Nat, nbf : Nat]

-----------------------------------------------------------------------------
(* Issuing. *)

\* _validity: not both a ttl and an expiry, and no ttl that is not positive.
ValidTerms(terms) == /\ terms.ttl = {} \/ terms.expiry = {}
                     /\ \A d \in terms.ttl : d > 0

\* The instants the arguments ask for.
Until(terms, now) == {now + d : d \in terms.ttl} \cup terms.expiry

InSeconds(instants) ==
  IF instants = {} THEN 0 ELSE (CHOOSE i \in instants : TRUE) \div Second

\* Mutant of Expires: the expiry is rounded up.
ExpiresCeil(terms, now) ==
  InSeconds({i + Second - 1 : i \in Until(terms, now)})

\* What the token carries of them: int() drops the part of a second.
Expires(terms, now) == InSeconds(Until(terms, now))

\* A token with the window it was asked for.
Minted(token, terms, now) ==
  [token |-> token, from |-> terms.not_before, until |-> Until(terms, now)]

\* _encode_v1 of the fields every issuer passes.
Encoded(type, iss, sub, epoch, terms, now) ==
  [type |-> type, iss |-> iss, sub |-> sub, epoch |-> epoch,
   exp |-> Expires(terms, now), nbf |-> InSeconds(terms.not_before)]

-----------------------------------------------------------------------------
(* Verifying.  A check gives "ok" or the reason it fails for. *)

Unless(holds, reason) == IF holds THEN "ok" ELSE reason
Then(first, second) == IF first # "ok" THEN first ELSE second

The(S) == CHOOSE x \in S : TRUE

\* Mutant of Expired: no slack for the skew.
ExpiredSharp(k, now) == k.exp # 0 /\ now > k.exp * Second

Expired(k, now) == k.exp # 0 /\ now - Skew > k.exp * Second
NotYetValid(k, now) == k.nbf # 0 /\ now + Skew < k.nbf * Second
Window(k, now) == Then(Unless(~Expired(k, now), "expired"),
                       Unless(~NotYetValid(k, now), "not_yet_valid"))

\* _decode_token: the string has a known version, claims of the right shape and a
\* signature of the issuer they name.
Decodes(tokens) == tokens # {}

\* verify_operator, verify_account and verify_user are this check with the type
\* and the role of the subject; an operator token is its own subject.
Level(tokens, type, issuer, role) ==
  IF ~Decodes(tokens) THEN "malformed"
  ELSE LET k == The(tokens)
       IN  Then(Unless(k.type = type, "wrong_type"),
           Then(Unless(k.iss = issuer, "wrong_issuer"),
                Unless(k.sub \in role, "wrong_subject_role")))

VerifyOperator(tokens, key) ==
  Then(Level(tokens, "operator", key, OperatorKeys),
       Unless(The(tokens).sub = key, "wrong_issuer"))
VerifyAccount(tokens, key) == Level(tokens, "account", key, AccountKeys)
VerifyUser(tokens, key) == Level(tokens, "user", key, UserKeys)

\* The token presented as a message token.
SelfSigned(m) == Then(Unless(m.type = "message", "wrong_type"),
                 Then(Unless(m.iss = m.sub, "wrong_issuer"),
                      Unless(m.sub \in UserKeys, "wrong_subject_role")))

\* Mutant of NoChain: only an embedded chain counts.
NoChainEmbedded(m, o) == m.chain = {}

NoChain(m, o) == m.chain = {} /\ o.chain = {}

\* The chain to walk: the supplied one, or the embedded one, which must be the
\* supplied one when there are both.
Differs(m, o) == m.chain # {} /\ o.chain # {} /\ m.chain # o.chain
ChainOf(m, o) == The(IF m.chain = {} THEN o.chain ELSE m.chain)

\* Mutant of Entries: the keyring entry is found by its key alone.
EntriesOfKey(o, a) == {e \in o.entries : e.sub = a.iss}

\* Keyring.get of the pair an account token names.
Entries(o, a) == {e \in o.entries : e.sub = a.iss /\ e.epoch = a.epoch}

\* The operator policy that is enforced on an account token that verified.
Policy(o, a) == IF o.anchor = "keyring" THEN Entries(o, a) ELSE o.policy

Anchored(o, ch) ==
  IF o.anchor = "keyring"
  THEN Then(Unless(Decodes(ch.account), "malformed"),
       Then(VerifyAccount(ch.account, The(ch.account).iss),
            Unless(Entries(o, The(ch.account)) # {}, "unknown_operator")))
  ELSE Then(VerifyAccount(ch.account, o.root),
            IF o.policy = {} THEN "ok" ELSE VerifyOperator(o.policy, o.root))

Epoch(m, k) == Unless(m.epoch = k.epoch, "epoch_mismatch")

\* Operator window and epoch, the other epochs, then the other windows.
InDomain(m, a, u, policy, now) ==
  Then(IF policy = {} THEN "ok" ELSE Then(Window(The(policy), now), Epoch(m, The(policy))),
  Then(Epoch(m, a),
  Then(Epoch(m, u),
  Then(Window(a, now),
  Then(Window(u, now), Window(m, now))))))

Bound(m, o) ==
  Then(Unless(o.audience \subseteq m.audience, "wrong_audience"),
  Then(Unless((o.payload # {} \/ o.checksum) => m.checksum # {}, "checksum_missing"),
       Unless(o.payload \subseteq m.checksum, "checksum_mismatch")))

\* verify_message(m, **o) at instant now.
VerifyMessage(m, o, now) ==
  Then(SelfSigned(m),
  Then(Unless(~NoChain(m, o), "no_chain"),
  Then(Unless(~Differs(m, o), "chain_mismatch"),
  LET ch == ChainOf(m, o)
      a  == The(ch.account)
      u  == The(ch.user)
  IN  Then(Anchored(o, ch),
      Then(VerifyUser(ch.user, a.sub),
      Then(Unless(u.sub = m.iss, "chain_user_mismatch"),
      Then(InDomain(m, a, u, Policy(o, a), now), Bound(m, o))))))))

\* Mutant of OfDomain: only a token of an older epoch is refused.
OfDomainOrLater(k, policy) ==
  policy = {} \/ k.epoch >= The(policy).epoch

\* A request's tokens are held to the operator's epoch, where one is enforced.
OfDomain(k, policy) == policy = {} \/ k.epoch = The(policy).epoch

\* What Verifier.verify, with the same anchor, makes of a chain that comes with a
\* request, up to its allowlist and the proof of possession.
VerifyRequest(ch, o, now) ==
  LET a == The(ch.account)
      u == The(ch.user)
      policy == Policy(o, a)
  IN  Then(Anchored(o, ch),
      Then(IF policy = {} THEN "ok" ELSE Window(The(policy), now),
      Then(Unless(OfDomain(a, policy), "epoch_mismatch"),
      Then(Window(a, now),
      Then(VerifyUser(ch.user, a.sub),
      Then(Unless(OfDomain(u, policy), "epoch_mismatch"), Window(u, now)))))))

-----------------------------------------------------------------------------
VARIABLES
  clock,
  operators,     \* the operator tokens, as they are
  account, user, message    \* the tokens issued, with the windows asked for

vars == <<clock, operators, account, user, message>>

ASSUME TimeAssumption ==
  Second \in Nat \ {0} /\ Skew \in Nat /\ MaxTime \in Nat /\ Second <= MaxTime
ASSUME OperatorAssumption ==
  \A S \in OperatorSets : \A o \in S :
    o \in Claims("operator") /\ o.iss = o.sub /\ o.sub \in OperatorKeys

ASSUME TermsAssumption ==
  \A terms \in AccountTerms \cup UserTerms \cup MessageTerms :
    /\ terms \in Terms
    /\ AtMostOne(terms.ttl) /\ AtMostOne(terms.expiry) /\ AtMostOne(terms.not_before)

Tokens(minted) == {t.token : t \in minted}

Chain == [account |-> Tokens(account), user |-> Tokens(user)]

TypeOK ==
  /\ clock \in Second .. MaxTime
  /\ operators \in OperatorSets
  /\ Tokens(account) \subseteq Claims("account")
  /\ Tokens(user) \subseteq Claims("user")
  /\ \A m \in Tokens(message) : /\ m.type = "message" /\ m.exp \in Nat \ {0}
                                /\ m.iss \in UserKeys /\ m.chain \subseteq {Chain}

Init ==
  /\ clock = Second
  /\ operators \in OperatorSets
  /\ account = {} /\ user = {} /\ message = {}

IssueAccount(operator, key, epoch, terms) ==
  /\ account = {} /\ ValidTerms(terms)
  /\ account' = {Minted(Encoded("account", operator, key, epoch, terms, clock), terms, clock)}
  /\ UNCHANGED <<clock, operators, user, message>>

IssueUser(issuer, key, epoch, terms) ==
  /\ user = {} /\ ValidTerms(terms)
  /\ user' = {Minted(Encoded("user", issuer, key, epoch, terms, clock), terms, clock)}
  /\ UNCHANGED <<clock, operators, account, message>>

\* Mutant of CheckChain: the user token is checked for itself, not under the account.
CheckChainApart(ch, key) ==
  /\ Decodes(ch.account) /\ VerifyAccount(ch.account, The(ch.account).iss) = "ok"
  /\ Decodes(ch.user) /\ VerifyUser(ch.user, The(ch.user).iss) = "ok"
  /\ The(ch.user).sub = key

\* _check_chain: the chain is sound in itself and the minting key's.
CheckChain(ch, key) ==
  /\ Decodes(ch.account) /\ VerifyAccount(ch.account, The(ch.account).iss) = "ok"
  /\ VerifyUser(ch.user, The(ch.account).sub) = "ok"
  /\ The(ch.user).sub = key

\* The token issue_message encodes.
MessageOf(key, epoch, terms, binding, embed) ==
  LET base == Encoded("message", key, key, epoch, terms, clock)
  IN  [type |-> base.type, iss |-> key, sub |-> key, epoch |-> epoch,
       exp |-> base.exp, nbf |-> base.nbf, audience |-> binding.audience,
       checksum |-> binding.checksum, chain |-> IF embed THEN {Chain} ELSE {}]

\* Mutant of IssueMessage: an expiry is not insisted on.
IssueMessageUnlimited(key, epoch, terms, binding, embed) ==
  /\ message = {}
  /\ ValidTerms(terms)
  /\ embed => CheckChain(Chain, key)
  /\ message' = {Minted(MessageOf(key, epoch, terms, binding, embed), terms, clock)}
  /\ UNCHANGED <<clock, operators, account, user>>

\* issue_message: with an expiry, and with the chain embedded or without.
IssueMessage(key, epoch, terms, binding, embed) ==
  /\ message = {}
  /\ ValidTerms(terms) /\ Expires(terms, clock) # 0
  /\ embed => CheckChain(Chain, key)
  /\ message' = {Minted(MessageOf(key, epoch, terms, binding, embed), terms, clock)}
  /\ UNCHANGED <<clock, operators, account, user>>

Tick == clock < MaxTime /\ clock' = clock + 1 /\ UNCHANGED <<operators, account, user, message>>

Optional(S) == {{}} \cup {{x} : x \in S}

Next ==
  \/ Tick
  \/ \E epoch \in Epochs :
       \/ \E o \in OperatorKeys, k \in AccountKeys, terms \in AccountTerms :
            IssueAccount(o, k, epoch, terms)
       \/ \E a \in AccountKeys, k \in UserKeys, terms \in UserTerms :
            IssueUser(a, k, epoch, terms)
       \/ \E k \in UserKeys, terms \in MessageTerms, binding \in Bindings, embed \in BOOLEAN :
            IssueMessage(k, epoch, terms, binding, embed)

Spec == Init /\ [][Next]_vars

-----------------------------------------------------------------------------
(* What the receiver may rely on. *)

\* The trust anchors a receiver can be configured with.
Pinned(root, policy) ==
  [anchor |-> "pinned", root |-> root, policy |-> policy, entries |-> {}]
Keyring(entries) ==
  [anchor |-> "keyring", root |-> "none", policy |-> {}, entries |-> entries]

OneEach(S) == \A p, q \in S : (p.sub = q.sub /\ p.epoch = q.epoch) => p = q
Anchors == {Pinned(root, policy) : root \in OperatorKeys, policy \in Optional(operators)}
           \cup {Keyring(S) : S \in {T \in SUBSET operators : T # {} /\ OneEach(T)}}

Unbound == [audience |-> {}, checksum |-> {}]
With(anchor, chain, binding, required) ==
  [anchor |-> anchor.anchor, root |-> anchor.root, policy |-> anchor.policy,
   entries |-> anchor.entries, chain |-> chain, audience |-> binding.audience,
   payload |-> binding.checksum, checksum |-> required]
Verdict(m, anchor, chain) == VerifyMessage(m, With(anchor, chain, Unbound, FALSE), clock)

\* The chain of the emitter, no chain, and headers that got mixed up or lost.
Supplies == {{}, {Chain}, {[account |-> Chain.user, user |-> Chain.account]},
             {[account |-> Chain.account, user |-> {}]}}

\* Somewhere in the receiver's trust, taken alone, stands the operator of account
\* token a; no keyring and no order of checks here.
Trusts(anchor, a) ==
  IF anchor.anchor = "keyring"
  THEN \E e \in anchor.entries : /\ e.sub = a.iss /\ e.epoch = a.epoch
                                 /\ Window(e, clock) = "ok"
  ELSE /\ a.iss = anchor.root
       /\ \A p \in anchor.policy : /\ p.sub = a.iss /\ p.epoch = a.epoch
                                   /\ Window(p, clock) = "ok"

\* The tokens issued form one chain in one epoch, down to the message's signer.
Linked == \A a \in Tokens(account), u \in Tokens(user), m \in Tokens(message) :
  u.iss = a.sub /\ m.iss = u.sub /\ a.epoch = m.epoch /\ u.epoch = m.epoch

Minteds == account \cup user \cup message
Complete == account # {} /\ user # {} /\ message # {}

\* An expiry in the first second of 1970, encoded like none (token.py:352-353).
ForgottenExpiry(i) == i < Second

\* Nothing outlives what was asked for: an accepted message has a whole chain in
\* one epoch under a trusted operator, and its three windows, as they were asked
\* for and not as the tokens round them, hold the moment of the verification but
\* for the skew and, at their beginning, a part of a second.  Only an account or user
\* token asked for with an expiry in the first second of 1970 never ends; a message
\* cannot be issued with one (message.py:115-117, 139-311).
NeverBeyondWhatWasAsked ==
  \A m \in Tokens(message), anchor \in Anchors, ch \in Supplies :
    Verdict(m, anchor, ch) = "ok" =>
      /\ Complete /\ Linked
      /\ \A a \in Tokens(account) : Trusts(anchor, a)
      /\ \A t \in Minteds :
           /\ \A i \in t.until : \/ clock <= i + Skew
                                 \/ ForgottenExpiry(i) /\ t \notin message
           /\ \A i \in t.from : clock + Skew > i - Second

\* Nothing that was asked for is lost to the rounding, once the skew is a second
\* (token.py:313-326 against 244-254).
WhatWasAskedIsAccepted ==
  (Complete /\ Linked /\ Skew >= Second
   /\ \A t \in Minteds : /\ \A i \in t.until : clock <= i
                         /\ \A i \in t.from : clock >= i)
  => \A m \in Tokens(message), a \in Tokens(account), anchor \in Anchors :
       Trusts(anchor, a) => Verdict(m, anchor, {Chain}) = "ok"

\* A chain in the headers is as good as the same chain in the token, reason for
\* reason, with or without bindings that are asked for (message.py:168-170).
EmbeddingChangesNothing ==
  \A m \in Tokens(message), anchor \in Anchors, ch \in Supplies \ {{}} :
    \A binding \in Bindings, required \in BOOLEAN :
      LET Asked(c) == With(anchor, c, binding, required)
      IN  VerifyMessage([m EXCEPT !.chain = ch], Asked({}), clock)
            = VerifyMessage([m EXCEPT !.chain = {}], Asked(ch), clock)

\* A keyring trusts what its entries, each taken alone as the pinned operator with
\* its policy, trust: exactly one of them accepts (message.py:153-155).
KeyringIsItsEntries ==
  \A m \in Tokens(message), anchor \in Anchors, ch \in Supplies :
    anchor.anchor = "keyring" =>
      LET alone == {e \in anchor.entries : Verdict(m, Pinned(e.sub, {e}), ch) = "ok"}
      IN  /\ Verdict(m, anchor, ch) = "ok" <=> alone # {}
          /\ \A d, e \in alone : d = e

\* The request path and the message path judge a chain alike: a message is accepted
\* exactly when a request with its chain would come as far as its proof of possession,
\* and the message is its user's, current and of one epoch with the chain.  They
\* differ where no operator policy is enforced: there a request's tokens may be of
\* different epochs (verifier.py:277-309, message.py:247-270).
PathsAgree ==
  \A m \in Tokens(message), anchor \in Anchors :
    LET o == With(anchor, {Chain}, Unbound, FALSE)
        requests == VerifyRequest(Chain, o, clock) = "ok"
        alike == \A k \in Tokens(account) \cup Tokens(user) : k.epoch = m.epoch
        own == (\A u \in Tokens(user) : u.sub = m.iss) /\ Window(m, clock) = "ok"
    IN  /\ VerifyMessage(m, o, clock) = "ok" <=> requests /\ alike /\ own
        /\ requests => \/ anchor.anchor = "pinned" /\ anchor.policy = {}
                       \/ \A j, k \in Tokens(account) \cup Tokens(user) : j.epoch = k.epoch

\* The anchor is for the operator of account token a, whatever the windows.
Names(anchor, a) ==
  IF anchor.anchor = "keyring"
  THEN \E e \in anchor.entries : e.sub = a.iss /\ e.epoch = a.epoch
  ELSE a.iss = anchor.root /\ \A p \in anchor.policy : p.sub = anchor.root

\* Minting checks what it can: a receiver who trusts the operator of an embedded chain
\* refuses it for an epoch or a window and never for its links, and any other receiver
\* refuses it for its operator (message.py:70-80).
EmbeddedChainIsSound ==
  \A m \in Tokens(message), anchor \in Anchors : m.chain # {} =>
    \E a \in Tokens(account) : Verdict(m, anchor, {}) \in
      IF Names(anchor, a) THEN {"ok", "epoch_mismatch", "expired", "not_yet_valid"}
      ELSE {"wrong_issuer", "unknown_operator"}
=============================================================================
