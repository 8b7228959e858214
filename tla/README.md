# valiss-py in TLA+

valiss is a three-level (four with message tokens) credential scheme: an operator
key signs account tokens, an account key signs user tokens, a user key signs requests
or single messages. This directory holds TLA+ models of the Python package
`src/valiss`, TLC configurations that check them on small instances, and proofs
(TLAPS) of the properties that matter most for every instance. File names and line
numbers below are those of `src/valiss` at the modelled commit. `PROJECT.json` maps
every definition to the lines it translates.

## 1. The system

| Component | State it keeps | Operations | Hard behaviour |
|---|---|---|---|
| Replay cache, `replay.py` | nonce -> expiry, a lock | `seen_before` | the clock is read before the lock is taken; entries are pruned with that stale value; the expiry comes from another, older clock read in `verify`; a restart forgets everything |
| Request verifier, `verifier.py` | configuration; two hook lists that grow while in use | `verify`, `validator`, `extension`, `require_extension` | reads clock, allowlist, replay cache and hook lists one after the other while others change them |
| Keyring, `keyring.py` | three indexes over operator tokens | constructor, `get` | the verdict on a list must not depend on its order or repetitions |
| Allowlist, `allowlist.py` | a reference to a set of token ids | `add`, `discard`, `replace`, `__contains__` | edits load the reference and then change the set, lookups load it and then search; either may be overtaken by a `replace` |
| Chain cache, `chain.py` | ordered dict user key -> chain, capacity, lock | `get`, `put`, `delete` | least-recently-used order, eviction at capacity |
| Chain negotiation, `_msgtransport.py` | none of its own; shares the chain cache between threads | `authenticate_message` | looks up, verifies and stores in separate steps; a failure must be attributed to the cache or to the message |
| Message transports, `httpsig/`, `grpcsig/` | the chain a transport was built with | send, retransmit once | lost answers, renewals, a token that expires between its two transmissions |
| Message tokens, `message.py` | none | `issue_message`, `verify_message` | chain embedded or beside the token, pinned operator or keyring, windows and epochs of four levels |
| Token primitives, `token.py` | none | mint and verify functions, `verify_signature` | windows are cut to whole seconds and widened by a skew |
| Auth transports, `httpauth/`, `grpcauth/` | per worker, the identity in request state or a ContextVar | the client hooks, `authenticate`, refusal, setting and resetting the identity | client and server derive the signed bytes apart; the ContextVar of a streaming handler; repeated and rerouted requests |
| Transport extensions, `*/extension.py` | none | payload, decoding, `authorizes`, `authorize_ext`, `covered` | a user token must only narrow its account's grant; empty, missing and malformed are three different things |
| Creds files, `creds.py` | none | `format`, `parse` | files cut while they are written or copied, other versions |
| Key pairs, `nkeys.py`; helpers, `_requests.py`, `errors.py` | none | pure conversions | - |

How they interact: a client loads its creds and its hook signs each request; an auth
transport turns a request into a `Request`, calls `Verifier.verify` in its own thread,
then `authorize_ext`, and runs the handler with the identity at hand; `verify` calls the token primitives, the keyring,
the allowlist (a shared object others edit), the replay cache (shared by all threads)
and the application's hooks. A message transport mints a token with `issue_message`;
the receiving middleware calls `authenticate_message`, which calls `verify_message`
once or twice and the chain cache before and after. A receiver without the chain
answers *chain required*, and a negotiating emitter sends the same token once more with
its chain beside it.

What makes each correct:

* replay cache: one process lets a signed request through once, loses no request and
  keeps a nonce no longer than it promises;
* verifier: hooks and handlers only see requests whose whole chain stands at one instant
  in one trusted domain, a revocation takes effect, no registered hook is skipped, a
  refusal has a cause, every call returns;
* keyring: it is built from exactly the consistent lists, and (key, epoch) selects one
  entry;
* chain cache: it is LRU; negotiation: a cache never makes a good message fail, the
  chain is asked for at most once, and the exchange settles on one transmission;
* message tokens: accepted in the window that was asked for, whatever the rounding, and
  the same whichever way chain and trust are supplied;
* auth transports: a handler runs only for the holder who asked, within what the issuers
  of both its tokens allow, at most once per asking where nonces are required, under an
  identity no other request sees, and every refusal has a cause.

## 2. The modules

| Module | What it is |
|---|---|
| `AtMostOnce` | abstract: what replay suppression promises per process incarnation |
| `ReplayGuard` | the verifier threads in front of the replay cache; implements `AtMostOnce` |
| `ReplayGuardProofs` | its theorems |
| `ChainCache` | the three methods of the chain cache as operators on a sequence |
| `LeastRecentlyUsed` | abstract: a bounded table that loses the key unused longest |
| `ChainCacheLRU` | the cache alone under any calls, with the history that defines "least recently used"; implements `LeastRecentlyUsed` |
| `SequenceRemovals` | what `RemoveAt` and `Tail` leave of a sequence, lemmas for both cache proofs |
| `ChainCacheProofs` | lemmas about the operators, theorems about `ChainCacheLRU` |
| `ChainExchange` | abstract: what the exchange of a message promises its two ends |
| `ChainNegotiation` | emitters, receiver threads and the cache they share; extends `ChainCache`, implements `ChainExchange` |
| `ChainNegotiationProofs` | its theorems |
| `Allowlist` | the reference, the set objects it has named, and edits that are halfway |
| `Verifier` | concurrent calls of `verify`, hook registration; extends `Allowlist` |
| `VerifierProofs` | the theorems of the two |
| `Keyring`, `KeyringProofs` | the constructor's loop; its theorems |
| `MessageToken`, `MessageTokenProofs` | issuing and verifying message tokens, check by check; its theorems |
| `TransportExt` | pure: the extensions of both schemes, from what is asked for to the decision |
| `CredsFile` | pure: `format`, `parse` and the section scanner on lines |
| `GuardedService` | abstract: what the auth transports promise to the application |
| `AuthTransport` | clients, network and server workers, over `TransportExt` and `CredsFile`; implements `GuardedService` |
| `AuthTransportProofs` | the theorems of the four |
| `MC*` | instances for TLC |

Conventions: an optional value is a set of at most one element, or the model value
`None`; an operator whose comment says "mutant of X" is a plausible bug in X and is used
by no specification; `since`, `spent`, `verified`, `lastUse`, `stored`, `admitted` and
the windows beside the tokens in `MessageToken` are history variables that no guard of
modelled code reads; so is `started` of `AuthTransport`.

### ReplayGuard

One action per point where a thread can be overtaken. `Receive` is the entry into
`verify` and its clock read (verifier.py:275); `RejectSkew`/`PassSignature` are
`verify_signature`'s window (token.py:797-801); `ReadCacheClock` is `now = self._now()`
before the lock (replay.py:50); `RejectReplay`/`Admit` are the critical section with its
prune (replay.py:51-59). `Restart` loses the cache. A delivery may be a duplicate at any
time. The environment has two measured bounds: `MaxLead`, how far a timestamp may be in
the future when its request arrives, and `MaxStall`, how long a thread may take between
its clock read and the end of the critical section.

### Allowlist and Verifier

A call is cut where it touches something shared: `Anchor` (the clock read after the
account token is anchored), `PassDomain` (the windows, and the load of the allowlist's
reference), `PassAllowlist` (the search of the set that was loaded), `Possess` (user
token, signature or bearer waiver, replay cache), `CheckExtension` and `RunValidator`
(one turn each of the two loops over live lists), `Accept`. Each has the rejections of
its stretch beside it. Around the calls run `Tick`, the administrators'
`Load`/`Change` of an `add` or `discard` and `Swap` of a `replace`, `RequireExtension`
and `RegisterValidator`. Both kinds of verifier (pinned root with or without an operator
token, keyring) and the resolver are part of the configuration chosen in `Init`; the
root is any key, as the constructor takes any string. `HooksSeeOnlyEntitled` fixes the
order of `verify` as well: by the time a hook sees a signed request its nonce is spent
(verifier.py:327-342), so the retry of a request that a hook refused is a replay. The
replay check is one step here and two in `ReplayGuard`; the two modules share the code
they model and not the definitions.

### ChainNegotiation

`Send`, `Retransmit`, `Conclude` and `LoseAnswer` are the emitter; `LookUp`,
`VerifyPasses`, `VerifySuspectsCache`, `VerifyFails`, `AttributeToCache`,
`AttributeToMessage`, `Evict` and `Store` are `authenticate_message`, each access of the
cache a step of its own. `Renew`, `Expire` and `TokenExpires` are what time does to
chains and tokens. A transport keeps the chain it was built with (`own`), so calls of an
old transport run beside those of a new one. What is set up once (the chains there are,
the pin, the capacity) is the variable `deployment`. `verify_message` is reduced to
`ReasonOf`, the first failing check, in the order of `MessageToken!VerifyMessage`. A
message may have one of three faults, which differ in where they show: `garbled` does not
decode, and never reaches the cache; `token` decodes and fails the checks that precede
the chain (type, self-signature, role), after its look-up has touched the cache's order
(`LookUp`, _msgtransport.py:117-121); `payload` is a wrong checksum, audience or window,
which only a run with a good chain finds.

`ChainExchange` knows no cache. An exchange is open, then accepted, refused or asked for
its chain, and asked at most once; `Exchange` reads that off a call. Its `Accept` needs
a chain that verifies at that moment and is pinned, shown, or known from an accepted
exchange; its `Refuse` a cause in the message, in the chain shown or in the pin. Lookups,
suspicion, attribution, evictions and stores are stutters.

### ChainCacheLRU

`get`, `put` and `delete` under any keys, with `lastUse` and `stored` as history.
`LeastRecentlyUsed` is a function from the keys held to their value and their last use,
beside what was put last for every key; `Table` reads the function off the ordered dict,
whose order the abstract specification does not have.

### MessageToken

`IssueAccount`, `IssueUser` and `IssueMessage` mint one chain and one message at any
moments; the clock counts half seconds, tokens carry whole seconds. `VerifyMessage` is
the code's sequence of checks, with its reasons, as nested `Then`s; the invariants apply
it at every moment with every anchor and every way of supplying the chain.
`VerifyRequest` is what `Verifier.verify` makes of the same chain, so that the two paths
of verification can be compared. `EmbeddedChainIsSound` says what `_check_chain` is worth
to a receiver: one whose anchor is for the operator of the chain (`Names`) refuses it for
an epoch or a window and never for its links, any other refuses it for its operator.

### Keyring

The loop of the constructor, one token a step, with its three indexes, against
`Consistent`, one symmetric relation on the set of tokens. A token's id is what the wire
says (`verify_operator` does not compute it again), so different tokens may share one: the
constructor then keeps the first and drops the later ones unlooked at (keyring.py:43).
The properties say so with `Firsts`, the first token of every id, and speak of all tokens
where an id names one content (`IdsAreContent`), as the ids do that this library computes.

### AuthTransport

A holder loads its creds from what may be left of the file they were saved in
(`Loads`): the file as `format` writes it, without a version line or with another
version, cut after any line or inside one, as far as `parse` and the seed's decoder
accept it. `Send` is one request through a hook: `credential_headers` called directly,
the httpx auth, the requests auth or the gRPC plugin, which differ in the operation they
sign (`SignedOp`). `SendBare` is a client without creds, or a websocket. `net` keeps
every request for good: `Take` delivers any of them any number of times, for any
operation a gateway may make of it. A worker then goes through `RefuseUnverified`,
`RefuseNonce` or `Verify` (the possession check over what the server derives, and the
nonce), `Forbid` or `Enter` (`authorize_ext`, then the identity is set), the handler,
and `Leave` (the reset, at whatever ending); by the time `Forbid` answers 403 the nonce
is spent, which `RefusalExplained` insists on; `PassThrough` is what a server does not
look at: ASGI scopes that are not http, and gRPC methods nobody implements. A text is a
sequence of symbols, so that a prefix pattern is a prefix and an escaped space is
another symbol than a space.

`GuardedService` has three actions: someone asks, a worker serves an asking, a worker
finishes. Its policy is what the issuers asked for, computed from the patterns
themselves (`Within`) and not from payloads and decoders. A bearer signs nothing, and
its operation may be changed on the way: the abstract service holds a bearer to its
grant only.

## 3. The runs

| Run | Instance | What it shows |
|---|---|---|
| `replay_guard` | 2 threads, 2 requests, skew 3, lead 1, stall 1, clock to 9, 1 restart, fair threads | `AtMostOncePerBoot`, `ReplayJustified`, `RetentionBounded`, `NonceHeldUntilExpiry`; the refinement of `AtMostOnce`; `DeliveredIsAdmitted` |
| `replay_boundary` | lead = skew, no stall | expected violation, see findings |
| `chain_cache` | 3 keys, 2 chains, capacity 2, 6 uses | `OrderedByUse`, `EvictsLeastRecentlyUsed`; the refinement of `LeastRecentlyUsed` |
| `negotiation` | 2 calls, all styles and faults (`token` ones bare); 1 emitter with 3 generations, the last in a new epoch, and a receiver that pins none or the second chain; or 2 emitters and a cache for 1 | `RejectionExplained`, `AskedOnlyWhenHelpful`, `CacheHoldsVerified`, `CacheShape`; the refinement of `ChainExchange` |
| `negotiation_live` | 1 negotiating emitter, 3 generations, fair threads | `SteadyState`, `CallsSettle` |
| `negotiation_blame` | a warm cache | expected violation, see findings |
| `verifier` | 1 thread, five configurations, 76 requests, a validator that refuses bearers, clock to 3, skew 1 | `HooksSeeOnlyEntitled`, `RefusalJustified` |
| `verifier_calls` | 2 threads, 1 request with one malformed extension of two, an administrator whose edits may be halfway, 2 set objects, at most 1 hook on each list, registered during calls, fair threads | `RevocationTakesEffect`, `RefusalJustified`, `NoHookSkipped`, `CallsReturn` |
| `message_token` | 2 operators (one rotating), 2 accounts, 2 users, half-second ticks up to 8, skew of 2 ticks, an expiry in the first second of the epoch | `NeverBeyondWhatWasAsked`, `WhatWasAskedIsAccepted`, `EmbeddingChangesNothing`, `KeyringIsItsEntries`, `PathsAgree`, `EmbeddedChainIsSound` |
| `keyring` | all lists of up to 4 of 10 tokens, two of them with one id | `AcceptsExactlyConsistent`, `EntriesAreTheTokens` |
| `auth_transport` | 2 holders, 2 workers, 2 requests, five deployments | `CredsWholeOrRefused`, `IdentityConfined`, `NothingBeyondTheGrant`, `RefusalExplained`; the refinement of `GuardedService` |
| `requests_path` | the requests hook, one path with a space | expected violation, see findings |

`TypeOK` is checked by `replay_guard`, `negotiation`, `verifier`, `message_token` and
`auth_transport` as well.

Why the bounds are enough. Two threads suffice for every race modelled: each property
speaks of one call and one interfering call. In `replay_guard` the clock outlives the
whole retention (2 x 3 seconds) of a first delivery at 0 to 1 and the window of a
request stamped 1 or later, so entries are recorded, held, pruned and recorded again; in
`negotiation` three generations let a call of the oldest transport store over the newest
chain across an epoch rotation, and two emitters with one entry make the cache evict.
`verifier` uses one thread because a call only reads what others write, and the others
are there as actions; what two calls share (hook lists, allowlist, nonces) is in
`verifier_calls`. Its clock passes the closing of the first epoch and the opening of the
second with the skew on both sides. Two set objects let a `replace` overtake an edit or
a lookup once; the set left behind is free again when nobody names it, so it may happen
any number of times. In `verifier_calls` a list grows from empty to `MaxHooks` = 1 while
calls run over it, which is enough to skip a hook or to turn once more; longer lists are
the proofs' (`NoHookSkippedHolds`, `CallsOnlyAdvanceHolds`), as an instance with two hooks
takes TLC more than minutes. The fifth configuration of `verifier` is pinned by mistake to
an account's key, and accepts account tokens that key has signed: `verify_account`
compares the issuer with the root and looks at the role of the subject only. In `negotiation` the constraint `BadTokensAreBare` explores the fault
`token` in messages that come without a chain: it is found before any chain is looked at,
and only a message without one is looked up. Four tokens of ten contain every pair and
triple that a rule of the keyring constructor speaks of, and a token dropped for its id
that would have fitted or conflicted. `message_token` runs to 8, the first tick at which an
expiry asked for at 5 and rounded up instead of down would still pass under the skew of
2. The five deployments of `auth_transport` have each of the three servers and four
hooks, replay suppression on and off, nonces the client sends or not, missing extensions
allowed and not, bearers, a resolved account, the zero extension, one that is no object,
patterns of every kind, and a path that needs an escape; two requests are a request and
its repetition, or one of each holder. Symmetry is used in runs without liveness only.

Runs with `CHECK_DEADLOCK FALSE`: `keyring` (construction ends) and `message_token` (one
chain is issued and the clock is bounded).

Fairness is weak fairness of a thread's own steps, once it has a request: nothing in
`verify` or `authenticate_message` waits, except for a lock held for one step, so a
scheduled thread goes on. Nobody is assumed to send, renew, tick, register or lose
anything. `SteadyState` assumes, in its formula, that from some time on every emitter's
current chain is valid. `AuthTransport` states no fairness: a handler may run for ever.

## 4. What is proved

All theorems hold for every value of the constants that satisfies the named assumptions;
these are the typing of requests, configurations, terms and deployments, natural-number
bounds, a positive capacity, faults of the kinds there are (`FaultsAssumption`), at least one
set object (`SetsAssumption`), and that the symbol of an escaped space is in no text as
such (`SymbolAssumption`). Every safety property that a passing run checks is proved, as
are the four refinements (`AtMostOnce`, `LeastRecentlyUsed`, `ChainExchange`,
`GuardedService`).

* `ReplayGuardProofs`. `TypeCorrect`, `ReplayJustifiedHolds`, `RetentionBoundedHolds`
  and `NonceHeldUntilExpiryHolds` need no bound on the environment.
  `AtMostOnceHolds` and `ImplementsAtMostOnceHolds` assume
  `RetentionCovers == MaxLead + MaxStall < Skew`. The invariant behind them,
  `GuardInv`, adds to the property what each thread knows (its clock value is at most
  `MaxStall` old, its request was in its window at that value) and `AdmittedIsHeld`: an
  admitted request is either past the last instant it can pass at, or its nonce is in
  the cache with an expiry beyond that instant. `EntryOutlivesWindow` shows the second
  for a fresh entry, from the assumption; `PruneKeepsHeld` that no prune with a stale
  clock breaks it; `FirstTime` that a thread which does not find the nonce holds a
  request never admitted. `replay_boundary` shows the assumption is tight.
  `CallsDecideHolds` is the safety half of `DeliveredIsAdmitted`: a call with a request
  in its window can only end with the nonce let through.
* `ChainCacheProofs`. Order by last use, last stored value and LRU eviction, from
  lemmas on `RemoveAt`, `Tail` and `Append` of sequences ordered by last use (the order
  also makes keys unique, which `Touched` and `Stored` need). `ImplementsLRUHolds` maps
  each method to its abstract operation; that the dict is full exactly when the table is
  rests on a bijection between places and keys (`KeysFacts`).
* `ChainNegotiationProofs`. `NegInv` says what the cache holds (one entry per emitter,
  within the capacity, and without a pin only chains some message of the emitter has
  verified with) and, for each call by the step it is at, what its thread knows: a chain
  found in the cache was verified, a call that evicts or stores has the verdict that
  entitles it to, only a first transmission without a chain is asked for one. The
  property alone is not inductive: what `Store` writes was looked at two steps before.
  `RejectionExplainedHolds` then follows from each rejecting step and the invariant.
  For `ImplementsExchangeHolds`, `Decided` adds that a call about to store or evict has
  its answer, and `ProvedIsAcceptable` that a chain a run succeeded with is one
  `ChainExchange` accepts. Two theorems are the safety halves of liveness properties:
  `CallsOnlyAdvanceHolds` (`ToGo` falls with every step of a call and nobody else moves
  it: ten steps at most) of `CallsSettle`, and `SettledStaysHolds` of `SteadyState`: once
  every newest chain verifies and is cached and no call of an old transport is under
  way, every message is transmitted once until a chain is renewed or expires. It assumes
  messages without faults, since a faulty one drops a healthy chain (`negotiation_blame`).
* `VerifierProofs`. `VInv` carries along each call, from step to step, what the checks
  so far have established, in terms of the moments since the call began: `Admitted` and
  `Entitled` for a call that has passed, `Justified` for one that was refused, and
  `Edited` for an administrator's half-done edits, which must be witnessed by every call
  under way. `OthersKeep` shows that nothing another thread, the clock or an
  administrator does takes any of it away: these facts only grow. `StandsInOne` shows
  that `_anchor`'s selection names the one trusted domain of the abstract statement.
  `CallsOnlyAdvanceHolds` is the safety half of `CallsReturn`: every step of a call
  lowers `ToGo`, at most `2 * MaxHooks + 6` of them, and `NeverStuckHolds` that at every
  label some alternative has its guard true.
* `KeyringProofs`. Acceptance of exactly the lists whose first tokens per id are
  consistent, and that these are the entries. The invariant says that the three indexes
  describe the first tokens of the prefix dealt with, which are consistent (`Kept`), and
  that a failure has found an ingenuine token or a conflict of two first tokens
  (`FailureHasACause`).
* `MessageTokenProofs`. Type correctness and all six properties of `MessageToken`, for
  every resolution of the clock and every skew. `IssuedInv` says that a message keeps the
  chain it was checked with (once an account and a user token exist, no action replaces
  them); `MintedInv` that every token is the only one of its level, has its type and
  role, and carries the window it was asked for in whole seconds. `AcceptedFacts` unfolds
  a verdict into its checks, `AcceptedChain` shows that mixed-up and partial headers
  never pass, `RequestFacts` unfolds the verdict on a request, from which `PathsAgree`
  follows (the two paths agree but for the epochs, which a request compares only under an
  operator's policy and a message always), and `CheckedIsAsked` and `AskedIsChecked` do
  the arithmetic of the rounding: a cut loses less than a second, which is why a skew of
  a second makes good for it. An expiry cut to 0 is left out of the token and reads back
  as none (token.py:352): `NeverBeyondWhatWasAsked` names this exception,
  `ForgottenExpiry`, for account and user tokens; a message always has an expiry.
* `AuthTransportProofs`. Three groups of lemmas about data come first. `PermitsIsAllows`:
  payload, decoding and the decision together are the abstract `Within`. `FormatLays` and
  `CutParses`: where the sections of a file lie, and that a cut one is closed and whole
  or not there; `LoadsWhole` is what a client can load. `PlainOfWire` and
  `SignsWhatItAsks`: escaping is undone, and the signed bytes name the operation except
  where the requests hook signs an escaped path. The inductive invariant `AInv` has
  `AllAttached` (a request carries what its holder could have loaded, and a signature
  over its own nonce), `Holds` for each worker (what it has verified, or why it refused)
  and `SpentOnce` (a nonce is spent before the handler runs, and for one worker). The
  five invariants follow from it, and `ImplementsGuardedServiceHolds` maps `Send` to
  `Ask` (or a stutter, when the server can tell no identity), `Enter` to `Serve`, `Leave`
  to `Finish` and everything else to a stutter. `OnlyEscapesDifferHolds` gives the extent
  of the finding of `requests_path`: the two sides disagree about the signed bytes for
  exactly the escaped paths of the requests hook.

Beyond the prover here and left to TLC: liveness under fairness and `ENABLED`
(`DeliveredIsAdmitted`, `SteadyState`, `CallsSettle`, `CallsReturn`). What is proved of
each is the part that needs no fairness; that a thread takes its steps at all is TLC's.

## 5. Findings

* `replay_boundary`: replay.py:2-4 promises that a captured request cannot be replayed
  before its signature ages out. The signature window is closed at both ends, while
  pruning drops an entry at its very expiry: a request accepted at timestamp - skew
  passes again at timestamp + skew.
* `negotiation_blame`: `authenticate_message`'s docstring promises that a genuine
  failure of a message is a plain rejection. With a warm cache, a chainless message with
  a bad checksum is answered *chain required*, and a healthy cached chain is dropped.
* `requests_path`: `RequestsAuth` signs the path of the prepared URL, which is
  percent-encoded (httpauth/_client.py:139), while both servers verify over the decoded
  path: an honest request to a path with a space is refused with 401.

Met on the way, and not the subject of a run:

* chain.py:8-9 asks that only verified chains be stored. With a pinned chain,
  `verify_options` replaces the detached one inside `run` (_msgtransport.py:130), and the
  detached one, which no run looked at, is stored (161). `CacheHoldsVerified` therefore
  speaks of receivers without a pin.
* httpauth/extension.py:57-58 says a malformed inner value fails loudly. A string where
  a list belongs is taken apart into its characters, `"/v1/*"` into a list with `"*"`
  among others; grpcauth/extension.py:49 does the same.
* A creds file cut between two sections parses, without its last sections
  (creds.py:140-142). The client that loads it sends requests the server refuses, unless
  what is left is a bearer's.

## 6. What is not modelled

Cryptography and `nkeys.py` (a token is its claims, a signature names its signer), wire
formats (JSON shapes, base64, versions: a string decodes or it does not), wording of
messages, the order in which a server folds repeated header lines, body buffering and
stream pass-through of the message transports, `from_file` and `ALLOW_ALL` of the
allowlist (the first only builds an initial set, the second has no state). Extension
values of other types than the library mints, but for one that is no object at all, are
left out. Hooks are predicates on requests. A resolver, hook or clock that raises
something other than a `ValissError` is not modelled. A `chain_cache` or `replay_cache`
other than the one in the package is not.

In `AuthTransport` tokens are current and allowlisted and time stands still: windows and
revocation are `Verifier`'s, the retention of nonces and the two steps of a replay check
`ReplayGuard`'s. In `Verifier` a rejection is named after the stretch of code that
rejects; the order of the checks inside a stretch is not observable in its properties.
The end of a gRPC handler is one action (`Leave`): how the interpreter finalizes a
generator that is dropped halfway is not modelled. `NeverBeyondWhatWasAsked` exempts the
lost expiry of the first second of 1970 by name (`ForgottenExpiry`).

## 7. Plan

Done in this order: replay guard, chain cache, negotiation, verifier, keyring, message
tokens; then the allowlist as the steps it is, the auth transports with their extensions
and creds files, their abstract specification, and the proofs of every safety property.
Left:

1. the buffering and stream pass-through of the message transports' middleware;
2. role and prefix of a key (`nkeys.py`) as far as the checks of `token.py` rest on it.
