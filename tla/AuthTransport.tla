---------------------------- MODULE AuthTransport ----------------------------
(***************************************************************************)
(* The auth transports (httpauth, grpcauth) from end to end: clients that  *)
(* load a creds file and attach it to their requests, a network that       *)
(* loses, repeats and delays requests and a gateway that may send one on   *)
(* for another operation, and the server's workers, which verify a         *)
(* request, enforce the extensions of its tokens and run the handler with  *)
(* the verified identity at hand.                                          *)
(*                                                                         *)
(* A worker is a thread of the gRPC server or of Django, or a task of an   *)
(* ASGI server.  Tokens are taken as current and allowlisted, and time as  *)
(* standing still: windows and revocation are the subject of Verifier, the *)
(* retention of nonces that of ReplayGuard.  An optional value is a set of *)
(* at most one element.                                                    *)
(***************************************************************************)
EXTENDS CredsFile, TransportExt

CONSTANTS
  Holders,      \* clients, each with the creds of one chain
  Workers,
  Deployments,
  Symbols,      \* what texts are made of: characters, or whole segments of a path
  NoIdentity,   \* what a handler reads where no identity is set
  MaxSent       \* bound on the requests sent

\* What an issuer may ask for: an extension bounds each dimension of its scheme by
\* patterns, and only where the dimension is wild is a trailing star a wildcard.
Extensions(n) == {e \in [Dims(n) -> SUBSET [text : Seq(Symbols), star : BOOLEAN]] :
  \A d \in Dims(n) \ Wild(n) : \A p \in e[d] : ~p.star}
Asks(tok) == \A n \in DOMAIN tok.asked : n \in Schemes /\ tok.asked[n] \in Extensions(n)

\* What differs between deployments: the transport and its two adapters (client[h]
\* is the hook client h uses), the options of the two sides, the chain each holder
\* was given, whether its creds embed the account token (bundled) and carry the
\* seed, the account tokens the server resolves, and the operations there are, of
\* which the gRPC server implements routes.
Deployment(d) ==
  /\ d.scheme \in Schemes
  /\ d.operations \subseteq [Dims(d.scheme) -> Seq(Symbols)]
  /\ d.scheme = "grpc" => \A op \in d.operations : Len(op["methods"]) = 2
  /\ d.server \in (IF d.scheme = "http" THEN {"asgi", "django"} ELSE {"grpc"})
  /\ d.client \in [Holders -> IF d.scheme = "http" THEN {"direct", "httpx", "requests"} ELSE {"grpc"}]
  /\ {d.allowMissing, d.replay, d.nonces} \subseteq BOOLEAN
  /\ \A h \in Holders : LET c == d.chain[h] IN
       /\ \A u, v \in c.user : u = v
       /\ \A u \in c.user : u.iss = c.account.sub
       /\ \A tok \in {c.account} \cup c.user : Asks(tok)
  /\ \A a, b \in d.resolved : Asks(a) /\ (a.sub = b.sub => a = b)
  /\ d.routes \subseteq d.operations

ASSUME SymbolAssumption == "%20" \notin Symbols    \* it stands for an escaped space
ASSUME DeploymentAssumption == \A d \in Deployments : Deployment(d)
ASSUME BoundAssumption == MaxSent \in Nat

VARIABLES
  deployment,
  net,        \* the requests sent, in order; each may arrive any number of times
  seen,       \* the nonces the replay cache holds
  pc, job,    \* job[w]: the request worker w has taken, as [msg, wire]
  status,     \* status[w]: the error it answered with
  slot,       \* slot[w]: what a handler of worker w reads as the identity
  reset,      \* reset[w]: what the slot goes back to when the handler is left
  started     \* history: the requests a handler has run for under an identity

server == <<seen, pc, job, status, slot, reset, started>>
vars == <<deployment, net, server>>

scheme == deployment.scheme

-----------------------------------------------------------------------------
(* Creds and chains. *)

Subject(account, user) == IF user = {} THEN {account.sub} ELSE {u.sub : u \in user}

\* The creds a holder with chain c was given.
Issued(c) == [s \in Sections |->
  CASE s = "account" -> IF c.user = {} \/ c.bundled THEN {c.account} ELSE {}
    [] s = "user" -> c.user
    [] s = "seed" -> IF c.seeded THEN Subject(c.account, c.user) ELSE {}]

CredsOf(h) == Issued(deployment.chain[h])

\* The file they were saved in: by this version, by another one, or by an old writer
\* without a version line.
Files(c) == LET f == Format(c)
            IN  {f, Tail(f)} \cup {[f EXCEPT ![1] = <<"version", v>>] : v \in {0, Version + 1}}

\* What may be left of a file when it is loaded.  A hook is only built on creds that
\* parse and whose seed, if there is one, is a seed.
Remains(c) == UNION {{Cut(f, n, partial) : n \in 0 .. Len(f), partial \in BOOLEAN} : f \in Files(c)}
Loadable(c) == {r \in {Parse(f) : f \in {g \in Remains(c) : Parses(g)}} : Mangled \notin r["seed"]}

Loads == [d \in Deployments |-> [h \in Holders |-> Loadable(Issued(d.chain[h]))]]

\* The account token of a request: its own or the resolver's.
Presented(account, user) ==
  IF account # {} THEN account
  ELSE {a \in deployment.resolved : \E u \in user : u.iss = a.sub}

Chains(account, user) ==
  {[account |-> a, user |-> user] :
     a \in {b \in Presented(account, user) : \A u \in user : u.iss = b.sub}}

\* Who holder h is to the server, if the server can tell.
IdentityOf(h) == Chains(CredsOf(h)["account"], CredsOf(h)["user"])

IsBearer(identity) == \E u \in identity.user : u.bearer

-----------------------------------------------------------------------------
(* What the wire carries, and what each side takes for the operation. *)

\* A path travels with the characters escaped that a URL cannot hold.
Escape(text) == [i \in DOMAIN text |-> IF text[i] = " " THEN "%20" ELSE text[i]]
Unescape(text) == [i \in DOMAIN text |-> IF text[i] = "%20" THEN " " ELSE text[i]]

Wire(op) == IF scheme = "http" THEN [op EXCEPT !["paths"] = Escape(@)] ELSE op

\* scope["path"] and request.path are unescaped, as is the path of an httpx URL.
Plain(wire) == IF scheme = "http" THEN [wire EXCEPT !["paths"] = Unescape(@)] ELSE wire

\* The gRPC plugin takes the method apart and joins it again from the last segment
\* of the service URL and the method name; an operation has the two as its text.
FullMethod(serviceUrl, name) == <<serviceUrl[Len(serviceUrl)], name>>

\* The operation a client's hook signs: a caller of credential_headers names it,
\* httpx unescapes the path of the URL, requests leaves it as the wire carries it.
SignedOp(client, op) ==
  CASE client = "direct" -> op
    [] client = "httpx" -> Plain(Wire(op))
    [] client = "requests" -> Wire(op)
    [] client = "grpc" -> [op EXCEPT !["methods"] = FullMethod(<<"authority", @[1]>>, @[2])]

\* Mutant of Context: the path is left out of the bytes that are signed.
ContextWithoutPath(op, nonce) ==
  <<scheme, [d \in DOMAIN op \ {"paths"} |-> op[d]], nonce>>

\* request_context and method_context.
Context(op, nonce) == <<scheme, op, nonce>>

-----------------------------------------------------------------------------

Init ==
  /\ deployment \in Deployments
  /\ net = <<>> /\ seen = {} /\ started = {}
  /\ pc = [w \in Workers |-> "idle"]
  /\ job = [w \in Workers |-> {}]
  /\ status = [w \in Workers |-> 200]
  /\ slot = [w \in Workers |-> NoIdentity]
  /\ reset = [w \in Workers |-> NoIdentity]

(* The client. *)

\* Mutant of Nonce: the hook draws a nonce when it is built, and no other.
NonceOnce == IF deployment.nonces THEN {1} ELSE {}

\* A fresh nonce: the place of the request in net.
Nonce == IF deployment.nonces THEN {Len(net) + 1} ELSE {}

\* One request with its headers; kind "websocket" stands for the ASGI scopes that
\* are not http.
Transmit(h, op, kind, account, user, seed) ==
  LET nonce == IF seed = {} THEN {} ELSE Nonce
      context == Context(SignedOp(deployment.client[h], op), nonce)
  IN  /\ Len(net) < MaxSent
      /\ net' = Append(net, [holder |-> h, op |-> op, kind |-> kind,
           account |-> account, user |-> user, nonce |-> nonce,
           signature |-> {[by |-> k, context |-> context] : k \in seed}])
      /\ UNCHANGED <<deployment, server>>

\* The creds do not change once they are loaded, so a client loads them as it sends.
Send(h, op) == \E c \in Loads[deployment][h] :
  Transmit(h, op, "http", c["account"], c["user"], c["seed"])

\* A client without creds.
SendBare(h, op) ==
  \E kind \in IF deployment.server = "asgi" THEN {"http", "websocket"} ELSE {"http"} :
    Transmit(h, op, kind, {}, {}, {})

-----------------------------------------------------------------------------
(* The server. *)

Msg(w) == net[(CHOOSE j \in job[w] : TRUE).msg]
Op(w) == Plain((CHOOSE j \in job[w] : TRUE).wire)

\* A worker takes a request, as it was sent or as a gateway sends it on.
Take(w, i) == \E op \in deployment.operations :
  /\ pc[w] = "idle"
  /\ pc' = [pc EXCEPT ![w] = "received"]
  /\ job' = [job EXCEPT ![w] = {[msg |-> i, wire |-> Wire(op)]}]
  /\ UNCHANGED <<deployment, net, seen, status, slot, reset, started>>

Refuse(w, code) ==
  /\ pc' = [pc EXCEPT ![w] = "refused"]
  /\ status' = [status EXCEPT ![w] = code]
  /\ UNCHANGED <<deployment, net, job, slot, reset, started>>

\* The verified identity of a request: a chain that hangs together, and the
\* signature of its subject over the operation as received, or a bearer's waiver.
Verified(m, op) ==
  {i \in Chains(m.account, m.user) :
     IF m.signature = {} THEN IsBearer(i)
     ELSE \A s \in m.signature : /\ s.by \in Subject(i.account, i.user)
                                 /\ s.context = Context(op, m.nonce)}

Suppressed(m) == deployment.replay /\ m.signature # {}

\* Neither is the handler of an unknown gRPC method wrapped, nor is an ASGI scope
\* other than http looked at.
Unwrapped(w) ==
  \/ deployment.server = "grpc" /\ Op(w) \notin deployment.routes
  \/ deployment.server = "asgi" /\ Msg(w).kind # "http"

\* No credentials, or credentials that do not verify (_server.py:29-42, interceptor.py:82-98).
RefuseUnverified(w) ==
  /\ pc[w] = "received" /\ ~Unwrapped(w)
  /\ Verified(Msg(w), Op(w)) = {}
  /\ Refuse(w, 401) /\ UNCHANGED seen

RefuseNonce(w) ==
  /\ pc[w] = "received" /\ ~Unwrapped(w)
  /\ Verified(Msg(w), Op(w)) # {} /\ Suppressed(Msg(w))
  /\ Msg(w).nonce = {} \/ Msg(w).nonce \cap seen # {}
  /\ Refuse(w, 401) /\ UNCHANGED seen

\* verify returns; the nonce is spent whatever the extensions say.
Verify(w) ==
  /\ pc[w] = "received" /\ ~Unwrapped(w)
  /\ Verified(Msg(w), Op(w)) # {}
  /\ IF Suppressed(Msg(w))
     THEN /\ Msg(w).nonce # {} /\ Msg(w).nonce \cap seen = {}
          /\ seen' = seen \cup Msg(w).nonce
     ELSE UNCHANGED seen
  /\ pc' = [pc EXCEPT ![w] = "verified"]
  /\ UNCHANGED <<deployment, net, job, status, slot, reset, started>>

Forbid(w) ==
  /\ pc[w] = "verified"
  /\ \E i \in Verified(Msg(w), Op(w)) :
       ~AuthorizeExt(scheme, i, Op(w), deployment.allowMissing)
  /\ Refuse(w, 403) /\ UNCHANGED seen

\* Mutant of Enter: the identity is kept where all workers read it.
EnterGlobal(w) ==
  /\ pc[w] = "verified"
  /\ \E i \in Verified(Msg(w), Op(w)) :
       /\ AuthorizeExt(scheme, i, Op(w), deployment.allowMissing)
       /\ slot' = [v \in Workers |-> i]
  /\ pc' = [pc EXCEPT ![w] = "handling"]
  /\ reset' = [reset EXCEPT ![w] = slot[w]]
  /\ started' = started \cup {j.msg : j \in job[w]}
  /\ UNCHANGED <<deployment, net, seen, job, status>>

\* The identity is put where the handler of this request reads it: the ContextVar
\* of the thread, the state of the ASGI scope, an attribute of the request.
Enter(w) ==
  /\ pc[w] = "verified"
  /\ \E i \in Verified(Msg(w), Op(w)) :
       /\ AuthorizeExt(scheme, i, Op(w), deployment.allowMissing)
       /\ slot' = [slot EXCEPT ![w] = i]
  /\ pc' = [pc EXCEPT ![w] = "handling"]
  /\ reset' = [reset EXCEPT ![w] = slot[w]]
  /\ started' = started \cup {j.msg : j \in job[w]}
  /\ UNCHANGED <<deployment, net, seen, job, status>>

\* An ASGI app runs without an identity; gRPC answers an unknown method itself.
PassThrough(w) ==
  /\ pc[w] = "received" /\ Unwrapped(w)
  /\ pc' = [pc EXCEPT ![w] = IF deployment.server = "asgi" THEN "open" ELSE "refused"]
  /\ status' = [status EXCEPT ![w] = IF deployment.server = "asgi" THEN 200 ELSE 404]
  /\ UNCHANGED <<deployment, net, seen, job, slot, reset, started>>

\* The worker is free for another request.
Free(w) ==
  /\ pc' = [pc EXCEPT ![w] = "idle"]
  /\ job' = [job EXCEPT ![w] = {}]
  /\ status' = [status EXCEPT ![w] = 200]
  /\ UNCHANGED <<deployment, net, seen, started>>

\* The handler has returned or raised, its stream has ended, or the RPC was
\* cancelled and the thread that drew from its response iterator drops it.
Leave(w) ==
  /\ pc[w] = "handling" /\ Free(w)
  /\ slot' = [slot EXCEPT ![w] = reset[w]]
  /\ reset' = [reset EXCEPT ![w] = NoIdentity]

\* A refusal has been sent, or an app without an identity is done.
Answer(w) == pc[w] \in {"refused", "open"} /\ Free(w) /\ UNCHANGED <<slot, reset>>

Client(h) == \E op \in deployment.operations : Send(h, op) \/ SendBare(h, op)

Worker(w) ==
  \/ \E i \in DOMAIN net : Take(w, i)
  \/ RefuseUnverified(w) \/ RefuseNonce(w) \/ Verify(w)
  \/ Forbid(w) \/ Enter(w) \/ PassThrough(w) \/ Leave(w) \/ Answer(w)

Next == (\E h \in Holders : Client(h)) \/ (\E w \in Workers : Worker(w))

Spec == Init /\ [][Next]_vars

-----------------------------------------------------------------------------
(* What the issuers allowed, told without payloads, maps and decoders. *)

\* An extension that bounds no dimension allows nothing; one that bounds some
\* allows the operations that lie within every one of these bounds.
Within(e, op) ==
  /\ \E d \in DOMAIN e : e[d] # {}
  /\ \A d \in DOMAIN e : e[d] # {} => \E p \in e[d] :
       \E rest \in {SubSeq(op[d], n, Len(op[d])) : n \in 1 .. Len(op[d]) + 1} :
         op[d] = p.text \o rest /\ (rest # <<>> => p.star)

AllOperations == UNION {d.operations : d \in Deployments}
AllIdentities == UNION {UNION {
  {[account |-> a, user |-> d.chain[h].user] : a \in d.resolved \cup {d.chain[h].account}} :
  h \in Holders} : d \in Deployments}

\* A token allows what its extension bounds, or everything where it may be missing.
Allows(d, tok, op) ==
  /\ d.scheme \notin tok.raw
  /\ d.scheme \in DOMAIN tok.asked => Within(tok.asked[d.scheme], op)
  /\ d.scheme \notin DOMAIN tok.asked => d.allowMissing

\* A user has no more than its account and no more than its own token allows.
Allowance == [d \in Deployments |-> [i \in AllIdentities |->
  {op \in d.operations : \A tok \in {i.account} \cup i.user : Allows(d, tok, op)}]]

Allowed(i) == Allowance[deployment][i]

Known == UNION {IdentityOf(h) : h \in Holders}

-----------------------------------------------------------------------------

Labels == {"idle", "received", "verified", "handling", "open", "refused"}

Codes == {200, 401, 403, 404}
Jobs == [msg : Nat, wire : {Wire(op) : op \in deployment.operations}]

TypeOK ==
  /\ deployment \in Deployments
  /\ \A i \in DOMAIN net : /\ net[i].holder \in Holders
                          /\ net[i].op \in deployment.operations
                          /\ net[i].nonce \subseteq {i}
  /\ seen \subseteq DOMAIN net /\ started \subseteq DOMAIN net
  /\ pc \in [Workers -> Labels] /\ status \in [Workers -> Codes]
  /\ job \in [Workers -> SUBSET Jobs]
  /\ \A w \in Workers : {slot[w], reset[w]} \subseteq Known \cup {NoIdentity}

\* A creds file that was cut anywhere while it was written or copied, or that has
\* another version, is refused, or it lacks whole sections at its end: what a client
\* attaches is never half of a token, and a seed signs only beside all the tokens it
\* was saved with (creds.py:87-97, 110-167).
CredsWholeOrRefused ==
  \A i \in DOMAIN net : LET m == net[i]
                           c == CredsOf(m.holder) IN
    /\ m.account \in {{}, c["account"]} /\ m.user \in {{}, c["user"]}
    /\ {s.by : s \in m.signature} \in {{}, c["seed"]}
    /\ m.user # {} => m.account = c["account"]
    /\ m.signature # {} => m.user = c["user"] /\ m.account = c["account"]

\* A handler reads the identity of the request it handles, however many others are
\* handled meanwhile, and outside of a verified request there is none to read, after
\* whatever ending of the requests before (grpcauth/interceptor.py:115-143).
IdentityConfined ==
  \A w \in Workers :
    IF pc[w] = "handling" THEN Verified(Msg(w), Op(w)) = {slot[w]}
    ELSE slot[w] = NoIdentity

\* A handler only ever runs, with an identity, for the holder whose request it is,
\* even if this holder's creds lost a token, and within what the issuers of the
\* account and the user both asked for (httpauth/extension.py:88-110,
\* grpcauth/extension.py:66-86).
NothingBeyondTheGrant ==
  \A w \in Workers : pc[w] = "handling" =>
    /\ {slot[w]} = IdentityOf(Msg(w).holder)
    /\ Op(w) \in Allowed(slot[w])

\* What a client attaches to its requests is all that its holder was given.
Whole(m) == LET c == CredsOf(m.holder)
            IN  /\ m.account = c["account"] /\ m.user = c["user"]
                /\ {s.by : s \in m.signature} = c["seed"]

\* The requests hook signs an escaped path that the server unescapes.
SignsEscaped(m) == deployment.client[m.holder] = "requests" /\ Wire(m.op) # m.op

\* A refusal has a cause outside of the transport: 403 that the issuers do not allow
\* the operation, by when the nonce is spent (_server.py:36-44); 401 that a gateway
\* changed it, the creds are cut or never sign, the account is unknown, or the nonce is
\* missing or was used before.  The one cause inside is the path the requests hook
\* signs (SignedAsServed).
RefusalExplained ==
  \A w \in Workers : LET m == Msg(w) IN
    /\ (pc[w] = "refused" /\ status[w] = 403) =>
         /\ \E i \in IdentityOf(m.holder) : Op(w) \notin Allowed(i)
         /\ Suppressed(m) => m.nonce # {} /\ m.nonce \subseteq seen
    /\ (pc[w] = "refused" /\ status[w] = 401) =>
         \/ Op(w) # m.op \/ ~Whole(m) \/ SignsEscaped(m)
         \/ IdentityOf(m.holder) = {}
         \/ m.signature = {} /\ \A i \in IdentityOf(m.holder) : ~IsBearer(i)
         \/ Suppressed(m) /\ (m.nonce = {} \/ m.nonce \subseteq seen)

\* Client and server derive the same bytes from a request that arrives as it was
\* sent (httpauth/extension.py:82-83, _requests.py:18-19).
SignedAsServed ==
  \A i \in DOMAIN net : \A s \in net[i].signature :
    s.context = Context(Plain(Wire(net[i].op)), net[i].nonce)

\* The transports from end to end implement the abstract GuardedService: the policy
\* is what the issuers asked for, and a request counts as asked by its holder.
Policy ==
  [allowed |-> Allowance[deployment],
   bearers |-> {i \in AllIdentities : IsBearer(i)},
   once |-> deployment.replay]

Asked == UNION {{[id |-> k, who |-> i, op |-> net[k].op] : i \in IdentityOf(net[k].holder)} :
                k \in DOMAIN net}

Serving == [w \in Workers |->
  IF pc[w] = "handling" THEN [who |-> slot[w], op |-> Op(w)] ELSE NoIdentity]

Service == INSTANCE GuardedService WITH
  Who <- AllIdentities, Operations <- AllOperations, Ids <- 1 .. MaxSent, Nobody <- NoIdentity,
  policy <- Policy, asked <- Asked, serving <- Serving

ImplementsGuardedService == Service!Spec
=============================================================================
