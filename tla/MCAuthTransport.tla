--------------------------- MODULE MCAuthTransport ---------------------------
(* Instances of AuthTransport for TLC. *)
EXTENDS AuthTransport, TLC

CONSTANTS w1, w2

WorkerSymmetry == Permutations({w1, w2})

Exact(text) == [text |-> text, star |-> FALSE]
Prefix(text) == [text |-> text, star |-> TRUE]

Segments == {"h", "GET", "PUT", "v1", "a", " ", "Svc", "Get", "Put"}

\* Operations: two paths, one of which needs escapes, and two methods.
Http(method, path) == [hosts |-> <<"h">>, methods |-> <<method>>, paths |-> path]
Read == Http("GET", <<"v1", "a">>)
ReadSpace == Http("GET", <<"v1", " ">>)
Write == Http("PUT", <<"v1", "a">>)
Grpc(name) == [methods |-> <<"Svc", name>>]

\* Extensions.
HttpExt(hosts, methods, paths) == [hosts |-> hosts, methods |-> methods, paths |-> paths]
Reads == "http" :> HttpExt({}, {Exact(<<"GET">>)}, {})
UnderV1 == "http" :> HttpExt({Exact(<<"h">>)}, {}, {Prefix(<<"v1">>)})
OnlyA == "http" :> HttpExt({}, {}, {Exact(<<"v1", "a">>)})
Zero == "http" :> HttpExt({}, {}, {})
Whole1 == "grpc" :> [methods |-> {Prefix(<<"Svc">>)}]
Gets == "grpc" :> [methods |-> {Exact(<<"Svc", "Get">>)}]
Missing == [n \in {} |-> {}]

Account(sub, asked) ==
  [sub |-> sub, iss |-> "operator", bearer |-> FALSE, asked |-> asked, raw |-> {}]
User(sub, iss, asked) ==
  [sub |-> sub, iss |-> iss, bearer |-> FALSE, asked |-> asked, raw |-> {}]

Chain(account, user, bundled, seeded) ==
  [account |-> account, user |-> user, bundled |-> bundled, seeded |-> seeded]

AccX == Account("x", UnderV1)
AccY == Account("y", Missing)
OfX(asked) == User("u", "x", asked)
Bearer(tok) == [tok EXCEPT !.bearer = TRUE]
Raw(tok) == [tok EXCEPT !.raw = {"http"}]

Two(c, d) == [h \in {"h1", "h2"} |-> IF h = "h1" THEN c ELSE d]

Base == [scheme |-> "http", server |-> "asgi", client |-> Two("httpx", "direct"),
         allowMissing |-> FALSE, replay |-> TRUE, nonces |-> TRUE,
         chain |-> Two(Chain(AccX, {OfX(Reads)}, TRUE, TRUE), Chain(AccX, {}, FALSE, TRUE)),
         resolved |-> {}, operations |-> {Read, ReadSpace, Write}, routes |-> {}]

\* A user bundle and its account; a bearer whose account is resolved beside a user
\* whose extension is no object; the zero extension where extensions may be missing;
\* a gRPC server; clients without nonces.
AllDeployments ==
  {Base,
   [Base EXCEPT !.server = "django", !.replay = FALSE, !.client = Two("direct", "requests"),
      !.resolved = {AccX}, !.operations = {Read, ReadSpace},
      !.chain = Two(Chain(AccX, {Bearer(OfX(OnlyA))}, FALSE, FALSE),
                    Chain(AccX, {Raw(User("v", "x", Reads))}, TRUE, TRUE))],
   [Base EXCEPT !.allowMissing = TRUE, !.operations = {Read, Write}, !.client = Two("requests", "httpx"),
      !.chain = Two(Chain(AccY, {User("u", "y", Zero)}, TRUE, TRUE),
                    Chain(AccY, {}, FALSE, TRUE))],
   [Base EXCEPT !.scheme = "grpc", !.server = "grpc", !.client = Two("grpc", "grpc"),
      !.operations = {Grpc("Get"), Grpc("Put")}, !.routes = {Grpc("Get")},
      !.chain = Two(Chain(Account("x", Whole1), {User("u", "x", Gets)}, TRUE, TRUE),
                    Chain(Account("y", Gets), {Bearer(User("v", "y", Whole1))}, TRUE, TRUE))],
   [Base EXCEPT !.nonces = FALSE, !.operations = {Read}]}

\* A client that uses the requests hook, alone.
Escaping == {[Base EXCEPT !.client = Two("requests", "requests"), !.operations = {ReadSpace}]}
=============================================================================
