----------------------------- MODULE MCVerifier -----------------------------
(* Instances of Verifier for TLC. *)
EXTENDS Verifier, TLC

CONSTANTS t1, t2

\* Two operators, two accounts and one user; a keyring holds operator A at two
\* epochs, of which the first closes at 1 and the second opens at 3.
Claims(kind, iss, sub, epoch) ==
  [kind |-> kind, id |-> "i", iss |-> iss, sub |-> sub, epoch |-> epoch, nbf |-> 0,
   exp |-> 0, bearer |-> FALSE, sealed |-> TRUE, malformed |-> {}]

OpA1 == [Claims("operator", "A", "A", 1) EXCEPT !.exp = 1]
OpA2 == [Claims("operator", "A", "A", 2) EXCEPT !.nbf = 3]
OpB1 == Claims("operator", "B", "B", 1)
AccA1 == Claims("account", "A", "x", 1)
AccA2 == Claims("account", "A", "x", 2)
AccB1 == [Claims("account", "B", "y", 1) EXCEPT !.exp = 1]
UserX1 == [Claims("user", "x", "u", 1) EXCEPT !.nbf = 4]
BearerX2 == [Claims("user", "x", "u", 2) EXCEPT !.bearer = TRUE, !.malformed = {"e"}]
UserX == [Claims("user", "x", "u", 1) EXCEPT !.malformed = {"f"}]
UserY1 == Claims("user", "y", "u", 1)
AccXY == Claims("account", "x", "y", 1)
Unsealed == [UserY1 EXCEPT !.sealed = FALSE]

NoResolver == [k \in {"A", "B", "x", "y", "u"} |-> {}]
ResolvesX == [NoResolver EXCEPT !["x"] = {AccA2}]
Pinned == [kind |-> "pinned", root |-> "A", policy |-> {}, entries |-> {},
           resolver |-> NoResolver, replay |-> FALSE]

\* A verifier of each kind: no operator token, one, a foreign one, a keyring; and one
\* pinned by mistake to an account's key, under which an account token may be signed.
AllConfigs ==
  {Pinned,
   [Pinned EXCEPT !.root = "x"],
   [Pinned EXCEPT !.policy = {OpA1}, !.replay = TRUE],
   [Pinned EXCEPT !.policy = {OpB1}],
   [Pinned EXCEPT !.kind = "keyring", !.entries = {OpA1, OpA2, OpB1},
                  !.resolver = ResolvesX, !.replay = TRUE]}

Optional(S) == {{}} \cup {{x} : x \in S}

AllRequests ==
  [account : Optional({AccA1, AccA2, AccB1, AccXY}),
   user : Optional({UserX1, BearerX2, UserY1, Unsealed}),
   signer : Optional({"u", "x"}), timestamp : {2}, nonce : {{"n"}}]
  \cup [account : {{AccA1}}, user : {{}}, signer : {{"x"}}, timestamp : {1}, nonce : {{}}]

\* A validator that refuses the bearer requests.
RefusesBearer == [v \in {"signed"} |-> {r \in AllRequests : r.signer = {}}]

\* Two calls for one request of a user, whom a validator refuses and one of whose two
\* extensions does not decode.
TwoThreads == {t1, t2}
OfUser == [account |-> {AccA1}, user |-> {UserX}, signer |-> {"u"}, timestamp |-> 1,
           nonce |-> {"m"}]
OneRequest == {OfUser}
OneConfig == {[Pinned EXCEPT !.policy = {OpA1}]}
RefusesUser == [v \in {"strict"} |-> {OfUser}]

=============================================================================
