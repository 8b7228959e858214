---------------------------- MODULE TransportExt ----------------------------
(***************************************************************************)
(* The extension claims that bind a token to operations of a transport     *)
(* (httpauth/extension.py, grpcauth/extension.py), from the value an       *)
(* issuer asks for to the decision on a request.                           *)
(*                                                                         *)
(* An operation is a function from the dimensions of its scheme to texts,  *)
(* a text a sequence of symbols; an extension gives each dimension a set   *)
(* of patterns.  A gRPC operation has the one dimension "methods".         *)
(***************************************************************************)
EXTENDS Naturals, Sequences

Schemes == {"http", "grpc"}
Dims(scheme) == IF scheme = "http" THEN {"hosts", "methods", "paths"} ELSE {"methods"}

\* The dimensions whose patterns may end in a wildcard; the others match exactly.
Wild(scheme) == IF scheme = "http" THEN {"paths"} ELSE {"methods"}

IsPrefix(s, t) == Len(s) <= Len(t) /\ SubSeq(t, 1, Len(s)) = s

\* A pattern with a trailing "*" (star) covers the texts it begins.
Covers(p, text) == IF p.star THEN IsPrefix(p.text, text) ELSE p.text = text

Covered(granted, text) == \E p \in granted : Covers(p, text)

-----------------------------------------------------------------------------
(* Minting and decoding. *)

\* extension_payload leaves empty dimensions out.
Payload(e) == [d \in {c \in DOMAIN e : e[c] # {}} |-> e[d]]

Decode(scheme, payload) ==
  [d \in Dims(scheme) |-> IF d \in DOMAIN payload THEN payload[d] ELSE {}]

\* The ext map of a token.  tok.asked: the extensions its issuer gave it, by name;
\* tok.raw: those whose payload some other issuer wrote as no JSON object.
Claim(tok) == [n \in DOMAIN tok.asked \cup tok.raw |->
  IF n \in tok.raw THEN [object |-> FALSE]
  ELSE [object |-> TRUE, payload |-> Payload(tok.asked[n])]]

-----------------------------------------------------------------------------
(* The decision on one extension. *)

\* Mutant of Authorizes: a dimension left empty permits nothing.
AuthorizesEvery(scheme, e, op) ==
  \A d \in Dims(scheme) : IF d \in Wild(scheme) THEN Covered(e[d], op[d])
                          ELSE \E p \in e[d] : p.text = op[d]

\* No dimension but those that are populated restricts; none populated permits nothing.
Authorizes(scheme, e, op) ==
  /\ \E d \in Dims(scheme) : e[d] # {}
  /\ \A d \in Dims(scheme) : e[d] # {} =>
       IF d \in Wild(scheme) THEN Covered(e[d], op[d])
       ELSE \E p \in e[d] : p.text = op[d]

\* Mutant of Present: ext_of asks whether the payload is true, which {} is not.
PresentIfTrue(claim, scheme) ==
  scheme \in DOMAIN claim /\ (claim[scheme].object => DOMAIN claim[scheme].payload # {})

\* ext_of: a name that is not in the map is no extension.
Present(claim, scheme) == scheme \in DOMAIN claim

\* A token that carries the extension must permit the operation by it; one that
\* does not is let through where extensions may be missing.
Permits(scheme, tok, op, allowMissing) ==
  IF Present(Claim(tok), scheme)
  THEN /\ Claim(tok)[scheme].object
       /\ Authorizes(scheme, Decode(scheme, Claim(tok)[scheme].payload), op)
  ELSE allowMissing

\* authorize_ext: the account's extension and then the user's.
AuthorizeExt(scheme, identity, op, allowMissing) ==
  \A tok \in {identity.account} \cup identity.user : Permits(scheme, tok, op, allowMissing)
=============================================================================
