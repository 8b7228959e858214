------------------------- MODULE AuthTransportProofs -------------------------
(***************************************************************************)
(* Theorems about AuthTransport for every number of holders and workers,   *)
(* every deployment and every creds file that is cut anywhere.             *)
(***************************************************************************)
EXTENDS AuthTransport, SequenceTheorems, TLAPS

USE SymbolAssumption, DeploymentAssumption, BoundAssumption

-----------------------------------------------------------------------------
(* The decision on an extension is what its issuer asked for. *)

Rests(t) == {SubSeq(t, k, Len(t)) : k \in 1 .. Len(t) + 1}
Splits(p, star, t) == \E rest \in Rests(t) : t = p \o rest /\ (rest # <<>> => star)

LEMMA PrefixIsSplit ==
  ASSUME NEW p \in Seq(Symbols), NEW t \in Seq(Symbols), NEW star \in BOOLEAN
  PROVE  Splits(p, star, t) <=> IF star THEN IsPrefix(p, t) ELSE p = t
<1>0. Len(p) \in Nat /\ Len(t) \in Nat
  BY LenProperties
<1>1. \A rest \in Rests(t) : rest \in Seq(Symbols)
  <2> SUFFICES ASSUME NEW k \in 1 .. Len(t) + 1 PROVE SubSeq(t, k, Len(t)) \in Seq(Symbols)
    BY DEF Rests
  <2>1. \A i \in k .. Len(t) : t[i] \in Symbols
    BY <1>0, ElementOfSeq
  <2> QED BY <1>0, <2>1, SubSeqProperties
<1>2. ASSUME NEW rest \in Rests(t), t = p \o rest PROVE IsPrefix(p, t)
  <2>1. rest \in Seq(Symbols) /\ Len(rest) \in Nat /\ Len(t) = Len(p) + Len(rest)
    BY <1>1, <1>2, ConcatProperties, LenProperties
  <2>2. CASE p = <<>>
    BY <1>0, <2>2, SubSeqEmpty, EmptySeq DEF IsPrefix
  <2>3. CASE p # <<>>
    <3>1. Len(p) # 0
      BY <2>3, EmptySeq
    <3>2. 1 \in 1 .. Len(p) /\ Len(p) \in 1 .. Len(p)
      BY <1>0, <3>1
    <3>3. SubSeq(p \o rest, 1, Len(p)) = SubSeq(p, 1, Len(p))
      BY <2>1, <3>2, SubSeqOfConcat1
    <3>4. SubSeq(p, 1, Len(p)) = p
      BY SubSeqFull
    <3> QED BY <1>0, <1>2, <2>1, <3>3, <3>4 DEF IsPrefix
  <2> QED BY <2>2, <2>3
<1>3. ASSUME IsPrefix(p, t) PROVE \E rest \in Rests(t) : t = p \o rest
  <2> DEFINE rest == SubSeq(t, Len(p) + 1, Len(t))
  <2>1. Len(p) <= Len(t) /\ SubSeq(t, 1, Len(p)) = p
    BY <1>3 DEF IsPrefix
  <2>2. Len(p) + 1 \in 1 .. Len(t) + 1
    BY <1>0, <2>1
  <2>5. rest \in Rests(t)
    BY <2>2 DEF Rests
  <2>3. SubSeq(t, 1, Len(p)) \o SubSeq(t, Len(p) + 1, Len(t)) = SubSeq(t, 1, Len(t))
    <3>1. 1 \in 1 .. Len(t) + 1 /\ Len(p) \in 1 - 1 .. Len(t) /\ Len(t) \in Len(p) .. Len(t)
      BY <1>0, <2>1
    <3> QED BY <3>1, ConcatAdjacentSubSeq
  <2>4. SubSeq(t, 1, Len(t)) = t
    BY SubSeqFull
  <2> QED BY <2>1, <2>5, <2>3, <2>4
<1>4. ASSUME NEW rest \in Rests(t), t = p \o rest, rest = <<>> PROVE p = t
  BY <1>4, ConcatEmptySeq
<1>5. ASSUME p = t PROVE <<>> \in Rests(t) /\ t = p \o <<>>
  <2>1. SubSeq(t, Len(t) + 1, Len(t)) = <<>>
    BY <1>0, SubSeqEmpty
  <2>2. <<>> \in Rests(t)
    BY <1>0, <2>1 DEF Rests
  <2> QED BY <1>5, <2>2, ConcatEmptySeq
<1> QED BY <1>2, <1>3, <1>4, <1>5 DEF Splits

LEMMA RoundTrip ==
  ASSUME NEW n \in Schemes, NEW e \in Extensions(n)
  PROVE  Decode(n, Payload(e)) = e
<1>1. e \in [Dims(n) -> SUBSET [text : Seq(Symbols), star : BOOLEAN]]
  BY DEF Extensions
<1>2. DOMAIN Payload(e) = {d \in Dims(n) : e[d] # {}} /\ \A d \in DOMAIN Payload(e) : Payload(e)[d] = e[d]
  BY <1>1 DEF Payload
<1>3. \A d \in Dims(n) : (IF d \in DOMAIN Payload(e) THEN Payload(e)[d] ELSE {}) = e[d]
  BY <1>2
<1>4. Decode(n, Payload(e)) = [d \in Dims(n) |-> e[d]]
  BY <1>3 DEF Decode
<1> QED BY <1>1, <1>4

LEMMA AuthorizesIsWithin ==
  ASSUME NEW n \in Schemes, NEW e \in Extensions(n), NEW op \in [Dims(n) -> Seq(Symbols)]
  PROVE  Authorizes(n, e, op) <=> Within(e, op)
<1>1. /\ e \in [Dims(n) -> SUBSET [text : Seq(Symbols), star : BOOLEAN]]
      /\ \A d \in Dims(n) \ Wild(n) : \A p \in e[d] : ~p.star
  BY DEF Extensions
<1>2. ASSUME NEW d \in Dims(n), NEW p \in e[d]
      PROVE  /\ p.text \in Seq(Symbols) /\ p.star \in BOOLEAN /\ op[d] \in Seq(Symbols)
             /\ Splits(p.text, p.star, op[d])
                <=> IF d \in Wild(n) THEN Covers(p, op[d]) ELSE p.text = op[d]
  <2>1. p.text \in Seq(Symbols) /\ p.star \in BOOLEAN /\ op[d] \in Seq(Symbols)
    BY <1>1
  <2>2. Splits(p.text, p.star, op[d])
        <=> IF p.star THEN IsPrefix(p.text, op[d]) ELSE p.text = op[d]
    <3> DEFINE text == p.text
               star == p.star
               t == op[d]
    <3>1. text \in Seq(Symbols) /\ t \in Seq(Symbols) /\ star \in BOOLEAN
      BY <2>1
    <3>2. Splits(text, star, t) <=> IF star THEN IsPrefix(text, t) ELSE text = t
      <4> HIDE DEF text, star, t
      <4> QED BY <3>1, PrefixIsSplit
    <3> QED BY <3>2
  <2>3. d \notin Wild(n) => ~p.star
    BY <1>1
  <2> QED BY <2>1, <2>2, <2>3 DEF Covers
<1>3. ASSUME NEW d \in Dims(n)
      PROVE  (\E p \in e[d] : Splits(p.text, p.star, op[d]))
             <=> IF d \in Wild(n) THEN Covered(e[d], op[d]) ELSE \E p \in e[d] : p.text = op[d]
  BY <1>2 DEF Covered
<1>4. DOMAIN e = Dims(n)
  BY <1>1
<1>5. Within(e, op) <=>
        /\ \E d \in Dims(n) : e[d] # {}
        /\ \A d \in Dims(n) : e[d] # {} =>
             \E p \in e[d] : Splits(p.text, p.star, op[d])
  BY <1>4 DEF Within, Rests, Splits
<1> QED BY <1>3, <1>5 DEF Authorizes

(* A token permits what it allows.                                           *)
LEMMA PermitsIsAllows ==
  ASSUME NEW d \in Deployments, NEW tok, Asks(tok), NEW op \in d.operations
  PROVE  Permits(d.scheme, tok, op, d.allowMissing) <=> Allows(d, tok, op)
<1> DEFINE n == d.scheme
<1>1. n \in Schemes /\ op \in [Dims(n) -> Seq(Symbols)]
  BY DEF Deployment
<1>2. DOMAIN Claim(tok) = DOMAIN tok.asked \cup tok.raw
  BY DEF Claim
<1>3. CASE n \in tok.raw
  <2>1. n \in DOMAIN Claim(tok) /\ Claim(tok)[n] = [object |-> FALSE]
    BY <1>2, <1>3 DEF Claim
  <2> QED BY <1>3, <2>1 DEF Permits, Present, Allows
<1>4. CASE n \notin tok.raw /\ n \in DOMAIN tok.asked
  <2>1. /\ n \in DOMAIN Claim(tok)
        /\ Claim(tok)[n] = [object |-> TRUE, payload |-> Payload(tok.asked[n])]
    BY <1>2, <1>4 DEF Claim
  <2>2. tok.asked[n] \in Extensions(n)
    BY <1>4 DEF Asks
  <2>3. Decode(n, Claim(tok)[n].payload) = tok.asked[n]
    BY <1>1, <2>1, <2>2, RoundTrip
  <2>4. Authorizes(n, tok.asked[n], op) <=> Within(tok.asked[n], op)
    BY <1>1, <2>2, AuthorizesIsWithin
  <2> QED BY <1>4, <2>1, <2>3, <2>4 DEF Permits, Present, Allows
<1>5. CASE n \notin tok.raw /\ n \notin DOMAIN tok.asked
  BY <1>2, <1>5 DEF Permits, Present, Allows
<1> QED BY <1>3, <1>4, <1>5

-----------------------------------------------------------------------------
(* A creds file, cut anywhere, parses into whole sections from the front.    *)

Begin(s) == <<"begin", s>>
End(s) == <<"end", s>>
Load(x) == <<"payload", x>>
Noise == {<<"version", v>> : v \in {0, Version, Version + 1}} \cup {<<"blank">>, <<"notice">>, <<"partial">>}
Lines(c) == Noise \cup {Begin(s) : s \in Sections} \cup {End(s) : s \in Sections}
              \cup {Load(x) : x \in UNION {c[s] : s \in Sections}}

Before(s, t) == \/ s = "account" /\ t \in {"user", "seed"}
                \/ s = "user" /\ t = "seed"

\* The sections of c that are in f begin at the lines at names, in order.
Lays(f, c, at) ==
  /\ f \in Seq(Lines(c))
  /\ DOMAIN at \subseteq Sections
  /\ \A s \in DOMAIN at :
       /\ at[s] \in Nat \ {0} /\ at[s] + 2 <= Len(f)
       /\ f[at[s]] = Begin(s) /\ f[at[s] + 2] = End(s)
       /\ \E x \in c[s] : f[at[s] + 1] = Load(x)
  /\ \A i \in 1 .. Len(f), s \in Sections :
       /\ f[i] = Begin(s) => s \in DOMAIN at /\ i = at[s]
       /\ f[i] = End(s) => s \in DOMAIN at /\ i = at[s] + 2
  /\ \A s, t \in DOMAIN at : Before(s, t) => at[s] + 2 < at[t]

Headed(f) == Len(f) >= 2 /\ f[1] \in Noise /\ f[2] \in Noise

LEMMA LinesDiffer ==
  ASSUME NEW s \in Sections, NEW t \in Sections, NEW x
  PROVE  /\ Begin(s) # End(t) /\ Begin(s) # Load(x) /\ End(s) # Load(x)
         /\ (Begin(s) = Begin(t) => s = t) /\ (End(s) = End(t) => s = t)
         /\ Begin(s) \notin Noise /\ End(s) \notin Noise /\ Load(x) \notin Noise
         /\ <<"blank">> \in Noise /\ <<"partial">> \in Noise /\ <<"notice">> \in Noise
BY DEF Begin, End, Load, Noise, Sections, Version

LEMMA AddNoise ==
  ASSUME NEW c, NEW f, NEW at, Lays(f, c, at), NEW g \in Seq(Noise)
  PROVE  Lays(f \o g, c, at) /\ (Headed(f) => Headed(f \o g))
<1>1. f \in Seq(Lines(c)) /\ g \in Seq(Lines(c)) /\ Noise \subseteq Lines(c)
  <2>1. Noise \subseteq Lines(c)
    BY DEF Lines
  <2> QED BY <2>1, SeqMonotonic DEF Lays
<1>2. /\ f \o g \in Seq(Lines(c))
      /\ Len(f \o g) = Len(f) + Len(g)
      /\ \A i \in 1 .. Len(f) + Len(g) : (f \o g)[i] = IF i <= Len(f) THEN f[i] ELSE g[i - Len(f)]
      /\ Len(f) \in Nat /\ Len(g) \in Nat
  BY <1>1, ConcatProperties, LenProperties
<1>3. \A i \in 1 .. Len(f) : (f \o g)[i] = f[i]
  BY <1>2
<1>4. \A i \in Len(f) + 1 .. Len(f) + Len(g) : (f \o g)[i] \in Noise
  <2> SUFFICES ASSUME NEW i \in Len(f) + 1 .. Len(f) + Len(g) PROVE (f \o g)[i] \in Noise
    OBVIOUS
  <2>1. (f \o g)[i] = g[i - Len(f)] /\ i - Len(f) \in 1 .. Len(g)
    BY <1>2
  <2> QED BY <2>1, ElementOfSeq
<1>5. \A s \in DOMAIN at :
        /\ at[s] \in Nat \ {0} /\ at[s] + 2 <= Len(f \o g)
        /\ (f \o g)[at[s]] = Begin(s) /\ (f \o g)[at[s] + 2] = End(s)
        /\ \E x \in c[s] : (f \o g)[at[s] + 1] = Load(x)
  <2> SUFFICES ASSUME NEW s \in DOMAIN at
               PROVE  /\ at[s] \in Nat \ {0} /\ at[s] + 2 <= Len(f \o g)
                      /\ (f \o g)[at[s]] = Begin(s) /\ (f \o g)[at[s] + 2] = End(s)
                      /\ \E x \in c[s] : (f \o g)[at[s] + 1] = Load(x)
    OBVIOUS
  <2>1. /\ at[s] \in Nat \ {0} /\ at[s] + 2 <= Len(f)
        /\ f[at[s]] = Begin(s) /\ f[at[s] + 2] = End(s)
        /\ \E x \in c[s] : f[at[s] + 1] = Load(x)
    BY DEF Lays
  <2>2. {at[s], at[s] + 1, at[s] + 2} \subseteq 1 .. Len(f)
    BY <1>2, <2>1
  <2> QED BY <1>2, <1>3, <2>1, <2>2
<1>6. \A i \in 1 .. Len(f \o g), s \in Sections :
        /\ (f \o g)[i] = Begin(s) => s \in DOMAIN at /\ i = at[s]
        /\ (f \o g)[i] = End(s) => s \in DOMAIN at /\ i = at[s] + 2
  <2> SUFFICES ASSUME NEW i \in 1 .. Len(f \o g), NEW s \in Sections
               PROVE  /\ (f \o g)[i] = Begin(s) => s \in DOMAIN at /\ i = at[s]
                      /\ (f \o g)[i] = End(s) => s \in DOMAIN at /\ i = at[s] + 2
    OBVIOUS
  <2>1. CASE i <= Len(f)
    BY <1>2, <1>3, <2>1 DEF Lays
  <2>2. CASE ~(i <= Len(f))
    <3>1. (f \o g)[i] \in Noise
      BY <1>2, <1>4, <2>2
    <3>2. Begin(s) \notin Noise /\ End(s) \notin Noise
      BY LinesDiffer
    <3> QED BY <3>1, <3>2
  <2> QED BY <2>1, <2>2
<1>7. Headed(f) => Headed(f \o g)
  BY <1>2, <1>3 DEF Headed
<1> QED BY <1>2, <1>5, <1>6, <1>7 DEF Lays

LEMMA AddSection ==
  ASSUME NEW c, NEW f, NEW at, Lays(f, c, at),
         NEW s \in Sections, s \notin DOMAIN at, c[s] # {},
         \A t \in DOMAIN at : Before(t, s)
  PROVE  /\ \E to : DOMAIN to = DOMAIN at \cup {s} /\ Lays(f \o Section(c, s), c, to)
         /\ Headed(f) => Headed(f \o Section(c, s))
<1> DEFINE x == CHOOSE y \in c[s] : TRUE
           g == <<Begin(s), Load(x), End(s)>>
           to == [t \in DOMAIN at \cup {s} |-> IF t = s THEN Len(f) + 1 ELSE at[t]]
<1>1. Section(c, s) = g /\ x \in c[s]
  BY DEF Section, Begin, Load, End
<1>2. /\ g \in Seq(Lines(c)) /\ Len(g) = 3
      /\ g[1] = Begin(s) /\ g[2] = Load(x) /\ g[3] = End(s)
  <2>1. Begin(s) \in Lines(c) /\ Load(x) \in Lines(c) /\ End(s) \in Lines(c)
    BY <1>1 DEF Lines
  <2> HIDE DEF x
  <2> QED BY <2>1
<1> HIDE DEF g, x
<1>3. /\ f \o g \in Seq(Lines(c))
      /\ Len(f \o g) = Len(f) + 3 /\ Len(f) \in Nat
      /\ \A i \in 1 .. Len(f) + 3 : (f \o g)[i] = IF i <= Len(f) THEN f[i] ELSE g[i - Len(f)]
  <2>1. f \in Seq(Lines(c)) /\ g \in Seq(Lines(c)) /\ Len(g) = 3
    BY <1>2 DEF Lays
  <2>2. Len(f) \in Nat
    BY <2>1, LenProperties
  <2> HIDE DEF to
  <2>3. /\ f \o g \in Seq(Lines(c)) /\ Len(f \o g) = Len(f) + Len(g)
        /\ \A i \in 1 .. Len(f) + Len(g) : (f \o g)[i] = IF i <= Len(f) THEN f[i] ELSE g[i - Len(f)]
    BY <2>1, ConcatProperties
  <2> QED BY <2>1, <2>2, <2>3
<1>4. \A i \in 1 .. Len(f) : (f \o g)[i] = f[i]
  BY <1>3
<1>5. /\ (f \o g)[Len(f) + 1] = Begin(s) /\ (f \o g)[Len(f) + 2] = Load(x)
      /\ (f \o g)[Len(f) + 3] = End(s)
  BY <1>2, <1>3
<1>6. \A t \in DOMAIN to :
        /\ to[t] \in Nat \ {0} /\ to[t] + 2 <= Len(f \o g)
        /\ (f \o g)[to[t]] = Begin(t) /\ (f \o g)[to[t] + 2] = End(t)
        /\ \E y \in c[t] : (f \o g)[to[t] + 1] = Load(y)
  <2> SUFFICES ASSUME NEW t \in DOMAIN to
               PROVE  /\ to[t] \in Nat \ {0} /\ to[t] + 2 <= Len(f \o g)
                      /\ (f \o g)[to[t]] = Begin(t) /\ (f \o g)[to[t] + 2] = End(t)
                      /\ \E y \in c[t] : (f \o g)[to[t] + 1] = Load(y)
    OBVIOUS
  <2>1. CASE t = s
    <3>1. to[t] = Len(f) + 1 /\ to[t] + 1 = Len(f) + 2 /\ to[t] + 2 = Len(f) + 3
      BY <1>3, <2>1
    <3> QED BY <1>1, <1>3, <1>5, <2>1, <3>1
  <2>2. CASE t # s
    <3>1. t \in DOMAIN at /\ to[t] = at[t]
      BY <2>2
    <3> HIDE DEF to
    <3> QED BY <1>3, <1>4, <3>1 DEF Lays
  <2> QED BY <2>1, <2>2
<1>7. \A i \in 1 .. Len(f \o g), t \in Sections :
        /\ (f \o g)[i] = Begin(t) => t \in DOMAIN to /\ i = to[t]
        /\ (f \o g)[i] = End(t) => t \in DOMAIN to /\ i = to[t] + 2
  <2> SUFFICES ASSUME NEW i \in 1 .. Len(f \o g), NEW t \in Sections
               PROVE  /\ (f \o g)[i] = Begin(t) => t \in DOMAIN to /\ i = to[t]
                      /\ (f \o g)[i] = End(t) => t \in DOMAIN to /\ i = to[t] + 2
    OBVIOUS
  <2>1. CASE i <= Len(f)
    BY <1>3, <1>4, <2>1 DEF Lays
  <2>2. CASE i = Len(f) + 1
    BY <1>5, <2>2, LinesDiffer
  <2>3. CASE i = Len(f) + 2
    BY <1>5, <2>3, LinesDiffer
  <2>4. CASE i = Len(f) + 3
    BY <1>3, <1>5, <2>4, LinesDiffer
  <2>5. i \in Nat /\ (i <= Len(f) \/ i = Len(f) + 1 \/ i = Len(f) + 2 \/ i = Len(f) + 3)
    BY <1>3
  <2> QED BY <2>1, <2>2, <2>3, <2>4, <2>5
<1>8. \A t, u \in DOMAIN to : Before(t, u) => to[t] + 2 < to[u]
  <2>1. \A t \in DOMAIN at : at[t] \in Nat /\ at[t] + 2 <= Len(f)
    BY DEF Lays
  <2>2. \A t \in Sections : ~(Before(t, s) /\ Before(s, t)) /\ ~Before(t, t)
    BY DEF Before, Sections
  <2> QED BY <1>3, <2>1, <2>2 DEF Lays
<1>9. Headed(f) => Headed(f \o g)
  BY <1>3, <1>4 DEF Headed
<1>10. DOMAIN to = DOMAIN at \cup {s} /\ DOMAIN to \subseteq Sections
  BY DEF Lays
<1> HIDE DEF to
<1>11. Lays(f \o g, c, to)
  BY <1>3, <1>6, <1>7, <1>8, <1>10 DEF Lays
<1> QED BY <1>1, <1>9, <1>10, <1>11

LEMMA FormatLays ==
  ASSUME NEW c
  PROVE  /\ \E at : DOMAIN at = {s \in Sections : c[s] # {}} /\ Lays(Format(c), c, at)
         /\ Headed(Format(c))
<1> DEFINE Done(f, T) == \E at : DOMAIN at = {s \in T : c[s] # {}} /\ Lays(f, c, at)
<1>1. ASSUME NEW f, NEW T \in SUBSET Sections, NEW s \in Sections \ T, Done(f, T),
             \A t \in T : Before(t, s)
      PROVE  /\ Done(f \o Section(c, s), T \cup {s})
             /\ Headed(f) => Headed(f \o Section(c, s))
  <2>1. PICK at : DOMAIN at = {t \in T : c[t] # {}} /\ Lays(f, c, at)
    BY <1>1
  <2>2. CASE c[s] = {}
    <3>1. Section(c, s) = <<>> /\ <<>> \in Seq(Noise)
      BY <2>2 DEF Section
    <3>2. Lays(f \o <<>>, c, at) /\ (Headed(f) => Headed(f \o <<>>))
      BY <2>1, <3>1, AddNoise
    <3>3. DOMAIN at = {t \in T \cup {s} : c[t] # {}}
      BY <2>1, <2>2
    <3> QED BY <3>1, <3>2, <3>3
  <2>3. CASE c[s] # {}
    <3>1. s \notin DOMAIN at /\ \A t \in DOMAIN at : Before(t, s)
      BY <1>1, <2>1
    <3>2. PICK to : DOMAIN to = DOMAIN at \cup {s} /\ Lays(f \o Section(c, s), c, to)
      BY <2>1, <2>3, <3>1, AddSection
    <3>3. Headed(f) => Headed(f \o Section(c, s))
      BY <2>1, <2>3, <3>1, AddSection
    <3>4. DOMAIN to = {t \in T \cup {s} : c[t] # {}}
      BY <2>1, <2>3, <3>2
    <3> QED BY <3>2, <3>3, <3>4
  <2> QED BY <2>2, <2>3
<1>2. ASSUME NEW f, NEW T, Done(f, T), NEW g \in Seq(Noise)
      PROVE  Done(f \o g, T) /\ (Headed(f) => Headed(f \o g))
  <2>1. PICK at : DOMAIN at = {t \in T : c[t] # {}} /\ Lays(f, c, at)
    BY <1>2
  <2>2. Lays(f \o g, c, at) /\ (Headed(f) => Headed(f \o g))
    BY <2>1, AddNoise
  <2> QED BY <2>1, <2>2
<1>3. \A b \in BOOLEAN : When(b, <<<<"blank">>>>) \in Seq(Noise) /\ When(b, Notice) \in Seq(Noise)
  <2>1. <<"blank">> \in Noise /\ <<"notice">> \in Noise
    BY LinesDiffer DEF Sections
  <2> QED BY <2>1 DEF Notice, When
<1> DEFINE f0 == <<<<"version", Version>>, <<"blank">>>>
           f1 == f0 \o Section(c, "account")
           f2 == f1 \o When(c["account"] # {} /\ c["user"] # {}, <<<<"blank">>>>)
           f3 == f2 \o Section(c, "user")
           f4 == f3 \o When(c["seed"] # {}, <<<<"blank">>>>)
           f5 == f4 \o Section(c, "seed")
<1>4. Done(f0, {}) /\ Headed(f0)
  <2> DEFINE at == [s \in {} |-> 0]
  <2>1. <<"version", Version>> \in Noise /\ <<"blank">> \in Noise
    BY DEF Noise
  <2>2. f0 \in Seq(Noise) /\ Len(f0) = 2 /\ \A i \in 1 .. 2 : f0[i] \in Noise
    BY <2>1
  <2>3. f0 \in Seq(Lines(c))
    <3>1. Noise \subseteq Lines(c)
      BY DEF Lines
    <3> HIDE DEF f0
    <3> QED BY <2>2, <3>1, SeqMonotonic
  <2>4. \A i \in 1 .. 2, s \in Sections : f0[i] # Begin(s) /\ f0[i] # End(s)
    <3>1. \A s \in Sections : Begin(s) \notin Noise /\ End(s) \notin Noise
      BY LinesDiffer
    <3> HIDE DEF f0
    <3> QED BY <2>2, <3>1
  <2>5. DOMAIN at = {}
    OBVIOUS
  <2> HIDE DEF f0, at
  <2>6. Lays(f0, c, at)
    BY <2>2, <2>3, <2>4, <2>5 DEF Lays
  <2> QED BY <2>2, <2>5, <2>6 DEF Headed
<1> HIDE DEF f0, Done
<1>5. Done(f1, {"account"}) /\ Headed(f1)
  <2>1. {} \in SUBSET Sections /\ "account" \in Sections \ {} /\ {} \cup {"account"} = {"account"}
    BY DEF Sections
  <2> QED BY <1>1, <1>4, <2>1
<1>6. Done(f2, {"account"}) /\ Headed(f2)
  BY <1>2, <1>3, <1>5
<1>7. Done(f3, {"account", "user"}) /\ Headed(f3)
  <2>1. {"account"} \in SUBSET Sections /\ "user" \in Sections \ {"account"}
    BY DEF Sections
  <2>2. \A t \in {"account"} : Before(t, "user")
    BY DEF Before
  <2>3. {"account"} \cup {"user"} = {"account", "user"}
    OBVIOUS
  <2> HIDE DEF f2
  <2> QED BY <1>1, <1>6, <2>1, <2>2, <2>3
<1>8. Done(f5, Sections) /\ Headed(f5)
  <2>1. Done(f4, {"account", "user"}) /\ Headed(f4)
    BY <1>2, <1>3, <1>7
  <2>2. {"account", "user"} \in SUBSET Sections /\ "seed" \in Sections \ {"account", "user"}
    BY DEF Sections
  <2>3. \A t \in {"account", "user"} : Before(t, "seed")
    BY DEF Before
  <2>4. {"account", "user"} \cup {"seed"} = Sections
    BY DEF Sections
  <2> HIDE DEF f4
  <2> QED BY <1>1, <2>1, <2>2, <2>3, <2>4
<1>9. Done(f5 \o When(c["seed"] # {}, Notice), Sections) /\ Headed(f5 \o When(c["seed"] # {}, Notice))
  BY <1>2, <1>3, <1>8
<1> QED BY <1>9 DEF Format, f0, Done

\* What may follow the format of c: what Files and Cut make of it.
LEMMA FilesLay ==
  ASSUME NEW c, NEW f \in Files(c)
  PROVE  \E at : DOMAIN at = {s \in Sections : c[s] # {}} /\ Lays(f, c, at)
<1> DEFINE F == Format(c)
<1>1. PICK at : DOMAIN at = {s \in Sections : c[s] # {}} /\ Lays(F, c, at)
  BY FormatLays
<1>2. /\ Len(F) \in Nat /\ Len(F) >= 2 /\ F \in Seq(Lines(c))
      /\ \A s \in Sections : F[1] # Begin(s) /\ F[2] # Begin(s) /\ F[1] # End(s)
  <2>1. F \in Seq(Lines(c)) /\ Headed(F)
    BY <1>1, FormatLays DEF Lays
  <2>2. Len(F) \in Nat
    BY <2>1, LenProperties
  <2>3. \A s \in Sections : Begin(s) \notin Noise /\ End(s) \notin Noise
    BY LinesDiffer
  <2> QED BY <2>1, <2>2, <2>3 DEF Headed
<1>3. \A s \in DOMAIN at :
        /\ at[s] \in Nat \ {0, 1} /\ at[s] + 2 <= Len(F) /\ s \in Sections
        /\ F[at[s]] = Begin(s) /\ F[at[s] + 2] = End(s)
        /\ \E x \in c[s] : F[at[s] + 1] = Load(x)
  BY <1>1, <1>2 DEF Lays
<1>4. \A i \in 1 .. Len(F), s \in Sections :
        /\ F[i] = Begin(s) => s \in DOMAIN at /\ i = at[s]
        /\ F[i] = End(s) => s \in DOMAIN at /\ i = at[s] + 2
  BY <1>1 DEF Lays
<1>5. \A s, t \in DOMAIN at : Before(s, t) => at[s] + 2 < at[t]
  BY <1>1 DEF Lays
<1> HIDE DEF F
<1>6. CASE f = Tail(F)
  <2> DEFINE to == [s \in DOMAIN at |-> at[s] - 1]
  <2>1. /\ f \in Seq(Lines(c)) /\ Len(f) = Len(F) - 1
        /\ \A i \in 1 .. Len(f) : f[i] = F[i + 1]
    <3>1. F # <<>>
      BY <1>2, EmptySeq
    <3> QED BY <1>2, <1>6, <3>1, HeadTailProperties
  <2>2. ASSUME NEW s \in DOMAIN to
        PROVE  /\ to[s] \in Nat \ {0} /\ to[s] + 2 <= Len(f)
               /\ f[to[s]] = Begin(s) /\ f[to[s] + 2] = End(s)
               /\ \E x \in c[s] : f[to[s] + 1] = Load(x)
    <3>1. /\ at[s] \in Nat \ {0, 1} /\ at[s] + 2 <= Len(F) /\ to[s] = at[s] - 1
          /\ F[at[s]] = Begin(s) /\ F[at[s] + 2] = End(s)
          /\ \E x \in c[s] : F[at[s] + 1] = Load(x)
      BY <1>3
    <3> HIDE DEF to
    <3>2. to[s] \in 1 .. Len(f) /\ to[s] + 1 \in 1 .. Len(f) /\ to[s] + 2 \in 1 .. Len(f)
      BY <1>2, <2>1, <3>1
    <3>3. to[s] + 1 = at[s] /\ to[s] + 1 + 1 = at[s] + 1 /\ to[s] + 2 + 1 = at[s] + 2
      BY <3>1
    <3>4. /\ f[to[s]] = F[at[s]] /\ f[to[s] + 1] = F[at[s] + 1] /\ f[to[s] + 2] = F[at[s] + 2]
      BY <2>1, <3>2, <3>3
    <3>5. to[s] \in Nat \ {0} /\ to[s] + 2 <= Len(f)
      BY <1>2, <2>1, <3>1
    <3> QED BY <3>1, <3>4, <3>5
  <2>3. ASSUME NEW i \in 1 .. Len(f), NEW s \in Sections
        PROVE  /\ f[i] = Begin(s) => s \in DOMAIN to /\ i = to[s]
               /\ f[i] = End(s) => s \in DOMAIN to /\ i = to[s] + 2
    <3>1. i + 1 \in 1 .. Len(F) /\ f[i] = F[i + 1]
      BY <1>2, <2>1
    <3>2. /\ F[i + 1] = Begin(s) => s \in DOMAIN at /\ i + 1 = at[s]
          /\ F[i + 1] = End(s) => s \in DOMAIN at /\ i + 1 = at[s] + 2
      BY <1>4, <3>1
    <3> QED BY <1>3, <3>1, <3>2
  <2>4. \A s, t \in DOMAIN to : Before(s, t) => to[s] + 2 < to[t]
    BY <1>3, <1>5
  <2>5. DOMAIN to = {s \in Sections : c[s] # {}}
    BY <1>1
  <2> HIDE DEF to
  <2>6. Lays(f, c, to)
    BY <2>1, <2>2, <2>3, <2>4, <2>5 DEF Lays
  <2> QED BY <2>5, <2>6
<1>7. CASE \E v \in {0, Version, Version + 1} : f = [F EXCEPT ![1] = <<"version", v>>]
  <2>1. PICK v \in {0, Version, Version + 1} : f = [F EXCEPT ![1] = <<"version", v>>]
    BY <1>7
  <2>2. <<"version", v>> \in Noise
    BY DEF Noise
  <2>3. <<"version", v>> \in Lines(c) /\ \A s \in Sections : <<"version", v>> \notin {Begin(s), End(s)}
    <3>1. \A s \in Sections : Begin(s) \notin Noise /\ End(s) \notin Noise
      BY LinesDiffer
    <3> QED BY <2>2, <3>1 DEF Lines
  <2>4. /\ f \in Seq(Lines(c)) /\ Len(f) = Len(F)
        /\ \A j \in 1 .. Len(F) : f[j] = IF j = 1 THEN <<"version", v>> ELSE F[j]
    <3>1. 1 \in 1 .. Len(F)
      BY <1>2
    <3> QED BY <1>2, <2>1, <2>3, <3>1, ExceptSeq
  <2>5. ASSUME NEW s \in DOMAIN at
        PROVE  /\ at[s] \in Nat \ {0} /\ at[s] + 2 <= Len(f)
               /\ f[at[s]] = Begin(s) /\ f[at[s] + 2] = End(s)
               /\ \E x \in c[s] : f[at[s] + 1] = Load(x)
    <3>1. at[s] \in Nat \ {0, 1} /\ at[s] + 2 <= Len(F)
      BY <1>3
    <3>2. {at[s], at[s] + 1, at[s] + 2} \subseteq 2 .. Len(F)
      BY <1>2, <3>1
    <3>3. f[at[s]] = F[at[s]] /\ f[at[s] + 1] = F[at[s] + 1] /\ f[at[s] + 2] = F[at[s] + 2]
      BY <1>2, <2>4, <3>2
    <3> QED BY <1>3, <2>4, <3>1, <3>3
  <2>6. ASSUME NEW i \in 1 .. Len(f), NEW s \in Sections
        PROVE  /\ f[i] = Begin(s) => s \in DOMAIN at /\ i = at[s]
               /\ f[i] = End(s) => s \in DOMAIN at /\ i = at[s] + 2
    BY <1>4, <2>3, <2>4
  <2>7. DOMAIN at \subseteq Sections
    BY <1>3
  <2>8. Lays(f, c, at)
    BY <1>5, <2>4, <2>5, <2>6, <2>7 DEF Lays
  <2> QED BY <1>1, <2>8
<1>8. CASE f = F
  BY <1>1, <1>8 DEF F
<1> QED BY <1>6, <1>7, <1>8 DEF Files, F

\* What a cut file that parses yields of each section.
LEMMA CutParses ==
  ASSUME NEW c, NEW f, NEW at, Lays(f, c, at), NEW n \in 0 .. Len(f), NEW partial \in BOOLEAN,
         Parses(Cut(f, n, partial)), NEW s \in Sections
  PROVE  IF s \in DOMAIN at /\ at[s] <= n
         THEN at[s] + 2 <= n /\ Payloads(Cut(f, n, partial), s) = {f[at[s] + 1]}
         ELSE Payloads(Cut(f, n, partial), s) = {}
<1> DEFINE g == Cut(f, n, partial)
<1>1. /\ Len(f) \in Nat /\ DOMAIN g \subseteq Nat
      /\ 1 .. n \subseteq DOMAIN g /\ DOMAIN g \subseteq 1 .. n + 1
      /\ \A i \in 1 .. n : g[i] = f[i]
      /\ n + 1 \in DOMAIN g => g[n + 1] = <<"partial">>
  <2>1. Len(f) \in Nat /\ f \in Seq(Lines(c))
    BY LenProperties DEF Lays
  <2>2. /\ SubSeq(f, 1, n) \in Seq(Lines(c)) /\ Len(SubSeq(f, 1, n)) = n
        /\ \A i \in 1 .. n : SubSeq(f, 1, n)[i] = f[i]
    <3>1. \A i \in 1 .. n : f[i] \in Lines(c)
      BY <2>1, ElementOfSeq
    <3>2. 1 \in Int /\ n \in Int
      BY <2>1
    <3>3. /\ SubSeq(f, 1, n) \in Seq(Lines(c))
          /\ Len(SubSeq(f, 1, n)) = IF 1 <= n THEN n - 1 + 1 ELSE 0
          /\ \A i \in 1 .. n - 1 + 1 : SubSeq(f, 1, n)[i] = f[1 + i - 1]
      BY <3>1, <3>2, SubSeqProperties
    <3> QED BY <2>1, <3>3
  <2> DEFINE h == SubSeq(f, 1, n)
             e == IF partial /\ n < Len(f) THEN <<<<"partial">>>> ELSE <<>>
  <2>3. e \in Seq(Lines(c)) /\ Len(e) \in {0, 1} /\ (Len(e) = 1 => e[1] = <<"partial">>)
    <3>1. <<"partial">> \in Lines(c)
      BY LinesDiffer DEF Lines
    <3> QED BY <3>1
  <2>4. g = h \o e
    BY DEF Cut
  <2>5. h \in Seq(Lines(c)) /\ Len(h) = n /\ \A i \in 1 .. n : h[i] = f[i]
    BY <2>2
  <2> HIDE DEF h, e, g
  <2>6. /\ g \in Seq(Lines(c)) /\ Len(g) = n + Len(e)
        /\ \A i \in 1 .. n + Len(e) : g[i] = IF i <= n THEN f[i] ELSE e[i - n]
    BY <2>3, <2>4, <2>5, ConcatProperties
  <2>7. DOMAIN g = 1 .. n + Len(e)
    BY <2>6, LenProperties
  <2>8. n \in Nat
    BY <2>1
  <2>9. ASSUME n + 1 \in DOMAIN g PROVE g[n + 1] = <<"partial">>
    <3>1. Len(e) = 1 /\ n + 1 - n = 1 /\ ~(n + 1 <= n)
      BY <2>3, <2>7, <2>8, <2>9
    <3> QED BY <2>3, <2>6, <2>7, <2>9, <3>1
  <2> QED BY <2>1, <2>3, <2>6, <2>7, <2>8, <2>9
<1> HIDE DEF g
<1>2. \A i \in DOMAIN g :
        /\ g[i] = Begin(s) => i <= n /\ s \in DOMAIN at /\ i = at[s]
        /\ g[i] = End(s) => i <= n /\ s \in DOMAIN at /\ i = at[s] + 2
  <2> SUFFICES ASSUME NEW i \in DOMAIN g
               PROVE  /\ g[i] = Begin(s) => i <= n /\ s \in DOMAIN at /\ i = at[s]
                      /\ g[i] = End(s) => i <= n /\ s \in DOMAIN at /\ i = at[s] + 2
    OBVIOUS
  <2>1. CASE i <= n
    <3>1. i \in 1 .. Len(f) /\ g[i] = f[i]
      BY <1>1, <2>1
    <3> QED BY <2>1, <3>1 DEF Lays
  <2>2. CASE ~(i <= n)
    <3>1. g[i] = <<"partial">>
      <4>1. n \in Nat /\ i \in Nat /\ i \in 1 .. n + 1
        BY <1>1
      <4>2. i = n + 1
        BY <2>2, <4>1
      <4> QED BY <1>1, <4>2
    <3>2. <<"partial">> # Begin(s) /\ <<"partial">> # End(s)
      BY LinesDiffer
    <3> QED BY <3>1, <3>2
  <2> QED BY <2>1, <2>2
<1>3. WellFormed(g, s)
  BY DEF Parses, g
<1>4. CASE s \in DOMAIN at /\ at[s] <= n
  <2>1. /\ at[s] \in Nat \ {0} /\ f[at[s]] = Begin(s)
        /\ \E x \in c[s] : f[at[s] + 1] = Load(x)
    BY <1>4 DEF Lays
  <2>2. at[s] \in DOMAIN g /\ g[at[s]] = Begin(s)
    BY <1>1, <1>4, <2>1
  <2>3. Opens(g, s) = {at[s]}
    <3>1. Opens(g, s) = {i \in DOMAIN g : g[i] = Begin(s) /\ \A j \in 1 .. i - 1 : g[j] # Begin(s)}
      BY DEF Opens, Begin
    <3>2. \A j \in 1 .. at[s] - 1 : j \in DOMAIN g /\ j # at[s]
      BY <1>1, <1>4, <2>1
    <3>3. \A j \in 1 .. at[s] - 1 : g[j] # Begin(s)
      BY <1>2, <3>2
    <3> QED BY <1>2, <2>2, <3>1, <3>3
  <2>4. PICK j \in Closes(g, s) : TRUE
    BY <1>3, <2>3 DEF WellFormed
  <2>5. j \in DOMAIN g /\ g[j] = End(s)
    BY <2>4 DEF Closes, End
  <2>6. j = at[s] + 2 /\ at[s] + 2 <= n
    BY <1>2, <2>5
  <2>7. g[at[s] + 1] = f[at[s] + 1] /\ at[s] + 1 \in DOMAIN g
    BY <1>1, <2>1, <2>6
  <2>8. g[at[s] + 1] # Begin(s) /\ g[at[s] + 1] # <<"blank">>
    BY <2>1, <2>7, LinesDiffer
  <2>9. Closes(g, s) = {at[s] + 2}
    BY <1>2, <2>4, <2>6 DEF Closes, End
  <2>10. Inside(g, s) = {at[s] + 1}
    BY <1>1, <2>1, <2>3, <2>7, <2>8, <2>9 DEF Inside, Begin
  <2> QED BY <1>4, <2>6, <2>7, <2>10 DEF Payloads, g
<1>5. CASE ~(s \in DOMAIN at /\ at[s] <= n)
  <2>1. Opens(g, s) = {}
    BY <1>2, <1>5 DEF Opens, Begin
  <2>2. Inside(g, s) = {}
    BY <2>1 DEF Inside
  <2> QED BY <1>5, <2>2 DEF Payloads, g
<1> QED BY <1>4, <1>5

\* Whole sections from the front.
LEMMA LoadsWhole ==
  ASSUME NEW d \in Deployments, NEW h \in Holders, NEW r \in Loads[d][h]
  PROVE  LET c == Issued(d.chain[h])
         IN  /\ \A s \in Sections : r[s] \in {{}, c[s]}
             /\ \A s, t \in Sections : Before(s, t) /\ r[t] # {} => r[s] = c[s]
             /\ r["account"] # {} \/ r["user"] # {}
<1> DEFINE c == Issued(d.chain[h])
<1>0. PICK f \in Files(c) : \E n \in 0 .. Len(f), partial \in BOOLEAN :
        Parses(Cut(f, n, partial)) /\ r = Parse(Cut(f, n, partial))
  BY DEF Loads, Loadable, Remains
<1>1. PICK n \in 0 .. Len(f), partial \in BOOLEAN :
        Parses(Cut(f, n, partial)) /\ r = Parse(Cut(f, n, partial))
  BY <1>0
<1> DEFINE g == Cut(f, n, partial)
<1>2. PICK at : DOMAIN at = {s \in Sections : c[s] # {}} /\ Lays(f, c, at)
  BY <1>1, FilesLay
<1>3. \A s \in Sections : \A x, y \in c[s] : x = y
  <2> DEFINE C == d.chain[h]
  <2>1. \A u, v \in C.user : u = v
    BY DEF Deployment
  <2>2. /\ c["account"] \in {{}, {C.account}}
        /\ c["user"] = C.user
        /\ c["seed"] \in {{}, Subject(C.account, C.user)}
    BY DEF Issued, Sections
  <2> HIDE DEF c, C
  <2>3. \A x, y \in Subject(C.account, C.user) : x = y
    BY <2>1 DEF Subject
  <2> QED BY <2>1, <2>2, <2>3 DEF Sections
<1> HIDE DEF c
<1>4. ASSUME NEW s \in Sections
      PROVE  IF s \in DOMAIN at /\ at[s] <= n THEN at[s] + 2 <= n /\ r[s] = c[s] ELSE r[s] = {}
  <2>1. IF s \in DOMAIN at /\ at[s] <= n
        THEN at[s] + 2 <= n /\ Payloads(g, s) = {f[at[s] + 1]}
        ELSE Payloads(g, s) = {}
    BY <1>1, <1>2, CutParses
  <2>2. r[s] = {IF l[1] = "payload" THEN l[2] ELSE Mangled : l \in Payloads(g, s)}
    BY <1>1 DEF Parse
  <2> HIDE DEF g
  <2>3. CASE s \in DOMAIN at /\ at[s] <= n
    <3>1. PICK x \in c[s] : f[at[s] + 1] = Load(x)
      BY <1>2, <2>3 DEF Lays
    <3>2. Load(x)[1] = "payload" /\ Load(x)[2] = x
      BY DEF Load
    <3>3. Payloads(g, s) = {Load(x)}
      BY <2>1, <2>3, <3>1
    <3>4. r[s] = {x}
      BY <2>2, <3>2, <3>3
    <3> QED BY <1>3, <2>1, <2>3, <3>4
  <2> QED BY <2>1, <2>2, <2>3
<1>5. ASSUME NEW s \in Sections, NEW t \in Sections, Before(s, t), r[t] # {} PROVE r[s] = c[s]
  <2>1. t \in DOMAIN at /\ at[t] <= n
    BY <1>4, <1>5
  <2>2. CASE s \in DOMAIN at
    <3>1. at[s] \in Nat /\ at[t] \in Nat /\ at[s] + 2 < at[t] /\ n \in Int
      BY <1>2, <1>5, <2>1, <2>2 DEF Lays
    <3> QED BY <1>4, <2>1, <2>2, <3>1
  <2>3. CASE s \notin DOMAIN at
    BY <1>2, <1>4, <2>3
  <2> QED BY <2>2, <2>3
<1>6. r["account"] # {} \/ r["user"] # {}
  BY <1>1 DEF Parses, Parse, Sections
<1>7. \A s \in Sections : r[s] \in {{}, c[s]}
  BY <1>4
<1> QED BY <1>5, <1>6, <1>7 DEF c

-----------------------------------------------------------------------------
(* The definitions of AuthTransport in one fixed deployment d: a deployment  *)
(* never changes, and what is told of d does not depend on the state.        *)

WireIn(d, op) == IF d.scheme = "http" THEN [op EXCEPT !["paths"] = Escape(@)] ELSE op
PlainIn(d, wire) == IF d.scheme = "http" THEN [wire EXCEPT !["paths"] = Unescape(@)] ELSE wire

SignedIn(d, h, op) ==
  CASE d.client[h] = "direct" -> op
    [] d.client[h] = "httpx" -> PlainIn(d, WireIn(d, op))
    [] d.client[h] = "requests" -> WireIn(d, op)
    [] d.client[h] = "grpc" -> [op EXCEPT !["methods"] = FullMethod(<<"authority", @[1]>>, @[2])]

PresentedIn(d, account, user) ==
  IF account # {} THEN account ELSE {a \in d.resolved : \E u \in user : u.iss = a.sub}

ChainsIn(d, account, user) ==
  {[account |-> a, user |-> user] :
     a \in {b \in PresentedIn(d, account, user) : \A u \in user : u.iss = b.sub}}

CredsIn(d, h) == Issued(d.chain[h])
IdentityIn(d, h) == ChainsIn(d, CredsIn(d, h)["account"], CredsIn(d, h)["user"])

VerifiedIn(d, m, op) ==
  {x \in ChainsIn(d, m.account, m.user) :
     IF m.signature = {} THEN IsBearer(x)
     ELSE \A s \in m.signature : /\ s.by \in Subject(x.account, x.user)
                                 /\ s.context = <<d.scheme, op, m.nonce>>}

SuppressedIn(d, m) == d.replay /\ m.signature # {}

\* Request i of net is what its holder attached to it.
Attached(d, m, i) ==
  LET c == CredsIn(d, m.holder) IN
  /\ m.holder \in Holders /\ m.op \in d.operations /\ m.nonce \subseteq {i}
  /\ m.account \in {{}, c["account"]} /\ m.user \in {{}, c["user"]}
  /\ m.user # {} => m.account = c["account"]
  /\ \E seed \in {{}, c["seed"]} :
       /\ m.signature = {[by |-> k, context |-> <<d.scheme, SignedIn(d, m.holder, m.op), m.nonce>>] :
                         k \in seed}
       /\ seed # {} => m.user = c["user"] /\ m.account = c["account"]

LEMMA SameHere ==
  /\ \A op : Wire(op) = WireIn(deployment, op)
  /\ \A op : Plain(op) = PlainIn(deployment, op)
  /\ \A h, op : SignedOp(deployment.client[h], op) = SignedIn(deployment, h, op)
  /\ \A a, u : Chains(a, u) = ChainsIn(deployment, a, u)
  /\ \A h : CredsOf(h) = CredsIn(deployment, h) /\ IdentityOf(h) = IdentityIn(deployment, h)
  /\ \A m, op : Verified(m, op) = VerifiedIn(deployment, m, op)
  /\ \A m : Suppressed(m) = SuppressedIn(deployment, m)
<1>1. \A op : Wire(op) = WireIn(deployment, op) /\ Plain(op) = PlainIn(deployment, op)
  BY DEF Wire, WireIn, Plain, PlainIn, scheme
<1>2. \A h, op : SignedOp(deployment.client[h], op) = SignedIn(deployment, h, op)
  BY <1>1 DEF SignedOp, SignedIn
<1>3. \A a, u : Chains(a, u) = ChainsIn(deployment, a, u)
  <2>1. \A a, u : Presented(a, u) = PresentedIn(deployment, a, u)
    BY DEF Presented, PresentedIn
  <2> QED BY <2>1 DEF Chains, ChainsIn
<1>4. \A h : CredsOf(h) = CredsIn(deployment, h) /\ IdentityOf(h) = IdentityIn(deployment, h)
  BY <1>3 DEF CredsOf, CredsIn, IdentityOf, IdentityIn
<1>5. \A m, op : Verified(m, op) = VerifiedIn(deployment, m, op)
  BY <1>3 DEF Verified, VerifiedIn, Context, scheme
<1>6. \A m : Suppressed(m) = SuppressedIn(deployment, m)
  BY DEF Suppressed, SuppressedIn
<1> QED BY <1>1, <1>2, <1>3, <1>4, <1>5, <1>6

-----------------------------------------------------------------------------
(* The operation as the two sides see it.                                    *)

LEMMA EscapeTwice ==
  ASSUME NEW t \in Seq(Symbols)
  PROVE  Unescape(Escape(t)) = t
<1>1. DOMAIN t = 1 .. Len(t) /\ \A i \in DOMAIN t : t[i] \in Symbols
  BY LenProperties, ElementOfSeq
<1>2. /\ DOMAIN Escape(t) = DOMAIN t
      /\ \A i \in DOMAIN t : Escape(t)[i] = IF t[i] = " " THEN "%20" ELSE t[i]
  BY DEF Escape
<1>3. DOMAIN Unescape(Escape(t)) = DOMAIN t /\ \A i \in DOMAIN t : Unescape(Escape(t))[i] = t[i]
  <2>1. \A i \in DOMAIN t : (IF Escape(t)[i] = "%20" THEN " " ELSE Escape(t)[i]) = t[i]
    BY <1>1, <1>2
  <2>2. \A i \in DOMAIN t : Unescape(Escape(t))[i] = IF Escape(t)[i] = "%20" THEN " " ELSE Escape(t)[i]
    BY <1>2 DEF Unescape
  <2> QED BY <1>2, <2>1, <2>2 DEF Unescape
<1>4. t = [i \in DOMAIN t |-> t[i]] /\ Unescape(Escape(t)) = [i \in DOMAIN t |-> Unescape(Escape(t))[i]]
  <2>1. t \in [DOMAIN t -> Symbols]
    BY LenProperties
  <2>2. Unescape(Escape(t)) = [i \in DOMAIN t |-> IF Escape(t)[i] = "%20" THEN " " ELSE Escape(t)[i]]
    BY <1>2 DEF Unescape
  <2> QED BY <2>1, <2>2
<1> QED BY <1>3, <1>4

LEMMA EscapeOfSymbols ==
  ASSUME NEW t \in Seq(Symbols), Escape(t) \in Seq(Symbols)
  PROVE  Escape(t) = t
<1>1. DOMAIN t = 1 .. Len(t)
  BY LenProperties
<1>2. \A i \in DOMAIN t : t[i] # " "
  <2>1. \A i \in DOMAIN t : Escape(t)[i] = IF t[i] = " " THEN "%20" ELSE t[i]
    BY DEF Escape
  <2>2. DOMAIN Escape(t) = DOMAIN t
    BY DEF Escape
  <2>3. \A i \in DOMAIN t : Escape(t)[i] \in Symbols
    BY <2>2, LenProperties, ElementOfSeq
  <2> QED BY <2>1, <2>3
<1>3. Escape(t) = [i \in DOMAIN t |-> t[i]]
  BY <1>2 DEF Escape
<1> QED BY <1>1, <1>3, LenProperties

LEMMA PlainOfWire ==
  ASSUME NEW d \in Deployments, NEW op \in d.operations
  PROVE  PlainIn(d, WireIn(d, op)) = op
<1>1. op \in [Dims(d.scheme) -> Seq(Symbols)]
  BY DEF Deployment
<1>2. CASE d.scheme = "http"
  <2>1. "paths" \in DOMAIN op /\ op["paths"] \in Seq(Symbols)
    BY <1>1, <1>2 DEF Dims
  <2>2. Unescape(Escape(op["paths"])) = op["paths"]
    BY <2>1, EscapeTwice
  <2>3. PlainIn(d, WireIn(d, op)) = [op EXCEPT !["paths"] = Unescape(Escape(op["paths"]))]
    BY <1>1, <1>2, <2>1 DEF PlainIn, WireIn
  <2> QED BY <1>1, <2>1, <2>2, <2>3
<1>3. CASE d.scheme # "http"
  BY <1>3 DEF PlainIn, WireIn
<1> QED BY <1>2, <1>3

\* A client signs the operation it asks for, unless the path is escaped; and no
\* operation is the escaped form of another one.
LEMMA SignsWhatItAsks ==
  ASSUME NEW d \in Deployments, NEW h \in Holders, NEW op \in d.operations
  PROVE  /\ SignedIn(d, h, op) \in {op, WireIn(d, op)}
         /\ ~(d.client[h] = "requests" /\ WireIn(d, op) # op) => SignedIn(d, h, op) = op
         /\ WireIn(d, op) \in d.operations => WireIn(d, op) = op
<1>1. /\ op \in [Dims(d.scheme) -> Seq(Symbols)] /\ d.scheme \in Schemes
      /\ \A q \in d.operations : q \in [Dims(d.scheme) -> Seq(Symbols)]
      /\ d.scheme = "grpc" => Len(op["methods"]) = 2
      /\ d.client[h] \in IF d.scheme = "http" THEN {"direct", "httpx", "requests"} ELSE {"grpc"}
  BY DEF Deployment
<1>2. PlainIn(d, WireIn(d, op)) = op
  BY PlainOfWire
<1>3. ASSUME d.client[h] = "grpc"
      PROVE  [op EXCEPT !["methods"] = FullMethod(<<"authority", @[1]>>, @[2])] = op
  <2> DEFINE t == op["methods"]
  <2>1. d.scheme = "grpc" /\ t \in Seq(Symbols) /\ Len(t) = 2 /\ DOMAIN op = {"methods"}
    BY <1>1, <1>3 DEF Schemes, Dims
  <2>2. FullMethod(<<"authority", t[1]>>, t[2]) = <<t[1], t[2]>>
    BY DEF FullMethod
  <2>3. <<t[1], t[2]>> = t
    <3>1. t \in [1 .. 2 -> Symbols]
      BY <2>1, LenProperties
    <3> QED BY <3>1
  <2>4. [op EXCEPT !["methods"] = FullMethod(<<"authority", t[1]>>, t[2])] = op
    <3> HIDE DEF t
    <3>1. op["methods"] = t
      BY DEF t
    <3> QED BY <1>1, <2>1, <2>2, <2>3, <3>1
  <2> QED BY <2>4
<1>4. WireIn(d, op) \in d.operations => WireIn(d, op) = op
  <2> SUFFICES ASSUME WireIn(d, op) \in d.operations, d.scheme = "http" PROVE WireIn(d, op) = op
    BY DEF WireIn
  <2>1. "paths" \in DOMAIN op /\ op["paths"] \in Seq(Symbols)
    BY <1>1 DEF Dims
  <2>2. WireIn(d, op) = [op EXCEPT !["paths"] = Escape(op["paths"])]
    BY DEF WireIn
  <2>3. WireIn(d, op)["paths"] = Escape(op["paths"])
    BY <2>1, <2>2, <1>1
  <2>4. Escape(op["paths"]) \in Seq(Symbols)
    BY <1>1, <2>3 DEF Dims
  <2>5. Escape(op["paths"]) = op["paths"]
    BY <2>1, <2>4, EscapeOfSymbols
  <2> QED BY <1>1, <2>2, <2>5
<1>5. SignedIn(d, h, op) = CASE d.client[h] = "requests" -> WireIn(d, op) [] OTHER -> op
  BY <1>1, <1>2, <1>3 DEF SignedIn
<1> QED BY <1>4, <1>5

-----------------------------------------------------------------------------
(* Who a request is from, and whether its signature holds.                   *)

LEMMA ChainOf ==
  ASSUME NEW d \in Deployments, NEW h \in Holders
  PROVE  LET C == d.chain[h]
             c == CredsIn(d, h)
         IN  /\ c["user"] = C.user /\ \A u, v \in C.user : u = v
             /\ c["account"] \in {{}, {C.account}}
             /\ (C.user = {} => c["account"] = {C.account})
             /\ c["seed"] \in {{}, Subject(C.account, C.user)}
             /\ \A u \in C.user : u.iss = C.account.sub
             /\ \A tok \in {C.account} \cup C.user \cup d.resolved : Asks(tok)
             /\ \A a, b \in d.resolved : a.sub = b.sub => a = b
<1> DEFINE C == d.chain[h]
           c == CredsIn(d, h)
<1>1. /\ \A u, v \in C.user : u = v
      /\ \A u \in C.user : u.iss = C.account.sub
      /\ \A tok \in {C.account} \cup C.user : Asks(tok)
      /\ \A a, b \in d.resolved : Asks(a) /\ (a.sub = b.sub => a = b)
  BY DEF Deployment
<1>2. /\ c["account"] = IF C.user = {} \/ C.bundled THEN {C.account} ELSE {}
      /\ c["user"] = C.user
      /\ c["seed"] = IF C.seeded THEN Subject(C.account, C.user) ELSE {}
  BY DEF CredsIn, Issued, Sections
<1> HIDE DEF C, c
<1>3. /\ c["user"] = C.user /\ \A u, v \in C.user : u = v
      /\ c["account"] \in {{}, {C.account}}
      /\ (C.user = {} => c["account"] = {C.account})
      /\ c["seed"] \in {{}, Subject(C.account, C.user)}
      /\ \A u \in C.user : u.iss = C.account.sub
      /\ \A tok \in {C.account} \cup C.user \cup d.resolved : Asks(tok)
      /\ \A a, b \in d.resolved : a.sub = b.sub => a = b
  BY <1>1, <1>2
<1> QED BY <1>3 DEF C, c

LEMMA IdentityUnique ==
  ASSUME NEW d \in Deployments, NEW h \in Holders
  PROVE  /\ \A x, y \in IdentityIn(d, h) : x = y
         /\ \A x \in IdentityIn(d, h) :
              /\ x = [account |-> x.account, user |-> d.chain[h].user]
              /\ x.account \in d.resolved \cup {d.chain[h].account}
              /\ d.chain[h].user = {} => x.account = d.chain[h].account
<1> DEFINE C == d.chain[h]
           c == CredsIn(d, h)
           P == PresentedIn(d, c["account"], C.user)
<1>1. /\ c["user"] = C.user /\ \A u, v \in C.user : u = v
      /\ c["account"] \in {{}, {C.account}}
      /\ (C.user = {} => c["account"] = {C.account})
      /\ \A a, b \in d.resolved : a.sub = b.sub => a = b
  BY ChainOf
<1>2. IdentityIn(d, h) = {[account |-> a, user |-> C.user] : a \in {b \in P : \A u \in C.user : u.iss = b.sub}}
  BY <1>1 DEF IdentityIn, ChainsIn
<1> HIDE DEF C, c
<1>3. \A a, b \in P : a = b
  BY <1>1 DEF PresentedIn
<1>4. \A a \in P : a \in d.resolved \cup {C.account} /\ (C.user = {} => a = C.account)
  BY <1>1 DEF PresentedIn
<1> HIDE DEF P
<1> QED BY <1>2, <1>3, <1>4 DEF C

\* What verifies is the one identity of the holder.
LEMMA VerifiedIsIdentity ==
  ASSUME NEW d \in Deployments, NEW m, NEW i, Attached(d, m, i), NEW op,
         VerifiedIn(d, m, op) # {}
  PROVE  VerifiedIn(d, m, op) = IdentityIn(d, m.holder) /\ \E x : VerifiedIn(d, m, op) = {x}
<1> DEFINE h == m.holder
           C == d.chain[h]
           c == CredsIn(d, h)
<1>0. h \in Holders
  BY DEF Attached
<1>1. PICK x \in ChainsIn(d, m.account, m.user) : x \in VerifiedIn(d, m, op)
  BY DEF VerifiedIn
<1>2. /\ c["user"] = C.user
      /\ (C.user = {} => c["account"] = {C.account})
      /\ c["account"] \in {{}, {C.account}}
  BY <1>0, ChainOf
<1>3. /\ m.account \in {{}, c["account"]} /\ m.user \in {{}, c["user"]}
      /\ m.user # {} => m.account = c["account"]
      /\ m.signature # {} => m.user = c["user"] /\ m.account = c["account"]
  BY DEF Attached
<1>4. x.user = m.user /\ (m.signature = {} => IsBearer(x))
  BY <1>1 DEF ChainsIn, VerifiedIn
<1>5. m.account # {} \/ m.user # {}
  <2> SUFFICES ASSUME m.account = {}, m.user = {} PROVE FALSE
    OBVIOUS
  <2> QED BY <1>1 DEF ChainsIn, PresentedIn
<1> HIDE DEF h, C, c
<1>6. m.user = c["user"] /\ m.account = c["account"]
  <2>1. CASE m.user # {}
    BY <1>3, <2>1
  <2>2. CASE m.user = {} /\ m.signature # {}
    BY <1>3, <2>2
  <2>3. CASE m.user = {} /\ m.signature = {}
    BY <1>4, <2>3 DEF IsBearer
  <2> QED BY <2>1, <2>2, <2>3
<1>7. ChainsIn(d, m.account, m.user) = IdentityIn(d, h)
  BY <1>6 DEF IdentityIn, c
<1>8. \A y, z \in IdentityIn(d, h) : y = z
  BY <1>0, IdentityUnique
<1>9. VerifiedIn(d, m, op) \subseteq IdentityIn(d, h)
  BY <1>7 DEF VerifiedIn
<1> QED BY <1>1, <1>8, <1>9 DEF h

\* A request that arrives as it was sent, with all its holder has to attach,
\* verifies if it has a signature or its user is a bearer.
LEMMA WholeVerifies ==
  ASSUME NEW d \in Deployments, NEW m, NEW i, Attached(d, m, i),
         m.account = CredsIn(d, m.holder)["account"], m.user = CredsIn(d, m.holder)["user"],
         ~(d.client[m.holder] = "requests" /\ WireIn(d, m.op) # m.op),
         IdentityIn(d, m.holder) # {},
         m.signature = {} => \E x \in IdentityIn(d, m.holder) : IsBearer(x)
  PROVE  VerifiedIn(d, m, m.op) # {}
<1> DEFINE h == m.holder
           C == d.chain[h]
           c == CredsIn(d, h)
<1>0. h \in Holders /\ m.op \in d.operations
  BY DEF Attached
<1>1. ChainsIn(d, m.account, m.user) = IdentityIn(d, h)
  BY DEF IdentityIn
<1>2. PICK x \in IdentityIn(d, h) : m.signature = {} => IsBearer(x)
  OBVIOUS
<1>3. /\ x.user = C.user /\ (C.user = {} => x.account = C.account)
  BY <1>0, <1>2, IdentityUnique
<1>4. SignedIn(d, h, m.op) = m.op
  BY <1>0, SignsWhatItAsks
<1>5. c["seed"] \subseteq Subject(C.account, C.user)
  BY <1>0, ChainOf
<1>6. PICK seed \in {{}, c["seed"]} :
        m.signature = {[by |-> k, context |-> <<d.scheme, m.op, m.nonce>>] : k \in seed}
  BY <1>4 DEF Attached
<1> HIDE DEF h, C, c
<1>7. Subject(x.account, x.user) = Subject(C.account, C.user)
  BY <1>3 DEF Subject
<1>8. \A s \in m.signature : s.by \in Subject(x.account, x.user)
                             /\ s.context = <<d.scheme, m.op, m.nonce>>
  BY <1>5, <1>6, <1>7
<1> QED BY <1>1, <1>2, <1>8 DEF VerifiedIn

\* Whoever is no bearer has signed the operation that is served.
LEMMA SignedIsServed ==
  ASSUME NEW d \in Deployments, NEW m, NEW i, Attached(d, m, i), NEW op \in d.operations,
         NEW x \in VerifiedIn(d, m, op), ~IsBearer(x)
  PROVE  m.signature # {} /\ op = m.op
<1>1. m.signature # {} /\ \A s \in m.signature : s.context = <<d.scheme, op, m.nonce>>
  BY DEF VerifiedIn
<1>2. PICK s \in m.signature : s.context = <<d.scheme, SignedIn(d, m.holder, m.op), m.nonce>>
  BY <1>1 DEF Attached
<1>3. op = SignedIn(d, m.holder, m.op)
  BY <1>1, <1>2
<1>4. m.holder \in Holders /\ m.op \in d.operations
  BY DEF Attached
<1>5. SignedIn(d, m.holder, m.op) \in {m.op, WireIn(d, m.op)}
  BY <1>4, SignsWhatItAsks
<1>6. WireIn(d, m.op) \in d.operations => WireIn(d, m.op) = m.op
  BY <1>4, SignsWhatItAsks
<1> QED BY <1>1, <1>3, <1>5, <1>6

\* What is authorized is what the issuers of the identity allow.
LEMMA AuthorizedIsAllowed ==
  ASSUME NEW d \in Deployments, NEW h \in Holders, NEW x \in IdentityIn(d, h),
         NEW op \in d.operations
  PROVE  /\ x \in AllIdentities
         /\ AuthorizeExt(d.scheme, x, op, d.allowMissing) <=> op \in Allowance[d][x]
<1> DEFINE C == d.chain[h]
<1>1. /\ x = [account |-> x.account, user |-> C.user]
      /\ x.account \in d.resolved \cup {C.account}
  BY IdentityUnique
<1>2. \A tok \in {C.account} \cup C.user \cup d.resolved : Asks(tok)
  BY ChainOf
<1>3. x \in AllIdentities
  BY <1>1 DEF AllIdentities
<1>4. x.user = C.user
  BY <1>1
<1> HIDE DEF C
<1>5. \A tok \in {x.account} \cup x.user :
        Permits(d.scheme, tok, op, d.allowMissing) <=> Allows(d, tok, op)
  BY <1>1, <1>2, <1>4, PermitsIsAllows
<1>6. Allowance[d][x] = {q \in d.operations : \A tok \in {x.account} \cup x.user : Allows(d, tok, q)}
  BY <1>3 DEF Allowance
<1> QED BY <1>3, <1>5, <1>6 DEF AuthorizeExt

-----------------------------------------------------------------------------
(* The inductive invariant.                                                  *)

NetIsSeq == net \in Seq({net[i] : i \in DOMAIN net})
AllAttached == \A i \in DOMAIN net : Attached(deployment, net[i], i)

\* The nonce of request i is on record.
Recorded(i) == SuppressedIn(deployment, net[i]) => net[i].nonce # {} /\ net[i].nonce \subseteq seen

\* What is known of a worker that has taken request i for operation op.
Holds(w, i, op) ==
  LET V == VerifiedIn(deployment, net[i], op)
      authorized(x) == AuthorizeExt(deployment.scheme, x, op, deployment.allowMissing)
  IN  /\ pc[w] = "verified" => V # {} /\ Recorded(i)
      /\ (pc[w] = "verified" /\ SuppressedIn(deployment, net[i])) => i \in seen \ started
      /\ pc[w] = "handling" => V = {slot[w]} /\ authorized(slot[w])
      /\ (pc[w] = "refused" /\ status[w] = 403) =>
           Recorded(i) /\ \E x \in V : ~authorized(x)
      /\ (pc[w] = "refused" /\ status[w] = 401) =>
           \/ V = {}
           \/ SuppressedIn(deployment, net[i]) /\ (net[i].nonce = {} \/ net[i].nonce \subseteq seen)

JobFor(w, i, op) == job[w] = {[msg |-> i, wire |-> WireIn(deployment, op)]}

WorkerOK(w) ==
  /\ pc[w] \in Labels /\ status[w] \in Codes
  /\ reset[w] = NoIdentity
  /\ pc[w] # "handling" => slot[w] = NoIdentity
  /\ pc[w] = "idle" => job[w] = {}
  /\ pc[w] # "idle" => \E i \in DOMAIN net, op \in deployment.operations : JobFor(w, i, op) /\ Holds(w, i, op)

\* A nonce is spent for one worker, and before the handler runs.
SpentOnce ==
  /\ \A i \in started : SuppressedIn(deployment, net[i]) => i \in seen
  /\ \A v, w \in Workers : \A j \in job[v], k \in job[w] :
       v # w /\ pc[v] = "verified" /\ pc[w] = "verified" /\ j.msg = k.msg =>
         ~SuppressedIn(deployment, net[j.msg])

OfWorkers(f) == f = [w \in Workers |-> f[w]]

AInv ==
  /\ deployment \in Deployments
  /\ NetIsSeq /\ AllAttached
  /\ seen \subseteq DOMAIN net /\ started \subseteq DOMAIN net
  /\ OfWorkers(pc) /\ OfWorkers(job) /\ OfWorkers(status) /\ OfWorkers(slot) /\ OfWorkers(reset)
  /\ \A w \in Workers : WorkerOK(w)
  /\ SpentOnce

LEMMA JobTaken ==
  ASSUME NEW w, NEW i, NEW op \in deployment.operations, deployment \in Deployments, JobFor(w, i, op)
  PROVE  /\ Msg(w) = net[i] /\ Op(w) = op
         /\ Verified(Msg(w), Op(w)) = VerifiedIn(deployment, net[i], op)
         /\ Suppressed(Msg(w)) = SuppressedIn(deployment, net[i])
         /\ \A j \in job[w] : j.msg = i /\ j.wire = WireIn(deployment, op)
<1> DEFINE j == CHOOSE k \in job[w] : TRUE
<1>1. j = [msg |-> i, wire |-> WireIn(deployment, op)]
  BY DEF JobFor
<1>0. Msg(w) = net[j.msg] /\ Op(w) = Plain(j.wire)
  BY Zenon DEF Msg, Op
<1> HIDE DEF j
<1>2. Msg(w) = net[i]
  BY <1>0, <1>1
<1>3. Op(w) = PlainIn(deployment, WireIn(deployment, op))
  BY <1>0, <1>1, SameHere
<1>4. Op(w) = op
  BY <1>3, PlainOfWire
<1>5. \A k \in job[w] : k.msg = i /\ k.wire = WireIn(deployment, op)
  BY DEF JobFor
<1> QED BY <1>2, <1>4, <1>5, SameHere

LEMMA InitInv == Init => AInv
<1> SUFFICES ASSUME Init PROVE AInv
  OBVIOUS
<1>1. net = <<>> /\ DOMAIN net = {} /\ net \in Seq({net[i] : i \in DOMAIN net})
  BY DEF Init
<1>2. deployment \in Deployments /\ seen = {} /\ started = {}
  BY DEF Init
<1>3. OfWorkers(pc) /\ OfWorkers(job) /\ OfWorkers(status) /\ OfWorkers(slot) /\ OfWorkers(reset)
  BY DEF Init, OfWorkers
<1>4. \A w \in Workers : pc[w] = "idle" /\ job[w] = {} /\ status[w] = 200
                         /\ slot[w] = NoIdentity /\ reset[w] = NoIdentity
  BY DEF Init
<1>5. \A w \in Workers : WorkerOK(w)
  BY <1>4 DEF WorkerOK, Labels, Codes
<1>6. SpentOnce
  BY <1>2, <1>4 DEF SpentOnce
<1> QED BY <1>1, <1>2, <1>3, <1>5, <1>6 DEF AInv, NetIsSeq, AllAttached

\* What one step leaves alone of a worker.
Alone(v) ==
  /\ pc'[v] = pc[v] /\ job'[v] = job[v] /\ status'[v] = status[v]
  /\ slot'[v] = slot[v] /\ reset'[v] = reset[v]

LEMMA Frame ==
  ASSUME NEW v \in Workers, WorkerOK(v), Alone(v), deployment' = deployment,
         \A i \in DOMAIN net : i \in DOMAIN net' /\ net'[i] = net[i],
         seen \subseteq seen',
         pc[v] = "verified" =>
           \A j \in job[v] : SuppressedIn(deployment, net[j.msg]) /\ j.msg \in started' => j.msg \in started
  PROVE  WorkerOK(v)'
<1>1. CASE pc[v] = "idle"
  BY <1>1 DEF WorkerOK, Alone
<1>2. CASE pc[v] # "idle"
  <2>1. PICK i \in DOMAIN net, op \in deployment.operations : JobFor(v, i, op) /\ Holds(v, i, op)
    BY <1>2 DEF WorkerOK
  <2>2. i \in DOMAIN net' /\ net'[i] = net[i]
    OBVIOUS
  <2>3. JobFor(v, i, op)'
    BY <2>1 DEF JobFor, Alone
  <2>4. (pc[v] = "verified" /\ SuppressedIn(deployment, net[i]) /\ i \in started') => i \in started
    BY <2>1 DEF JobFor
  <2>5. Recorded(i) => Recorded(i)'
    BY <2>2 DEF Recorded
  <2>6. Holds(v, i, op)'
    BY <2>1, <2>2, <2>4, <2>5 DEF Holds, Alone
  <2> QED BY <1>2, <2>2, <2>3, <2>6 DEF WorkerOK, Alone
<1> QED BY <1>1, <1>2

LEMMA TransmitInv ==
  ASSUME AInv, NEW h \in Holders, NEW op \in deployment.operations, NEW kind,
         NEW account \in {{}, CredsIn(deployment, h)["account"]},
         NEW user \in {{}, CredsIn(deployment, h)["user"]},
         NEW seed \in {{}, CredsIn(deployment, h)["seed"]},
         user # {} => account = CredsIn(deployment, h)["account"],
         seed # {} => /\ user = CredsIn(deployment, h)["user"]
                      /\ account = CredsIn(deployment, h)["account"],
         Transmit(h, op, kind, account, user, seed)
  PROVE  AInv'
<1>1. PICK nonce \in {{}, {Len(net) + 1}} :
        net' = Append(net, [holder |-> h, op |-> op, kind |-> kind,
          account |-> account, user |-> user, nonce |-> nonce,
          signature |-> {[by |-> k, context |-> <<deployment.scheme, SignedIn(deployment, h, op), nonce>>] : k \in seed}])
  BY SameHere DEF Transmit, Nonce, Context, scheme
<1> DEFINE m == [holder |-> h, op |-> op, kind |-> kind,
          account |-> account, user |-> user, nonce |-> nonce,
          signature |-> {[by |-> k, context |-> <<deployment.scheme, SignedIn(deployment, h, op), nonce>>] : k \in seed}]
           n == Len(net) + 1
           R == {net[i] : i \in DOMAIN net}
<1>2. Attached(deployment, m, n)
  BY DEF Attached
<1>3. net' = Append(net, m)
  BY <1>1
<1> HIDE DEF m
<1>4. deployment' = deployment /\ UNCHANGED server
  BY DEF Transmit
<1>5. /\ n \in Nat /\ DOMAIN net = 1 .. n - 1 /\ DOMAIN net' = 1 .. n
      /\ \A i \in DOMAIN net : i \in DOMAIN net' /\ net'[i] = net[i]
      /\ net'[n] = m /\ net' \in Seq(R \cup {m})
  <2>1. net \in Seq(R \cup {m}) /\ m \in R \cup {m}
    <3>1. net \in Seq(R) /\ R \subseteq R \cup {m}
      BY DEF AInv, NetIsSeq
    <3> QED BY <3>1, SeqMonotonic
  <2> HIDE DEF R
  <2>2. Len(net) \in Nat /\ DOMAIN net = 1 .. Len(net)
    BY <2>1, LenProperties
  <2>3. /\ net' \in Seq(R \cup {m}) /\ Len(net') = Len(net) + 1
        /\ \A i \in 1 .. Len(net) : net'[i] = net[i]
        /\ net'[Len(net) + 1] = m
    BY <1>3, <2>1, AppendProperties
  <2>4. DOMAIN net' = 1 .. Len(net')
    BY <2>3, LenProperties
  <2> QED BY <2>2, <2>3, <2>4
<1>6. NetIsSeq'
  <2>1. R \cup {m} \subseteq {net'[i] : i \in DOMAIN net'}
    BY <1>5
  <2> QED BY <1>5, <2>1, SeqMonotonic DEF NetIsSeq
<1>7. AllAttached'
  <2>1. \A i \in DOMAIN net : Attached(deployment, net[i], i)
    BY DEF AInv, AllAttached
  <2>2. \A i \in DOMAIN net' : i \in DOMAIN net \/ i = n
    BY <1>5
  <2> QED BY <1>2, <1>4, <1>5, <2>1, <2>2 DEF AllAttached
<1>8. \A v \in Workers : WorkerOK(v)'
  <2> SUFFICES ASSUME NEW v \in Workers PROVE WorkerOK(v)'
    OBVIOUS
  <2>1. WorkerOK(v) /\ Alone(v)
    BY <1>4 DEF AInv, Alone, server
  <2> QED BY <1>4, <1>5, <2>1, Frame DEF server
<1>9. SpentOnce'
  <2>1. \A v \in Workers : \A j \in job[v] : pc[v] = "verified" => j.msg \in DOMAIN net
    BY DEF AInv, WorkerOK, JobFor
  <2> QED BY <1>4, <1>5, <2>1 DEF AInv, SpentOnce, server
<1> QED BY <1>4, <1>5, <1>6, <1>7, <1>8, <1>9 DEF AInv, server

LEMMA ClientInv ==
  ASSUME AInv, NEW h \in Holders, Client(h)
  PROVE  AInv'
<1>1. PICK op \in deployment.operations : Send(h, op) \/ SendBare(h, op)
  BY DEF Client
<1>2. deployment \in Deployments
  BY DEF AInv
<1>3. CASE Send(h, op)
  <2>1. PICK c \in Loads[deployment][h] : Transmit(h, op, "http", c["account"], c["user"], c["seed"])
    BY <1>3 DEF Send
  <2> DEFINE g == CredsIn(deployment, h)
  <2>2. /\ \A s \in Sections : c[s] \in {{}, g[s]}
        /\ \A s, t \in Sections : Before(s, t) /\ c[t] # {} => c[s] = g[s]
    BY <1>2, LoadsWhole DEF CredsIn
  <2> HIDE DEF g
  <2>3. /\ c["account"] \in {{}, g["account"]} /\ c["user"] \in {{}, g["user"]}
        /\ c["seed"] \in {{}, g["seed"]}
        /\ c["user"] # {} => c["account"] = g["account"]
        /\ c["seed"] # {} => c["user"] = g["user"] /\ c["account"] = g["account"]
    BY <2>2 DEF Sections, Before
  <2> QED BY <2>1, <2>3, TransmitInv DEF g
<1>4. CASE SendBare(h, op)
  <2>1. PICK kind : Transmit(h, op, kind, {}, {}, {})
    BY <1>4 DEF SendBare
  <2> QED BY <2>1, TransmitInv
<1> QED BY <1>1, <1>3, <1>4

\* Worker w takes its step; the others are left alone.
LEMMA OthersOK ==
  ASSUME AInv, NEW w \in Workers, deployment' = deployment, net' = net, seen \subseteq seen',
         \A v \in Workers \ {w} : Alone(v),
         \A v \in Workers \ {w} : pc[v] = "verified" =>
           \A j \in job[v] : SuppressedIn(deployment, net[j.msg]) /\ j.msg \in started' => j.msg \in started
  PROVE  \A v \in Workers \ {w} : WorkerOK(v)'
<1> SUFFICES ASSUME NEW v \in Workers \ {w} PROVE WorkerOK(v)'
  OBVIOUS
<1>1. WorkerOK(v)
  BY DEF AInv
<1> QED BY <1>1, Frame

\* What AInv asks beyond the workers, where a step leaves net alone.
LEMMA RestOK ==
  ASSUME AInv, deployment' = deployment, net' = net,
         seen' \subseteq DOMAIN net, started' \subseteq DOMAIN net,
         OfWorkers(pc)', OfWorkers(job)', OfWorkers(status)', OfWorkers(slot)', OfWorkers(reset)',
         \A w \in Workers : WorkerOK(w)', SpentOnce'
  PROVE  AInv'
BY DEF AInv, NetIsSeq, AllAttached

LEMMA SpentOnceKept ==
  ASSUME AInv, NEW w \in Workers, deployment' = deployment, net' = net, seen \subseteq seen',
         started' = started, \A v \in Workers \ {w} : Alone(v), pc'[w] # "verified"
  PROVE  SpentOnce'
<1>1. \A i \in started' : SuppressedIn(deployment', net'[i]) => i \in seen'
  BY DEF AInv, SpentOnce
<1>2. \A u, v \in Workers : \A j \in job'[u], k \in job'[v] :
        u # v /\ pc'[u] = "verified" /\ pc'[v] = "verified" /\ j.msg = k.msg =>
          ~SuppressedIn(deployment', net'[j.msg])
  BY DEF AInv, SpentOnce, Alone
<1> QED BY <1>1, <1>2 DEF SpentOnce

LEMMA WorkerInv ==
  ASSUME AInv, NEW w \in Workers, Worker(w)
  PROVE  AInv'
<1>0. /\ deployment \in Deployments /\ SpentOnce /\ WorkerOK(w)
      /\ seen \subseteq DOMAIN net /\ started \subseteq DOMAIN net
      /\ OfWorkers(pc) /\ OfWorkers(job) /\ OfWorkers(status) /\ OfWorkers(slot) /\ OfWorkers(reset)
      /\ AllAttached
  BY DEF AInv
<1>1. ASSUME pc[w] # "idle"
      PROVE  \E i \in DOMAIN net, op \in deployment.operations :
               /\ JobFor(w, i, op) /\ Holds(w, i, op)
               /\ Msg(w) = net[i] /\ Op(w) = op
               /\ Verified(Msg(w), Op(w)) = VerifiedIn(deployment, net[i], op)
               /\ Suppressed(Msg(w)) = SuppressedIn(deployment, net[i])
               /\ \A j \in job[w] : j.msg = i
  <2>1. PICK i \in DOMAIN net, op \in deployment.operations : JobFor(w, i, op) /\ Holds(w, i, op)
    BY <1>0, <1>1 DEF WorkerOK
  <2> QED BY <1>0, <2>1, JobTaken
<1>2. ASSUME NEW i \in DOMAIN net, Take(w, i) PROVE AInv'
  <2>1. PICK op \in deployment.operations :
          /\ pc[w] = "idle" /\ pc' = [pc EXCEPT ![w] = "received"]
          /\ job' = [job EXCEPT ![w] = {[msg |-> i, wire |-> WireIn(deployment, op)]}]
          /\ UNCHANGED <<deployment, net, seen, status, slot, reset, started>>
    BY <1>2, SameHere DEF Take
  <2>2. JobFor(w, i, op)' /\ pc'[w] = "received" /\ slot'[w] = slot[w] /\ reset'[w] = reset[w]
        /\ status'[w] = status[w]
    BY <1>0, <2>1 DEF JobFor, OfWorkers
  <2>3. \A v \in Workers \ {w} : Alone(v)
    BY <1>0, <2>1 DEF Alone, OfWorkers
  <2>4. Holds(w, i, op)'
    BY <2>2 DEF Holds
  <2>5. WorkerOK(w)'
    BY <1>0, <2>1, <2>2, <2>4 DEF WorkerOK, Labels
  <2>6. \A v \in Workers : WorkerOK(v)'
    BY <2>1, <2>3, <2>5, OthersOK
  <2>7. SpentOnce'
    BY <2>1, <2>2, <2>3, SpentOnceKept
  <2>8. OfWorkers(pc)' /\ OfWorkers(job)' /\ OfWorkers(status)' /\ OfWorkers(slot)' /\ OfWorkers(reset)'
    BY <1>0, <2>1 DEF OfWorkers
  <2> QED BY <1>0, <2>1, <2>6, <2>7, <2>8, RestOK
<1>3. ASSUME NEW code \in {401, 403}, Refuse(w, code), seen' = seen, pc[w] # "idle", pc[w] # "handling",
             \A i \in DOMAIN net, op \in deployment.operations : JobFor(w, i, op) =>
               /\ code = 403 => pc[w] = "verified" /\ \E x \in VerifiedIn(deployment, net[i], op) :
                    ~AuthorizeExt(deployment.scheme, x, op, deployment.allowMissing)
               /\ code = 401 =>
                    \/ VerifiedIn(deployment, net[i], op) = {}
                    \/ SuppressedIn(deployment, net[i])
                         /\ (net[i].nonce = {} \/ net[i].nonce \subseteq seen)
      PROVE  AInv'
  <2>1. PICK i \in DOMAIN net, op \in deployment.operations : JobFor(w, i, op) /\ Holds(w, i, op)
    BY <1>0, <1>3 DEF WorkerOK
  <2>2. /\ pc' = [pc EXCEPT ![w] = "refused"] /\ status' = [status EXCEPT ![w] = code]
        /\ UNCHANGED <<deployment, net, job, slot, reset, started>>
    BY <1>3 DEF Refuse
  <2>3. pc'[w] = "refused" /\ status'[w] = code
    BY <1>0, <2>2 DEF OfWorkers
  <2>4. \A v \in Workers \ {w} : Alone(v)
    BY <1>0, <2>2 DEF Alone, OfWorkers
  <2>5. JobFor(w, i, op)'
    BY <2>1, <2>2 DEF JobFor
  <2>a. Recorded(i)' <=> Recorded(i)
    BY <1>3, <2>2 DEF Recorded
  <2>6. Holds(w, i, op)'
    BY <1>3, <2>1, <2>2, <2>3, <2>a DEF Holds
  <2>7. WorkerOK(w)'
    BY <1>0, <1>3, <2>2, <2>3, <2>5, <2>6 DEF WorkerOK, Labels, Codes
  <2>8. \A v \in Workers : WorkerOK(v)'
    BY <1>3, <2>2, <2>4, <2>7, OthersOK
  <2>9. SpentOnce'
    BY <1>3, <2>2, <2>3, <2>4, SpentOnceKept
  <2>10. OfWorkers(pc)' /\ OfWorkers(job)' /\ OfWorkers(status)' /\ OfWorkers(slot)' /\ OfWorkers(reset)'
    BY <1>0, <2>2 DEF OfWorkers
  <2> QED BY <1>0, <1>3, <2>2, <2>8, <2>9, <2>10, RestOK
<1>4. CASE RefuseUnverified(w)
  <2>1. /\ pc[w] = "received" /\ Verified(Msg(w), Op(w)) = {} /\ Refuse(w, 401) /\ seen' = seen
    BY <1>4 DEF RefuseUnverified
  <2>2. \A i \in DOMAIN net, op \in deployment.operations : JobFor(w, i, op) =>
          VerifiedIn(deployment, net[i], op) = {}
    BY <1>0, <2>1, JobTaken
  <2> QED BY <1>3, <2>1, <2>2
<1>5. CASE RefuseNonce(w)
  <2>1. /\ pc[w] = "received" /\ Suppressed(Msg(w)) /\ Refuse(w, 401) /\ seen' = seen
        /\ Msg(w).nonce = {} \/ Msg(w).nonce \cap seen # {}
    BY <1>5 DEF RefuseNonce
  <2>2. \A i \in DOMAIN net : net[i].nonce \subseteq {i}
    BY <1>0 DEF AllAttached, Attached
  <2>3. ASSUME NEW i \in DOMAIN net, NEW op \in deployment.operations, JobFor(w, i, op)
        PROVE  SuppressedIn(deployment, net[i]) /\ (net[i].nonce = {} \/ net[i].nonce \subseteq seen)
    <3>1. Msg(w) = net[i] /\ Suppressed(Msg(w)) = SuppressedIn(deployment, net[i])
      BY <1>0, <2>3, JobTaken
    <3> QED BY <2>1, <2>2, <3>1
  <2> QED BY <1>3, <2>1, <2>3
<1>6. CASE Forbid(w)
  <2>1. /\ pc[w] = "verified" /\ Refuse(w, 403) /\ seen' = seen
        /\ \E x \in Verified(Msg(w), Op(w)) :
             ~AuthorizeExt(deployment.scheme, x, Op(w), deployment.allowMissing)
    BY <1>6 DEF Forbid, scheme
  <2>2. ASSUME NEW i \in DOMAIN net, NEW op \in deployment.operations, JobFor(w, i, op)
        PROVE  \E x \in VerifiedIn(deployment, net[i], op) :
                 ~AuthorizeExt(deployment.scheme, x, op, deployment.allowMissing)
    <3>1. Op(w) = op /\ Verified(Msg(w), Op(w)) = VerifiedIn(deployment, net[i], op)
      BY <1>0, <2>2, JobTaken
    <3> QED BY <2>1, <3>1
  <2> QED BY <1>3, <2>1, <2>2
<1>7. CASE Verify(w)
  <2>1. /\ pc[w] = "received" /\ Verified(Msg(w), Op(w)) # {}
        /\ IF Suppressed(Msg(w))
           THEN /\ Msg(w).nonce # {} /\ Msg(w).nonce \cap seen = {}
                /\ seen' = seen \cup Msg(w).nonce
           ELSE UNCHANGED seen
        /\ pc' = [pc EXCEPT ![w] = "verified"]
        /\ UNCHANGED <<deployment, net, job, status, slot, reset, started>>
    BY <1>7 DEF Verify
  <2>2. PICK i \in DOMAIN net, op \in deployment.operations :
          /\ JobFor(w, i, op) /\ Msg(w) = net[i]
          /\ Verified(Msg(w), Op(w)) = VerifiedIn(deployment, net[i], op)
          /\ Suppressed(Msg(w)) = SuppressedIn(deployment, net[i])
          /\ \A j \in job[w] : j.msg = i
    BY <1>1, <2>1
  <2>3. net[i].nonce \subseteq {i}
    BY <1>0 DEF AllAttached, Attached
  <2>4. /\ seen \subseteq seen' /\ seen' \subseteq DOMAIN net
        /\ SuppressedIn(deployment, net[i]) => i \in seen' \ seen
    BY <1>0, <2>1, <2>2, <2>3
  <2>5. pc'[w] = "verified"
    BY <1>0, <2>1 DEF OfWorkers
  <2>6. \A v \in Workers \ {w} : Alone(v)
    BY <1>0, <2>1 DEF Alone, OfWorkers
  <2>7. SuppressedIn(deployment, net[i]) => i \notin started
    BY <1>0, <2>4 DEF SpentOnce
  <2>8. JobFor(w, i, op)'
    BY <2>1, <2>2 DEF JobFor
  <2>a. Recorded(i)'
    BY <2>1, <2>2 DEF Recorded
  <2>9. Holds(w, i, op)'
    BY <2>1, <2>2, <2>4, <2>5, <2>7, <2>a DEF Holds
  <2>10. WorkerOK(w)'
    BY <1>0, <2>1, <2>5, <2>8, <2>9 DEF WorkerOK, Labels
  <2>11. \A v \in Workers : WorkerOK(v)'
    BY <2>1, <2>4, <2>6, <2>10, OthersOK
  <2>12. SpentOnce'
    <3>1. \A k \in started' : SuppressedIn(deployment', net'[k]) => k \in seen'
      BY <1>0, <2>1, <2>4 DEF SpentOnce
    <3>2. ASSUME NEW v \in Workers \ {w}, pc[v] = "verified", NEW j \in job[v], j.msg = i
          PROVE  ~SuppressedIn(deployment, net[i])
      <4>1. PICK k \in DOMAIN net, q \in deployment.operations : JobFor(v, k, q) /\ Holds(v, k, q)
        BY <3>2 DEF AInv, WorkerOK
      <4>2. k = i
        BY <3>2, <4>1 DEF JobFor
      <4>3. SuppressedIn(deployment, net[i]) => i \in seen
        BY <3>2, <4>1, <4>2 DEF Holds
      <4> QED BY <2>4, <4>3
    <3>3. ASSUME NEW u \in Workers, NEW v \in Workers, NEW j \in job'[u], NEW k \in job'[v],
                 u # v, pc'[u] = "verified", pc'[v] = "verified", j.msg = k.msg
          PROVE  ~SuppressedIn(deployment', net'[j.msg])
      <4>1. j \in job[u] /\ k \in job[v] /\ (u # w => pc[u] = "verified") /\ (v # w => pc[v] = "verified")
        BY <2>1, <2>6, <3>3 DEF Alone
      <4>2. CASE u = w
        BY <2>1, <2>2, <3>2, <3>3, <4>1, <4>2
      <4>3. CASE v = w
        BY <2>1, <2>2, <3>2, <3>3, <4>1, <4>3
      <4>4. CASE u # w /\ v # w
        BY <1>0, <2>1, <3>3, <4>1, <4>4 DEF SpentOnce
      <4> QED BY <4>2, <4>3, <4>4
    <3> QED BY <3>1, <3>3 DEF SpentOnce
  <2>13. OfWorkers(pc)' /\ OfWorkers(job)' /\ OfWorkers(status)' /\ OfWorkers(slot)' /\ OfWorkers(reset)'
    BY <1>0, <2>1 DEF OfWorkers
  <2> QED BY <1>0, <2>1, <2>4, <2>11, <2>12, <2>13, RestOK
<1>8. CASE Enter(w)
  <2>1. PICK x \in Verified(Msg(w), Op(w)) :
          /\ AuthorizeExt(deployment.scheme, x, Op(w), deployment.allowMissing)
          /\ slot' = [slot EXCEPT ![w] = x]
    BY <1>8 DEF Enter, scheme
  <2>2. /\ pc[w] = "verified" /\ pc' = [pc EXCEPT ![w] = "handling"]
        /\ reset' = [reset EXCEPT ![w] = slot[w]]
        /\ started' = started \cup {j.msg : j \in job[w]}
        /\ UNCHANGED <<deployment, net, seen, job, status>>
    BY <1>8 DEF Enter
  <2>3. PICK i \in DOMAIN net, op \in deployment.operations :
          /\ JobFor(w, i, op) /\ Holds(w, i, op) /\ Op(w) = op
          /\ Verified(Msg(w), Op(w)) = VerifiedIn(deployment, net[i], op)
          /\ \A j \in job[w] : j.msg = i
    BY <1>1, <2>2
  <2>4. VerifiedIn(deployment, net[i], op) = {x}
    <3>1. Attached(deployment, net[i], i)
      BY <1>0 DEF AllAttached
    <3>2. \E y : VerifiedIn(deployment, net[i], op) = {y}
      BY <1>0, <2>1, <2>3, <3>1, VerifiedIsIdentity
    <3> QED BY <2>1, <2>3, <3>2
  <2>5. started' = started \cup {i}
    BY <2>2, <2>3 DEF JobFor
  <2>6. pc'[w] = "handling" /\ slot'[w] = x /\ reset'[w] = NoIdentity /\ status'[w] = status[w]
    BY <1>0, <2>1, <2>2 DEF OfWorkers, WorkerOK
  <2>7. \A v \in Workers \ {w} : Alone(v)
    BY <1>0, <2>1, <2>2 DEF Alone, OfWorkers
  <2>8. JobFor(w, i, op)'
    BY <2>2, <2>3 DEF JobFor
  <2>9. Holds(w, i, op)'
    BY <2>1, <2>2, <2>3, <2>4, <2>6 DEF Holds
  <2>10. WorkerOK(w)'
    BY <1>0, <2>2, <2>6, <2>8, <2>9 DEF WorkerOK, Labels
  <2>11. \A v \in Workers \ {w} : pc[v] = "verified" =>
           \A j \in job[v] : SuppressedIn(deployment, net[j.msg]) /\ j.msg \in started' => j.msg \in started
    <3>1. \E k \in job[w] : k.msg = i
      BY <2>3 DEF JobFor
    <3>2. \A v \in Workers \ {w} : pc[v] = "verified" =>
            \A j \in job[v] : j.msg = i => ~SuppressedIn(deployment, net[j.msg])
      BY <1>0, <2>2, <3>1 DEF SpentOnce
    <3> QED BY <2>5, <3>2
  <2>12. \A v \in Workers : WorkerOK(v)'
    BY <2>2, <2>7, <2>10, <2>11, OthersOK
  <2>13. SpentOnce'
    <3>1. \A k \in started' : SuppressedIn(deployment', net'[k]) => k \in seen'
      BY <1>0, <2>2, <2>3, <2>5 DEF SpentOnce, Holds
    <3>2. \A u, v \in Workers : \A j \in job'[u], k \in job'[v] :
            u # v /\ pc'[u] = "verified" /\ pc'[v] = "verified" /\ j.msg = k.msg =>
              ~SuppressedIn(deployment', net'[j.msg])
      BY <1>0, <2>2, <2>6, <2>7 DEF SpentOnce, Alone
    <3> QED BY <3>1, <3>2 DEF SpentOnce
  <2>14. OfWorkers(pc)' /\ OfWorkers(job)' /\ OfWorkers(status)' /\ OfWorkers(slot)' /\ OfWorkers(reset)'
    BY <1>0, <2>1, <2>2 DEF OfWorkers
  <2> QED BY <1>0, <2>2, <2>5, <2>12, <2>13, <2>14, RestOK
<1>9. CASE PassThrough(w)
  <2>1. PICK l \in {"open", "refused"}, code \in {200, 404} :
          /\ pc[w] = "received" /\ pc' = [pc EXCEPT ![w] = l] /\ status' = [status EXCEPT ![w] = code]
          /\ UNCHANGED <<deployment, net, seen, job, slot, reset, started>>
    BY <1>9 DEF PassThrough
  <2>2. PICK i \in DOMAIN net, op \in deployment.operations : JobFor(w, i, op)
    BY <1>1, <2>1
  <2>3. pc'[w] = l /\ status'[w] = code /\ slot'[w] = slot[w] /\ reset'[w] = reset[w]
    BY <1>0, <2>1 DEF OfWorkers
  <2>4. \A v \in Workers \ {w} : Alone(v)
    BY <1>0, <2>1 DEF Alone, OfWorkers
  <2>5. JobFor(w, i, op)' /\ Holds(w, i, op)'
    BY <2>1, <2>2, <2>3 DEF JobFor, Holds
  <2>6. WorkerOK(w)'
    BY <1>0, <2>1, <2>3, <2>5 DEF WorkerOK, Labels, Codes
  <2>7. \A v \in Workers : WorkerOK(v)'
    BY <2>1, <2>4, <2>6, OthersOK
  <2>8. SpentOnce'
    BY <2>1, <2>3, <2>4, SpentOnceKept
  <2>9. OfWorkers(pc)' /\ OfWorkers(job)' /\ OfWorkers(status)' /\ OfWorkers(slot)' /\ OfWorkers(reset)'
    <3>1. OfWorkers(job)' /\ OfWorkers(slot)' /\ OfWorkers(reset)'
      BY <1>0, <2>1
    <3>2. OfWorkers(pc)'
      BY <1>0, <2>1 DEF OfWorkers
    <3>3. OfWorkers(status)'
      BY <1>0, <2>1 DEF OfWorkers
    <3> QED BY <3>1, <3>2, <3>3
  <2> QED BY <1>0, <2>1, <2>7, <2>8, <2>9, RestOK
<1>10. ASSUME Free(w), slot'[w] = NoIdentity, reset'[w] = NoIdentity,
              OfWorkers(slot)', OfWorkers(reset)',
              \A v \in Workers \ {w} : slot'[v] = slot[v] /\ reset'[v] = reset[v]
       PROVE  AInv'
  <2>1. /\ pc' = [pc EXCEPT ![w] = "idle"] /\ job' = [job EXCEPT ![w] = {}]
        /\ status' = [status EXCEPT ![w] = 200]
        /\ UNCHANGED <<deployment, net, seen, started>>
    BY <1>10 DEF Free
  <2>2. pc'[w] = "idle" /\ job'[w] = {} /\ status'[w] = 200
    BY <1>0, <2>1 DEF OfWorkers
  <2>3. \A v \in Workers \ {w} : Alone(v)
    BY <1>0, <1>10, <2>1 DEF Alone, OfWorkers
  <2>4. WorkerOK(w)'
    BY <1>10, <2>2 DEF WorkerOK, Labels, Codes
  <2>5. \A v \in Workers : WorkerOK(v)'
    BY <2>1, <2>3, <2>4, OthersOK
  <2>6. SpentOnce'
    BY <2>1, <2>2, <2>3, SpentOnceKept
  <2>7. OfWorkers(pc)' /\ OfWorkers(job)' /\ OfWorkers(status)'
    BY <1>0, <2>1 DEF OfWorkers
  <2> QED BY <1>0, <1>10, <2>1, <2>5, <2>6, <2>7, RestOK
<1>11. CASE Leave(w)
  <2>1. Free(w) /\ slot' = [slot EXCEPT ![w] = reset[w]] /\ reset' = [reset EXCEPT ![w] = NoIdentity]
    BY <1>11 DEF Leave
  <2>2. slot'[w] = NoIdentity /\ reset'[w] = NoIdentity
    BY <1>0, <2>1 DEF OfWorkers, WorkerOK
  <2>3. OfWorkers(slot)' /\ OfWorkers(reset)'
    BY <1>0, <2>1 DEF OfWorkers
  <2>4. \A v \in Workers \ {w} : slot'[v] = slot[v] /\ reset'[v] = reset[v]
    BY <1>0, <2>1 DEF OfWorkers
  <2> QED BY <1>10, <2>1, <2>2, <2>3, <2>4
<1>12. CASE Answer(w)
  <2>1. pc[w] \in {"refused", "open"} /\ Free(w) /\ UNCHANGED <<slot, reset>>
    BY <1>12 DEF Answer
  <2>2. slot'[w] = NoIdentity /\ reset'[w] = NoIdentity /\ OfWorkers(slot)' /\ OfWorkers(reset)'
    BY <1>0, <2>1 DEF WorkerOK, OfWorkers
  <2> QED BY <1>10, <2>1, <2>2
<1> QED BY <1>2, <1>4, <1>5, <1>6, <1>7, <1>8, <1>9, <1>11, <1>12 DEF Worker

LEMMA StutterInv ==
  ASSUME AInv, UNCHANGED vars
  PROVE  AInv'
<1>1. /\ deployment' = deployment /\ net' = net /\ seen' = seen /\ started' = started
      /\ pc' = pc /\ job' = job /\ status' = status /\ slot' = slot /\ reset' = reset
  BY DEF vars, server
<1>2. \A w \in Workers : WorkerOK(w)'
  BY <1>1, Frame DEF AInv, Alone
<1>3. SpentOnce'
  BY <1>1 DEF AInv, SpentOnce
<1>4. OfWorkers(pc)' /\ OfWorkers(job)' /\ OfWorkers(status)' /\ OfWorkers(slot)' /\ OfWorkers(reset)'
  BY <1>1 DEF AInv, OfWorkers
<1> QED BY <1>1, <1>2, <1>3, <1>4, RestOK DEF AInv

LEMMA InvHolds == Spec => []AInv
<1>1. AInv /\ [Next]_vars => AInv'
  BY ClientInv, WorkerInv, StutterInv DEF Next
<1> QED BY InitInv, <1>1, PTL DEF Spec

-----------------------------------------------------------------------------
(* What follows from the invariant.                                          *)

LEMMA InvWorker ==
  ASSUME AInv, NEW w \in Workers, pc[w] # "idle"
  PROVE  \E i \in DOMAIN net, op \in deployment.operations :
           /\ JobFor(w, i, op) /\ Holds(w, i, op)
           /\ Msg(w) = net[i] /\ Op(w) = op
           /\ Verified(Msg(w), Op(w)) = VerifiedIn(deployment, net[i], op)
           /\ Suppressed(Msg(w)) = SuppressedIn(deployment, net[i])
           /\ Attached(deployment, net[i], i) /\ net[i].holder \in Holders
<1>1. deployment \in Deployments /\ WorkerOK(w) /\ AllAttached
  BY DEF AInv
<1>2. PICK i \in DOMAIN net, op \in deployment.operations : JobFor(w, i, op) /\ Holds(w, i, op)
  BY <1>1 DEF WorkerOK
<1>3. Attached(deployment, net[i], i) /\ net[i].holder \in Holders
  BY <1>1 DEF AllAttached, Attached
<1> QED BY <1>1, <1>2, <1>3, JobTaken

\* Each variable keeps its type; an identity in a slot is one the holders have.
THEOREM TypeCorrect == Spec => []TypeOK
<1>1. AInv => TypeOK
  <2> SUFFICES ASSUME AInv PROVE TypeOK
    OBVIOUS
  <2>1. /\ deployment \in Deployments
        /\ seen \subseteq DOMAIN net /\ started \subseteq DOMAIN net
    BY DEF AInv
  <2>2. \A i \in DOMAIN net : net[i].holder \in Holders /\ net[i].op \in deployment.operations
                              /\ net[i].nonce \subseteq {i}
    BY DEF AInv, AllAttached, Attached
  <2>3. pc \in [Workers -> Labels] /\ status \in [Workers -> Codes]
    BY DEF AInv, OfWorkers, WorkerOK
  <2>4. \A w \in Workers : job[w] \in SUBSET Jobs
    <3> SUFFICES ASSUME NEW w \in Workers PROVE job[w] \in SUBSET Jobs
      OBVIOUS
    <3>1. CASE pc[w] = "idle"
      BY <3>1 DEF AInv, WorkerOK
    <3>2. CASE pc[w] # "idle"
      <4>1. PICK i \in DOMAIN net, op \in deployment.operations : JobFor(w, i, op)
        BY <3>2, InvWorker
      <4>2. i \in Nat
        BY LenProperties DEF AInv, NetIsSeq
      <4>3. WireIn(deployment, op) = Wire(op)
        BY SameHere
      <4> QED BY <4>1, <4>2, <4>3 DEF JobFor, Jobs
    <3> QED BY <3>1, <3>2
  <2>5. job \in [Workers -> SUBSET Jobs]
    BY <2>4 DEF AInv, OfWorkers
  <2>6. \A w \in Workers : {slot[w], reset[w]} \subseteq Known \cup {NoIdentity}
    <3> SUFFICES ASSUME NEW w \in Workers PROVE slot[w] \in Known \cup {NoIdentity}
      BY DEF AInv, WorkerOK
    <3>1. CASE pc[w] # "handling"
      BY <3>1 DEF AInv, WorkerOK
    <3>2. CASE pc[w] = "handling"
      <4>1. PICK i \in DOMAIN net, op \in deployment.operations :
              Holds(w, i, op) /\ Attached(deployment, net[i], i) /\ net[i].holder \in Holders
        BY <3>2, InvWorker
      <4>2. VerifiedIn(deployment, net[i], op) = {slot[w]}
        BY <3>2, <4>1 DEF Holds
      <4>3. slot[w] \in IdentityOf(net[i].holder)
        BY <2>1, <4>1, <4>2, VerifiedIsIdentity, SameHere
      <4> QED BY <4>1, <4>3 DEF Known
    <3> QED BY <3>1, <3>2
  <2> QED BY <2>1, <2>2, <2>3, <2>5, <2>6 DEF TypeOK
<1> QED BY <1>1, InvHolds, PTL

\* A cut creds file is refused or lacks whole sections at its end: what a client
\* attaches is never half of a token, and a seed signs only beside all the tokens it
\* was saved with (creds.py:87-97, 110-167).
THEOREM CredsWholeOrRefusedHolds == Spec => []CredsWholeOrRefused
<1>1. AInv => CredsWholeOrRefused
  <2> SUFFICES ASSUME AInv, NEW i \in DOMAIN net
               PROVE  LET m == net[i]
                          c == CredsOf(m.holder) IN
                      /\ m.account \in {{}, c["account"]} /\ m.user \in {{}, c["user"]}
                      /\ {s.by : s \in m.signature} \in {{}, c["seed"]}
                      /\ m.user # {} => m.account = c["account"]
                      /\ m.signature # {} => m.user = c["user"] /\ m.account = c["account"]
    BY DEF CredsWholeOrRefused
  <2> DEFINE m == net[i]
             c == CredsIn(deployment, m.holder)
  <2>1. Attached(deployment, m, i)
    BY DEF AInv, AllAttached
  <2>2. CredsOf(m.holder) = c
    BY SameHere
  <2>3. PICK seed \in {{}, c["seed"]} :
          /\ m.signature = {[by |-> k, context |-> <<deployment.scheme, SignedIn(deployment, m.holder, m.op), m.nonce>>] :
                            k \in seed}
          /\ seed # {} => m.user = c["user"] /\ m.account = c["account"]
    BY <2>1 DEF Attached
  <2>4. /\ m.account \in {{}, c["account"]} /\ m.user \in {{}, c["user"]}
        /\ m.user # {} => m.account = c["account"]
    BY <2>1 DEF Attached
  <2> HIDE DEF m, c
  <2>5. {s.by : s \in m.signature} = seed
    <3> DEFINE t(k) == [by |-> k, context |-> <<deployment.scheme, SignedIn(deployment, m.holder, m.op), m.nonce>>]
    <3>1. m.signature = {t(k) : k \in seed}
      BY <2>3
    <3>2. \A k : t(k).by = k
      OBVIOUS
    <3> HIDE DEF t
    <3> QED BY <3>1, <3>2
  <2> QED BY <2>2, <2>3, <2>4, <2>5 DEF m
<1> QED BY <1>1, InvHolds, PTL

\* A handler reads the identity of the request it handles, and outside of a verified
\* request there is none to read (grpcauth/interceptor.py:115-143).
THEOREM IdentityConfinedHolds == Spec => []IdentityConfined
<1>1. AInv => IdentityConfined
  <2> SUFFICES ASSUME AInv, NEW w \in Workers
               PROVE  IF pc[w] = "handling" THEN Verified(Msg(w), Op(w)) = {slot[w]}
                      ELSE slot[w] = NoIdentity
    BY DEF IdentityConfined
  <2>1. CASE pc[w] = "handling"
    <3>1. PICK i \in DOMAIN net, op \in deployment.operations :
            Holds(w, i, op) /\ Verified(Msg(w), Op(w)) = VerifiedIn(deployment, net[i], op)
      BY <2>1, InvWorker
    <3> QED BY <2>1, <3>1 DEF Holds
  <2>2. CASE pc[w] # "handling"
    BY <2>2 DEF AInv, WorkerOK
  <2> QED BY <2>1, <2>2
<1> QED BY <1>1, InvHolds, PTL

LEMMA ServedIsAllowed ==
  ASSUME AInv, NEW w \in Workers, pc[w] = "handling"
  PROVE  \E i \in DOMAIN net, op \in deployment.operations :
           /\ JobFor(w, i, op) /\ Msg(w) = net[i] /\ Op(w) = op
           /\ {slot[w]} = IdentityOf(net[i].holder)
           /\ op \in Allowed(slot[w]) /\ slot[w] \in AllIdentities
<1>1. PICK i \in DOMAIN net, op \in deployment.operations :
        /\ JobFor(w, i, op) /\ Holds(w, i, op) /\ Msg(w) = net[i] /\ Op(w) = op
        /\ Attached(deployment, net[i], i) /\ net[i].holder \in Holders
  BY InvWorker
<1>2. deployment \in Deployments
  BY DEF AInv
<1>3. /\ VerifiedIn(deployment, net[i], op) = {slot[w]}
      /\ AuthorizeExt(deployment.scheme, slot[w], op, deployment.allowMissing)
  BY <1>1 DEF Holds
<1>4. {slot[w]} = IdentityIn(deployment, net[i].holder)
  BY <1>1, <1>2, <1>3, VerifiedIsIdentity
<1>5. slot[w] \in AllIdentities /\ op \in Allowance[deployment][slot[w]]
  BY <1>1, <1>2, <1>3, <1>4, AuthorizedIsAllowed
<1> QED BY <1>1, <1>4, <1>5, SameHere DEF Allowed

\* A handler runs, with an identity, only for the holder whose request it is and
\* within what the issuers of the account and the user both asked for
\* (httpauth/extension.py:88-110, grpcauth/extension.py:66-86).
THEOREM NothingBeyondTheGrantHolds == Spec => []NothingBeyondTheGrant
<1>1. AInv => NothingBeyondTheGrant
  BY ServedIsAllowed DEF NothingBeyondTheGrant
<1> QED BY <1>1, InvHolds, PTL

\* A refusal has a cause outside of the transport, but for the path that the
\* requests hook signs (_server.py:29-42, grpcauth/interceptor.py:82-98).
THEOREM RefusalExplainedHolds == Spec => []RefusalExplained
<1>1. AInv => RefusalExplained
  <2> SUFFICES ASSUME AInv, NEW w \in Workers, pc[w] = "refused"
               PROVE  LET m == Msg(w) IN
                 /\ status[w] = 403 =>
                      /\ \E x \in IdentityOf(m.holder) : Op(w) \notin Allowed(x)
                      /\ Suppressed(m) => m.nonce # {} /\ m.nonce \subseteq seen
                 /\ status[w] = 401 =>
                      \/ Op(w) # m.op \/ ~Whole(m) \/ SignsEscaped(m)
                      \/ IdentityOf(m.holder) = {}
                      \/ m.signature = {} /\ \A x \in IdentityOf(m.holder) : ~IsBearer(x)
                      \/ Suppressed(m) /\ (m.nonce = {} \/ m.nonce \subseteq seen)
    BY DEF RefusalExplained
  <2>1. PICK i \in DOMAIN net, op \in deployment.operations :
          /\ Holds(w, i, op) /\ Msg(w) = net[i] /\ Op(w) = op
          /\ Suppressed(Msg(w)) = SuppressedIn(deployment, net[i])
          /\ Attached(deployment, net[i], i) /\ net[i].holder \in Holders
    BY InvWorker
  <2> DEFINE m == net[i]
             h == m.holder
  <2>2. deployment \in Deployments
    BY DEF AInv
  <2>3. /\ IdentityOf(h) = IdentityIn(deployment, h) /\ CredsOf(h) = CredsIn(deployment, h)
        /\ Wire(m.op) = WireIn(deployment, m.op)
    BY SameHere
  <2>4. ASSUME status[w] = 403 PROVE \E x \in IdentityOf(h) : op \notin Allowed(x)
    <3>1. PICK x \in VerifiedIn(deployment, m, op) :
            ~AuthorizeExt(deployment.scheme, x, op, deployment.allowMissing)
      BY <2>1, <2>4 DEF Holds
    <3>2. x \in IdentityIn(deployment, h)
      BY <2>1, <2>2, <3>1, VerifiedIsIdentity
    <3>3. op \notin Allowance[deployment][x]
      BY <2>1, <2>2, <3>1, <3>2, AuthorizedIsAllowed
    <3> QED BY <2>3, <3>2, <3>3 DEF Allowed
  <2>5. ASSUME status[w] = 401, op = m.op, Whole(m), ~SignsEscaped(m), IdentityOf(h) # {},
               ~(m.signature = {} /\ \A x \in IdentityOf(h) : ~IsBearer(x))
        PROVE  SuppressedIn(deployment, m) /\ (m.nonce = {} \/ m.nonce \subseteq seen)
    <3>1. m.account = CredsIn(deployment, h)["account"] /\ m.user = CredsIn(deployment, h)["user"]
      BY <2>3, <2>5 DEF Whole
    <3>2. ~(deployment.client[h] = "requests" /\ WireIn(deployment, m.op) # m.op)
      BY <2>3, <2>5 DEF SignsEscaped
    <3>3. VerifiedIn(deployment, m, op) # {}
      <4> HIDE DEF m
      <4>1. Attached(deployment, m, i)
        BY <2>1 DEF m
      <4> QED BY <2>2, <2>3, <2>5, <3>1, <3>2, <4>1, WholeVerifies
    <3> QED BY <2>1, <2>5, <3>3 DEF Holds
  <2>6. status[w] = 403 => (SuppressedIn(deployment, m) => m.nonce # {} /\ m.nonce \subseteq seen)
    BY <2>1 DEF Holds, Recorded
  <2> QED BY <2>1, <2>4, <2>5, <2>6
<1> QED BY <1>1, InvHolds, PTL

-----------------------------------------------------------------------------
(* The transports implement the abstract service.                            *)

AskedIn(d, sent) ==
  UNION {{[id |-> k, who |-> x, op |-> sent[k].op] : x \in IdentityIn(d, sent[k].holder)} : k \in DOMAIN sent}

ServingIn(d, at, jobs, slots) ==
  [w \in Workers |->
     IF at[w] = "handling" THEN [who |-> slots[w], op |-> PlainIn(d, (CHOOSE j \in jobs[w] : TRUE).wire)]
     ELSE NoIdentity]

LEMMA MappedHere ==
  /\ Asked = AskedIn(deployment, net) /\ Asked' = AskedIn(deployment', net')
  /\ Serving = ServingIn(deployment, pc, job, slot) /\ Serving' = ServingIn(deployment', pc', job', slot')
<1>1. Asked = AskedIn(deployment, net)
  BY SameHere DEF Asked, AskedIn
<1>2. Asked' = AskedIn(deployment', net')
  BY DEF Asked, AskedIn, IdentityOf, IdentityIn, Chains, ChainsIn, Presented, PresentedIn, CredsOf, CredsIn
<1>3. Serving = ServingIn(deployment, pc, job, slot)
  BY DEF Serving, ServingIn, Op, Plain, PlainIn, scheme
<1>4. Serving' = ServingIn(deployment', pc', job', slot')
  BY DEF Serving, ServingIn, Op, Plain, PlainIn, scheme
<1> QED BY <1>1, <1>2, <1>3, <1>4

\* A step of worker w leaves the others, the deployment and the network alone.
LEMMA WorkerStep ==
  ASSUME AInv, NEW w \in Workers, Worker(w)
  PROVE  deployment' = deployment /\ net' = net /\ \A v \in Workers \ {w} : Alone(v)
<1>1. OfWorkers(pc) /\ OfWorkers(job) /\ OfWorkers(status) /\ OfWorkers(slot) /\ OfWorkers(reset)
  BY DEF AInv
<1>2. ASSUME NEW i \in DOMAIN net, Take(w, i) PROVE net' = net /\ deployment' = deployment /\ \A v \in Workers \ {w} : Alone(v)
  BY <1>1, <1>2 DEF Take, Alone, OfWorkers
<1>3. CASE RefuseUnverified(w) \/ RefuseNonce(w) \/ Forbid(w)
  <2>1. PICK code : Refuse(w, code)
    BY <1>3 DEF RefuseUnverified, RefuseNonce, Forbid
  <2> QED BY <1>1, <2>1 DEF Refuse, Alone, OfWorkers
<1>4. CASE Verify(w)
  BY <1>1, <1>4 DEF Verify, Alone, OfWorkers
<1>5. CASE Enter(w)
  <2>1. PICK x : slot' = [slot EXCEPT ![w] = x]
    BY <1>5 DEF Enter
  <2> QED BY <1>1, <1>5, <2>1 DEF Enter, Alone, OfWorkers
<1>6. CASE PassThrough(w)
  <2>1. PICK l, code : /\ pc' = [pc EXCEPT ![w] = l] /\ status' = [status EXCEPT ![w] = code]
                       /\ UNCHANGED <<deployment, net, seen, job, slot, reset, started>>
    BY <1>6 DEF PassThrough
  <2> QED BY <1>1, <2>1 DEF Alone, OfWorkers
<1>7. CASE Leave(w)
  BY <1>1, <1>7 DEF Leave, Free, Alone, OfWorkers
<1>8. CASE Answer(w)
  BY <1>1, <1>8 DEF Answer, Free, Alone, OfWorkers
<1> QED BY <1>2, <1>3, <1>4, <1>5, <1>6, <1>7, <1>8 DEF Worker

LEMMA ServingKept ==
  ASSUME NEW w \in Workers, deployment' = deployment, \A v \in Workers \ {w} : Alone(v),
         pc[w] # "handling", pc'[w] # "handling"
  PROVE  Serving' = Serving
BY MappedHere DEF ServingIn, Alone

LEMMA InitMaps == Init => Service!Init
<1> SUFFICES ASSUME Init PROVE Service!Init
  OBVIOUS
<1>1. deployment \in Deployments /\ net = <<>> /\ started = {} /\ pc = [w \in Workers |-> "idle"]
  BY DEF Init
<1>2. Asked = {}
  BY <1>1 DEF Asked
<1>3. Serving = [w \in Workers |-> NoIdentity]
  BY <1>1 DEF Serving
<1>4. Allowance[deployment] \in [AllIdentities -> SUBSET AllOperations]
  <2>1. deployment.operations \subseteq AllOperations
    BY <1>1 DEF AllOperations
  <2> QED BY <1>1, <2>1 DEF Allowance
<1>5. deployment.replay \in BOOLEAN
  BY <1>1 DEF Deployment
<1>6. {x \in AllIdentities : IsBearer(x)} \in SUBSET AllIdentities
  OBVIOUS
<1>7. Policy \in [allowed : [AllIdentities -> SUBSET AllOperations],
                  bearers : SUBSET AllIdentities, once : BOOLEAN]
  BY <1>4, <1>5, <1>6 DEF Policy
<1> QED BY <1>1, <1>2, <1>3, <1>7 DEF Service!Init

LEMMA ClientMaps ==
  ASSUME AInv, NEW h \in Holders, Client(h)
  PROVE  [Service!Next]_(Service!vars)
<1>0. PICK op \in deployment.operations : \E m :
        /\ net' = Append(net, m) /\ m.holder = h /\ m.op = op /\ Len(net) < MaxSent
        /\ deployment' = deployment /\ UNCHANGED server
  BY DEF Client, Send, SendBare, Transmit
<1>1. PICK m :
        /\ net' = Append(net, m) /\ m.holder = h /\ m.op = op /\ Len(net) < MaxSent
        /\ deployment' = deployment /\ UNCHANGED server
  BY <1>0
<1> DEFINE n == Len(net) + 1
           A == Asked
<1>2. deployment \in Deployments
  BY DEF AInv
<1>3. /\ n \in 1 .. MaxSent /\ DOMAIN net = 1 .. n - 1 /\ DOMAIN net' = 1 .. n
      /\ \A k \in DOMAIN net : net'[k] = net[k]
      /\ net'[n] = m
  <2> DEFINE R == {net[k] : k \in DOMAIN net}
  <2>1. net \in Seq(R \cup {m}) /\ m \in R \cup {m}
    <3>1. net \in Seq(R) /\ R \subseteq R \cup {m}
      BY DEF AInv, NetIsSeq
    <3> QED BY <3>1, SeqMonotonic
  <2> HIDE DEF R
  <2>2. Len(net) \in Nat /\ DOMAIN net = 1 .. Len(net)
    BY <2>1, LenProperties
  <2>3. /\ net' \in Seq(R \cup {m}) /\ Len(net') = Len(net) + 1
        /\ \A k \in 1 .. Len(net) : net'[k] = net[k]
        /\ net'[Len(net) + 1] = m
    BY <1>1, <2>1, AppendProperties
  <2>4. DOMAIN net' = 1 .. Len(net')
    BY <2>3, LenProperties
  <2> QED BY <1>1, <2>2, <2>3, <2>4
<1>4. Asked' = Asked \cup {[id |-> n, who |-> x, op |-> op] : x \in IdentityIn(deployment, h)}
  <2>1. DOMAIN net' = DOMAIN net \cup {n} /\ n \notin DOMAIN net
    BY <1>3
  <2> DEFINE T(sent, k) == {[id |-> k, who |-> x, op |-> sent[k].op] : x \in IdentityIn(deployment, sent[k].holder)}
  <2>2. Asked = UNION {T(net, k) : k \in DOMAIN net} /\ Asked' = UNION {T(net', k) : k \in DOMAIN net'}
    BY <1>1, MappedHere DEF AskedIn
  <2>3. \A k \in DOMAIN net : T(net', k) = T(net, k)
    BY <1>3
  <2>4. T(net', n) = {[id |-> n, who |-> x, op |-> op] : x \in IdentityIn(deployment, h)}
    BY <1>1, <1>3
  <2> HIDE DEF T, n
  <2> QED BY <2>1, <2>2, <2>3, <2>4
<1>5. \A a \in Asked : a.id # n
  <2>1. \A a \in AskedIn(deployment, net) : a.id \in DOMAIN net
    BY DEF AskedIn
  <2> QED BY <1>3, <2>1, MappedHere
<1>6. Policy' = Policy /\ started' = started /\ Serving' = Serving
  BY <1>1, MappedHere DEF Policy, server
<1>7. CASE IdentityIn(deployment, h) = {}
  BY <1>4, <1>6, <1>7 DEF Service!vars
<1>8. CASE IdentityIn(deployment, h) # {}
  <2>1. PICK x : IdentityIn(deployment, h) = {x}
    BY <1>2, <1>8, IdentityUnique
  <2>2. x \in AllIdentities
    BY <1>2, <2>1, AuthorizedIsAllowed
  <2>3. op \in AllOperations
    BY <1>2 DEF AllOperations
  <2>4. Asked' = Asked \cup {[id |-> n, who |-> x, op |-> op]}
    BY <1>4, <2>1
  <2>5. Service!Ask(n, x, op)
    BY <1>5, <1>6, <2>4 DEF Service!Ask
  <2> QED BY <1>3, <2>2, <2>3, <2>5 DEF Service!Next
<1> QED BY <1>7, <1>8

LEMMA WorkerMaps ==
  ASSUME AInv, AInv', NEW w \in Workers, Worker(w)
  PROVE  [Service!Next]_(Service!vars)
<1>1. deployment' = deployment /\ net' = net /\ \A v \in Workers \ {w} : Alone(v)
  BY WorkerStep
<1>2. Policy' = Policy /\ Asked' = Asked
  BY <1>1, MappedHere DEF Policy
<1>3. /\ OfWorkers(pc) /\ OfWorkers(slot) /\ OfWorkers(job) /\ WorkerOK(w) /\ SpentOnce
      /\ deployment \in Deployments
  BY DEF AInv
<1>4. CASE Enter(w)
  <2>1. /\ pc[w] = "verified" /\ pc' = [pc EXCEPT ![w] = "handling"]
        /\ started' = started \cup {j.msg : j \in job[w]} /\ job' = job
    BY <1>4 DEF Enter
  <2>2. pc'[w] = "handling"
    BY <1>3, <2>1 DEF OfWorkers
  <2>3. PICK i \in DOMAIN net, op \in deployment.operations :
          /\ JobFor(w, i, op) /\ Holds(w, i, op) /\ Op(w) = op
          /\ Attached(deployment, net[i], i) /\ net[i].holder \in Holders
    BY <2>1, InvWorker
  <2>4. PICK k \in DOMAIN net', q \in deployment'.operations :
          JobFor(w, k, q)' /\ Holds(w, k, q)'
    BY <2>2 DEF AInv, WorkerOK
  <2>5. (k = i /\ WireIn(deployment, q) = WireIn(deployment, op)) /\ q \in deployment.operations
    BY <1>1, <2>1, <2>3, <2>4 DEF JobFor
  <2>6. q = op
    BY <1>3, <2>3, <2>5, PlainOfWire
  <2> DEFINE x == slot'[w]
             a == [id |-> i, who |-> x, op |-> net[i].op]
  <2>7. /\ VerifiedIn(deployment, net[i], op) = {x}
        /\ AuthorizeExt(deployment.scheme, x, op, deployment.allowMissing)
    BY <1>1, <2>2, <2>4, <2>5, <2>6 DEF Holds
  <2> HIDE DEF x
  <2>8. IdentityIn(deployment, net[i].holder) = {x}
    BY <1>3, <2>3, <2>7, VerifiedIsIdentity
  <2>9. x \in AllIdentities /\ op \in Allowance[deployment][x]
    BY <1>3, <2>3, <2>7, <2>8, AuthorizedIsAllowed
  <2>10. a \in Asked
    <3>1. a \in {[id |-> i, who |-> y, op |-> net[i].op] : y \in IdentityIn(deployment, net[i].holder)}
      BY <2>8
    <3> HIDE DEF a
    <3>2. a \in AskedIn(deployment, net)
      BY <3>1 DEF AskedIn
    <3> QED BY <3>2, MappedHere
  <2>11. ~IsBearer(x) => op = net[i].op /\ net[i].signature # {}
    BY <1>3, <2>3, <2>7, SignedIsServed
  <2>12. (~IsBearer(x) /\ deployment.replay) => i \notin started
    BY <2>1, <2>3, <2>11 DEF Holds, SuppressedIn
  <2>13. started' = started \cup {i}
    BY <2>1, <2>3 DEF JobFor
  <2>14. Serving[w] = NoIdentity
    BY <2>1 DEF Serving
  <2>15. Serving' = [Serving EXCEPT ![w] = [who |-> x, op |-> op]]
    <3>1. \A v \in Workers \ {w} : ServingIn(deployment', pc', job', slot')[v] = ServingIn(deployment, pc, job, slot)[v]
      BY <1>1 DEF ServingIn, Alone
    <3>2. ServingIn(deployment', pc', job', slot')[w] = [who |-> x, op |-> op]
      <4>1. PlainIn(deployment, (CHOOSE j \in job[w] : TRUE).wire) = op
        <5> DEFINE j0 == CHOOSE j \in job[w] : TRUE
        <5>1. j0 = [msg |-> i, wire |-> WireIn(deployment, op)]
          BY <2>3 DEF JobFor
        <5> HIDE DEF j0
        <5>2. j0.wire = WireIn(deployment, op)
          BY <5>1
        <5>3. PlainIn(deployment, j0.wire) = op
          BY <1>3, <5>2, PlainOfWire
        <5> QED BY <5>3 DEF j0
      <4>2. ServingIn(deployment', pc', job', slot')[w] =
              [who |-> slot'[w], op |-> PlainIn(deployment, (CHOOSE j \in job[w] : TRUE).wire)]
        BY <1>1, <2>1, <2>2 DEF ServingIn
      <4> QED BY <4>1, <4>2 DEF x
    <3> DEFINE S0 == ServingIn(deployment, pc, job, slot)
               S1 == ServingIn(deployment', pc', job', slot')
    <3>3. DOMAIN S0 = Workers /\ DOMAIN S1 = Workers /\ S1 = [v \in Workers |-> S1[v]]
      BY DEF ServingIn
    <3> HIDE DEF S0, S1
    <3>4. S1 = [S0 EXCEPT ![w] = [who |-> x, op |-> op]]
      <4>1. \A v \in Workers \ {w} : S1[v] = S0[v]
        BY <3>1 DEF S0, S1
      <4>2. S1[w] = [who |-> x, op |-> op]
        BY <3>2 DEF S1
      <4>3. [S0 EXCEPT ![w] = [who |-> x, op |-> op]] =
              [v \in Workers |-> IF v = w THEN [who |-> x, op |-> op] ELSE S0[v]]
        BY <3>3
      <4> QED BY <3>3, <4>1, <4>2, <4>3
    <3> QED BY <3>4, MappedHere DEF S0, S1
  <2>16. Service!Serve(w, a, op)
    BY <1>2, <2>9, <2>11, <2>12, <2>13, <2>14, <2>15 DEF Service!Serve, Policy
  <2>17. op \in AllOperations
    BY <1>3 DEF AllOperations
  <2> QED BY <2>10, <2>16, <2>17 DEF Service!Next
<1>5. CASE Leave(w)
  <2>1. Free(w) /\ slot' = [slot EXCEPT ![w] = reset[w]]
    BY <1>5 DEF Leave
  <2>2. pc'[w] = "idle" /\ started' = started
    BY <1>3, <2>1 DEF Free, OfWorkers
  <2>3. Serving' = [Serving EXCEPT ![w] = NoIdentity]
    <3>1. \A v \in Workers \ {w} : ServingIn(deployment', pc', job', slot')[v] = ServingIn(deployment, pc, job, slot)[v]
      BY <1>1 DEF ServingIn, Alone
    <3>2. ServingIn(deployment', pc', job', slot')[w] = NoIdentity
      BY <2>2 DEF ServingIn
    <3> QED BY <3>1, <3>2, MappedHere DEF ServingIn
  <2>4. Service!Finish(w)
    BY <1>2, <2>2, <2>3 DEF Service!Finish
  <2> QED BY <2>4 DEF Service!Next
<1>6. CASE ~Enter(w) /\ ~Leave(w)
  <2>1. pc[w] # "handling" /\ pc'[w] # "handling" /\ started' = started
    <3>1. CASE \E i \in DOMAIN net : Take(w, i)
      BY <1>3, <3>1 DEF Take, OfWorkers
    <3>2. CASE RefuseUnverified(w) \/ RefuseNonce(w) \/ Forbid(w)
      BY <1>3, <3>2 DEF RefuseUnverified, RefuseNonce, Forbid, Refuse, OfWorkers
    <3>3. CASE Verify(w)
      BY <1>3, <3>3 DEF Verify, OfWorkers
    <3>4. CASE PassThrough(w)
      BY <1>3, <3>4 DEF PassThrough, OfWorkers
    <3>5. CASE Answer(w)
      BY <1>3, <3>5 DEF Answer, Free, OfWorkers
    <3> QED BY <1>6, <3>1, <3>2, <3>3, <3>4, <3>5 DEF Worker
  <2>2. Serving' = Serving
    BY <1>1, <2>1, ServingKept
  <2> QED BY <1>2, <2>1, <2>2 DEF Service!vars
<1> QED BY <1>4, <1>5, <1>6

\* The transports from end to end, with files that are cut, gateways that send a
\* request on and again, and handlers in parallel, let a handler run only on what
\* its identity asked for and is allowed, and once where replays are suppressed
\* (httpauth/_server.py:29-57, grpcauth/interceptor.py:82-143).
THEOREM ImplementsGuardedServiceHolds == Spec => ImplementsGuardedService
<1>1. AInv /\ AInv' /\ [Next]_vars => [Service!Next]_(Service!vars)
  <2> SUFFICES ASSUME AInv, AInv', [Next]_vars PROVE [Service!Next]_(Service!vars)
    OBVIOUS
  <2>1. CASE UNCHANGED vars
    <3>1. deployment' = deployment /\ net' = net /\ started' = started
          /\ pc' = pc /\ job' = job /\ slot' = slot
      BY <2>1 DEF vars, server
    <3>2. Policy' = Policy /\ Asked' = Asked /\ Serving' = Serving
      BY <3>1, MappedHere DEF Policy
    <3> QED BY <3>1, <3>2 DEF Service!vars
  <2>2. CASE Next
    BY <2>2, ClientMaps, WorkerMaps DEF Next
  <2> QED BY <2>1, <2>2
<1> QED BY <1>1, InitMaps, InvHolds, PTL DEF Spec, ImplementsGuardedService, Service!Spec

-----------------------------------------------------------------------------
(* What SignedAsServed fails of, and what it holds of.                       *)

\* Client and server derive the same bytes from every request but those of the
\* requests hook to a path that has to be escaped, of which they never do: of a
\* signed request that arrives as it was sent, the escaping is the one thing the two
\* sides disagree about (httpauth/_client.py:139, _requests.py:18-19).
OnlyEscapesDiffer ==
  \A i \in DOMAIN net : \A s \in net[i].signature :
    (s.context = Context(Plain(Wire(net[i].op)), net[i].nonce)) <=> ~SignsEscaped(net[i])

(* The bounds of the divergence that the run requests_path shows: where no   *)
(* path needs an escape, or no client uses the requests hook, SignedAsServed *)
(* holds.                                                                    *)
THEOREM OnlyEscapesDifferHolds == Spec => []OnlyEscapesDiffer
<1>1. AInv => OnlyEscapesDiffer
  <2> SUFFICES ASSUME AInv, NEW i \in DOMAIN net, NEW s \in net[i].signature
               PROVE  (s.context = Context(Plain(Wire(net[i].op)), net[i].nonce))
                        <=> ~SignsEscaped(net[i])
    BY DEF OnlyEscapesDiffer
  <2> DEFINE m == net[i]
             d == deployment
             signed == SignedIn(d, m.holder, m.op)
  <2>1. d \in Deployments /\ m.holder \in Holders /\ m.op \in d.operations
    BY DEF AInv, AllAttached, Attached
  <2>2. s.context = <<d.scheme, signed, m.nonce>>
    BY DEF AInv, AllAttached, Attached
  <2>3. Context(Plain(Wire(m.op)), m.nonce) = <<d.scheme, m.op, m.nonce>>
    BY <2>1, PlainOfWire, SameHere DEF Context, scheme
  <2>4. SignsEscaped(m) <=> d.client[m.holder] = "requests" /\ WireIn(d, m.op) # m.op
    BY SameHere DEF SignsEscaped
  <2>5. ~SignsEscaped(m) => signed = m.op
    BY <2>1, <2>4, SignsWhatItAsks
  <2>6. SignsEscaped(m) => signed # m.op
    BY <2>4 DEF SignedIn
  <2> HIDE DEF m, d, signed
  <2>7. s.context = Context(Plain(Wire(m.op)), m.nonce) <=> signed = m.op
    BY <2>2, <2>3
  <2> QED BY <2>5, <2>6, <2>7 DEF m
<1> QED BY <1>1, InvHolds, PTL
=============================================================================
