-------------------------- MODULE ChainCacheProofs --------------------------
(***************************************************************************)
(* Theorems about the chain cache for every set of emitters, every set of  *)
(* chains and every capacity.                                              *)
(***************************************************************************)
EXTENDS ChainCacheLRU, SequenceRemovals, FiniteSetTheorems

(* The position found for a cached key is one that holds it.                 *)
LEMMA AtFacts ==
  ASSUME NEW c \in Seq(Entries), NEW u, Holds(c, u)
  PROVE  At(c, u) \in 1..Len(c) /\ c[At(c, u)].user = u
<1>1. DOMAIN c = 1..Len(c)
  OBVIOUS
<1> QED BY <1>1 DEF Holds, At

-----------------------------------------------------------------------------
(* Ordered caches. *)

Ordered(c, last) ==
  \A i, j \in DOMAIN c : i < j => last[c[i].user] < last[c[j].user]

(* An ordered cache stays ordered when an entry goes, and the entry is gone. *)
LEMMA RemoveKeepsOrder ==
  ASSUME NEW c \in Seq(Entries), NEW last \in [Users -> Nat], Ordered(c, last),
         NEW i \in 1..Len(c)
  PROVE  /\ RemoveAt(c, i) \in Seq(Entries)
         /\ Len(RemoveAt(c, i)) = Len(c) - 1
         /\ Ordered(RemoveAt(c, i), last)
         /\ ~Holds(RemoveAt(c, i), c[i].user)
         /\ \A v : v # c[i].user => (Holds(RemoveAt(c, i), v) <=> Holds(c, v))
         /\ \A j \in DOMAIN RemoveAt(c, i) : \E k \in DOMAIN c : RemoveAt(c, i)[j] = c[k]
<1> DEFINE d == RemoveAt(c, i)
<1>1. /\ d \in Seq(Entries) /\ Len(d) = Len(c) - 1
      /\ \A j \in 1..(Len(c) - 1) : d[j] = IF j < i THEN c[j] ELSE c[j + 1]
  BY RemoveAtFacts
<1>2. DOMAIN c = 1..Len(c) /\ DOMAIN d = 1..Len(d) /\ Len(c) \in Nat
  BY <1>1, LenProperties
<1>3. \A k \in DOMAIN c : c[k] \in Entries /\ c[k].user \in Users /\ last[c[k].user] \in Nat
  <2>1. \A k \in DOMAIN c : c[k] \in Entries
    BY <1>2, ElementOfSeq
  <2> QED BY <2>1 DEF Entries
<1> HIDE DEF d
\* The position an element had before.
<1> DEFINE was(j) == IF j < i THEN j ELSE j + 1
<1>4. /\ \A j \in DOMAIN d : was(j) \in DOMAIN c /\ was(j) # i /\ d[j] = c[was(j)]
      /\ \A j, k \in DOMAIN d : j < k => was(j) < was(k)
      /\ \A k \in DOMAIN c : k # i => \E j \in DOMAIN d : was(j) = k
  <2>1. \A j \in DOMAIN d : was(j) \in DOMAIN c /\ was(j) # i /\ d[j] = c[was(j)]
    BY <1>1, <1>2
  <2>2. \A j, k \in DOMAIN d : j < k => was(j) < was(k)
    BY <1>2
  <2>3. ASSUME NEW k \in DOMAIN c, k # i PROVE \E j \in DOMAIN d : was(j) = k
    <3>1. CASE k < i
      <4>1. k \in DOMAIN d /\ was(k) = k
        BY <3>1, <1>1, <1>2
      <4> QED BY <4>1
    <3>2. CASE k > i
      <4>1. k - 1 \in DOMAIN d /\ was(k - 1) = k
        BY <3>2, <1>1, <1>2
      <4> QED BY <4>1
    <3> QED BY <2>3, <3>1, <3>2, <1>2
  <2> QED BY <2>1, <2>2, <2>3
<1> HIDE DEF was
<1>5. Ordered(d, last)
  BY <1>4 DEF Ordered
<1>6. ~Holds(d, c[i].user)
  <2> SUFFICES ASSUME NEW j \in DOMAIN d, d[j].user = c[i].user PROVE FALSE
    BY DEF Holds
  <2>1. was(j) \in DOMAIN c /\ was(j) # i /\ last[c[was(j)].user] = last[c[i].user]
    BY <1>4
  <2>2. i \in DOMAIN c /\ (was(j) < i \/ i < was(j))
    BY <2>1, <1>2
  <2>3. last[c[was(j)].user] \in Nat /\ last[c[i].user] \in Nat
    BY <2>1, <2>2, <1>3
  <2> QED BY <2>1, <2>2, <2>3 DEF Ordered
<1>7. \A v : v # c[i].user => (Holds(d, v) <=> Holds(c, v))
  BY <1>4 DEF Holds
<1>8. \A j \in DOMAIN d : \E k \in DOMAIN c : d[j] = c[k]
  BY <1>4
<1> QED BY <1>1, <1>5, <1>6, <1>7, <1>8 DEF d

\* The last uses after use n + 1, which was for u.
Used(last, u, n) == [last EXCEPT ![u] = n + 1]

(* Appending an entry as the latest use keeps a cache ordered.               *)
LEMMA AppendKeepsOrder ==
  ASSUME NEW c \in Seq(Entries), NEW last \in [Users -> Nat], Ordered(c, last),
         NEW n \in Nat, \A v \in Users : last[v] <= n,
         NEW u, NEW e \in Entries, e.user = u, ~Holds(c, u)
  PROVE  /\ Append(c, e) \in Seq(Entries)
         /\ Len(Append(c, e)) = Len(c) + 1
         /\ Ordered(Append(c, e), Used(last, u, n))
         /\ \A v : Holds(Append(c, e), v) <=> Holds(c, v) \/ v = u
<1> DEFINE d == Append(c, e)
           next == Used(last, e.user, n)
<1>1. /\ d \in Seq(Entries) /\ Len(d) = Len(c) + 1 /\ Len(c) \in Nat
      /\ DOMAIN c = 1..Len(c) /\ DOMAIN d = 1..(Len(c) + 1)
      /\ \A k \in DOMAIN c : d[k] = c[k]
      /\ d[Len(c) + 1] = e
  OBVIOUS
<1>2. \A k \in DOMAIN c : c[k] \in Entries
  BY <1>1, ElementOfSeq
<1>3. \A k \in DOMAIN c : c[k].user \in Users /\ c[k].user # e.user
  BY <1>2 DEF Entries, Holds
<1>4. e.user \in Users
  BY DEF Entries
<1>5. next[e.user] = n + 1 /\ \A v \in Users : v # e.user => next[v] = last[v]
  BY <1>4 DEF Used
<1> HIDE DEF d, next
<1>6. ASSUME NEW i \in DOMAIN d, NEW j \in DOMAIN d, i < j
      PROVE  next[d[i].user] < next[d[j].user]
  <2>1. i \in DOMAIN c
    BY <1>6, <1>1
  <2>2. CASE j \in DOMAIN c
    BY <2>1, <2>2, <1>1, <1>3, <1>5, <1>6 DEF Ordered
  <2>3. CASE j = Len(c) + 1
    <3>1. last[c[i].user] <= n /\ last[c[i].user] \in Nat
      BY <2>1, <1>3
    <3> QED BY <3>1, <2>1, <2>3, <1>1, <1>3, <1>5
  <2> QED BY <2>2, <2>3, <1>1
<1>7. \A v : Holds(d, v) <=> Holds(c, v) \/ v = e.user
  <2>1. DOMAIN d = DOMAIN c \cup {Len(c) + 1}
    BY <1>1
  <2> QED BY <2>1, <1>1 DEF Holds
<1> QED BY <1>1, <1>6, <1>7 DEF Ordered, d, next

-----------------------------------------------------------------------------
(* What the three methods do to an ordered cache; n counts the uses so far.  *)

Good(c, last, n) ==
  /\ c \in Seq(Entries)
  /\ last \in [Users -> Nat]
  /\ n \in Nat
  /\ \A v \in Users : last[v] <= n
  /\ Ordered(c, last)
  /\ Len(c) <= Cap

\* Every entry of d is an entry of c.
From(d, c) == \A j \in DOMAIN d : \E k \in DOMAIN c : d[j] = c[k]

(* Counting one more use keeps the counts below the number of uses.          *)
LEMMA UsedFacts ==
  ASSUME NEW last \in [Users -> Nat], NEW n \in Nat, \A v \in Users : last[v] <= n,
         NEW u \in Users
  PROVE  Used(last, u, n) \in [Users -> Nat] /\ \A v \in Users : Used(last, u, n)[v] <= n + 1
BY DEF Used

(* A hit keeps the keys and their entries.                                   *)
LEMMA TouchedFacts ==
  ASSUME NEW c, NEW last, NEW n, Good(c, last, n), NEW u \in Users, Holds(c, u)
  PROVE  /\ Good(Touched(c, u), Used(last, u, n), n + 1)
         /\ \A v : Holds(Touched(c, u), v) <=> Holds(c, v)
         /\ From(Touched(c, u), c)
<1> DEFINE i == At(c, u)
           r == RemoveAt(c, i)
           d == Append(r, c[i])
<1>1. i \in 1..Len(c) /\ c[i].user = u /\ c[i] \in Entries /\ i \in DOMAIN c
  BY AtFacts, ElementOfSeq, LenProperties DEF Good
<1>2. /\ r \in Seq(Entries) /\ Len(r) = Len(c) - 1 /\ Ordered(r, last) /\ ~Holds(r, u)
      /\ \A v : v # u => (Holds(r, v) <=> Holds(c, v))
      /\ \A j \in DOMAIN r : \E k \in DOMAIN c : r[j] = c[k]
  BY <1>1, RemoveKeepsOrder DEF Good
<1>3. /\ d \in Seq(Entries) /\ Len(d) = Len(r) + 1
      /\ Ordered(d, Used(last, u, n))
      /\ \A v : Holds(d, v) <=> Holds(r, v) \/ v = u
  <2>1. /\ last \in [Users -> Nat] /\ n \in Nat /\ \A v \in Users : last[v] <= n
    BY DEF Good
  <2> QED BY <1>1, <1>2, <2>1, AppendKeepsOrder
<1>4. \A j \in DOMAIN d : (j \in DOMAIN r /\ d[j] = r[j]) \/ d[j] = c[i]
  BY <1>2
<1>5. Touched(c, u) = d
  BY DEF Touched
<1>6. Len(c) \in Nat
  BY LenProperties DEF Good
<1> HIDE DEF d, r, i
<1>7. Good(d, Used(last, u, n), n + 1)
  <2>1. Len(d) = Len(c) /\ Len(c) <= Cap /\ n + 1 \in Nat
    BY <1>2, <1>3, <1>6 DEF Good
  <2>2. Used(last, u, n) \in [Users -> Nat] /\ \A v \in Users : Used(last, u, n)[v] <= n + 1
    BY UsedFacts DEF Good
  <2> QED BY <1>3, <2>1, <2>2 DEF Good
<1>8. \A v : Holds(d, v) <=> Holds(c, v)
  BY <1>2, <1>3
<1>9. From(d, c)
  BY <1>1, <1>2, <1>4 DEF From
<1> QED BY <1>5, <1>7, <1>8, <1>9

(* A delete forgets the key and nothing else.                                *)
LEMMA DroppedFacts ==
  ASSUME NEW c, NEW last, NEW n, Good(c, last, n), NEW u
  PROVE  /\ Good(Dropped(c, u), last, n)
         /\ \A v : Holds(Dropped(c, u), v) <=> Holds(c, v) /\ v # u
         /\ From(Dropped(c, u), c)
<1>1. CASE Holds(c, u)
  <2>1. At(c, u) \in 1..Len(c) /\ c[At(c, u)].user = u
    BY <1>1, AtFacts DEF Good
  <2>2. Len(c) \in Nat /\ Len(c) <= Cap /\ Cap \in Nat
    BY CapAssumption, LenProperties DEF Good
  <2> DEFINE r == RemoveAt(c, At(c, u))
  <2>3. /\ r \in Seq(Entries) /\ Len(r) = Len(c) - 1 /\ Ordered(r, last)
        /\ ~Holds(r, u) /\ \A v : v # u => (Holds(r, v) <=> Holds(c, v))
        /\ \A j \in DOMAIN r : \E k \in DOMAIN c : r[j] = c[k]
    BY <2>1, RemoveKeepsOrder DEF Good
  <2>4. Dropped(c, u) = r
    BY <1>1 DEF Dropped
  <2> HIDE DEF r
  <2> QED BY <2>2, <2>3, <2>4 DEF Good, From
<1>2. CASE ~Holds(c, u)
  BY <1>2 DEF Dropped, From
<1> QED BY <1>1, <1>2

(* A store makes room, if it must, by dropping the first entry.              *)
LEMMA StoredFacts ==
  ASSUME NEW c, NEW last, NEW n, Good(c, last, n), NEW u \in Users, NEW ch \in Chains
  PROVE  /\ Good(Stored(c, u, ch, Cap), Used(last, u, n), n + 1)
         /\ \A j \in DOMAIN Stored(c, u, ch, Cap) :
              \/ Stored(c, u, ch, Cap)[j] = [user |-> u, chain |-> ch]
              \/ \E k \in DOMAIN c : Stored(c, u, ch, Cap)[j] = c[k] /\ c[k].user # u
         /\ Holds(c, u) \/ Len(c) < Cap =>
              \A v : Holds(Stored(c, u, ch, Cap), v) <=> Holds(c, v) \/ v = u
         /\ ~Holds(c, u) /\ Len(c) >= Cap =>
              /\ Len(c) = Cap /\ c # <<>> /\ 1 \in DOMAIN c
              /\ \A v : Holds(Stored(c, u, ch, Cap), v)
                        <=> (Holds(c, v) /\ v # c[1].user) \/ v = u
<1> DEFINE new == [user |-> u, chain |-> ch]
           kept == IF Holds(c, u) THEN RemoveAt(c, At(c, u))
                   ELSE IF Len(c) >= Cap THEN Tail(c) ELSE c
<1>0. Len(c) \in Nat /\ Len(c) <= Cap /\ Cap \in Nat \ {0} /\ new \in Entries
  BY CapAssumption, LenProperties DEF Good, Entries
<1>1. /\ kept \in Seq(Entries) /\ Len(kept) < Cap /\ Ordered(kept, last)
      /\ ~Holds(kept, u)
      /\ \A j \in DOMAIN kept : \E k \in DOMAIN c : kept[j] = c[k]
      /\ Holds(c, u) \/ Len(c) < Cap => \A v : v # u => (Holds(kept, v) <=> Holds(c, v))
      /\ ~Holds(c, u) /\ Len(c) >= Cap =>
           /\ Len(c) = Cap /\ c # <<>> /\ 1 \in DOMAIN c
           /\ \A v : Holds(kept, v) <=> Holds(c, v) /\ v # c[1].user
  <2>1. CASE Holds(c, u)
    <3>1. PICK i \in 1..Len(c) : c[i].user = u /\ kept = RemoveAt(c, i)
      BY <2>1, AtFacts DEF Good
    <3>2. /\ RemoveAt(c, i) \in Seq(Entries) /\ Len(RemoveAt(c, i)) = Len(c) - 1
          /\ Ordered(RemoveAt(c, i), last) /\ ~Holds(RemoveAt(c, i), u)
          /\ \A v : v # u => (Holds(RemoveAt(c, i), v) <=> Holds(c, v))
          /\ \A j \in DOMAIN RemoveAt(c, i) : \E k \in DOMAIN c : RemoveAt(c, i)[j] = c[k]
      BY <3>1, RemoveKeepsOrder DEF Good
    <3> HIDE DEF kept
    <3> QED BY <2>1, <3>1, <3>2, <1>0
  <2>2. CASE ~Holds(c, u) /\ Len(c) >= Cap
    <3>1. Len(c) = Cap /\ c # <<>>
      BY <2>2, <1>0
    <3>2. kept = RemoveAt(c, 1) /\ 1 \in 1..Len(c)
      BY <2>2, <3>1, TailRemovesFirst DEF Good
    <3>3. 1 \in DOMAIN c
      BY <3>2, LenProperties DEF Good
    <3>4. c[1].user # u
      BY <2>2, <3>3 DEF Holds
    <3>5. /\ kept \in Seq(Entries) /\ Len(kept) = Len(c) - 1 /\ Ordered(kept, last)
          /\ ~Holds(kept, c[1].user)
          /\ \A v : v # c[1].user => (Holds(kept, v) <=> Holds(c, v))
          /\ \A j \in DOMAIN kept : \E k \in DOMAIN c : kept[j] = c[k]
      <4>1. /\ RemoveAt(c, 1) \in Seq(Entries) /\ Len(RemoveAt(c, 1)) = Len(c) - 1
            /\ Ordered(RemoveAt(c, 1), last) /\ ~Holds(RemoveAt(c, 1), c[1].user)
            /\ \A v : v # c[1].user => (Holds(RemoveAt(c, 1), v) <=> Holds(c, v))
            /\ \A j \in DOMAIN RemoveAt(c, 1) : \E k \in DOMAIN c : RemoveAt(c, 1)[j] = c[k]
        BY <3>2, RemoveKeepsOrder DEF Good
      <4> HIDE DEF kept
      <4> QED BY <4>1, <3>2
    <3> HIDE DEF kept
    <3> QED BY <2>2, <3>1, <3>3, <3>4, <3>5, <1>0
  <2>3. CASE ~Holds(c, u) /\ ~(Len(c) >= Cap)
    BY <2>3, <1>0 DEF Good
  <2> QED BY <2>1, <2>2, <2>3
<1>2. Stored(c, u, ch, Cap) = Append(kept, new)
  BY DEF Stored
<1> HIDE DEF kept
<1>3. /\ Append(kept, new) \in Seq(Entries) /\ Len(Append(kept, new)) = Len(kept) + 1
      /\ Ordered(Append(kept, new), Used(last, u, n))
      /\ \A v : Holds(Append(kept, new), v) <=> Holds(kept, v) \/ v = u
  <2>1. /\ last \in [Users -> Nat] /\ n \in Nat /\ \A v \in Users : last[v] <= n
    BY DEF Good
  <2>2. new.user = u
    OBVIOUS
  <2> HIDE DEF new
  <2> QED BY <1>0, <1>1, <2>1, <2>2, AppendKeepsOrder
<1>4. Len(kept) \in Nat
  BY <1>1, LenProperties
<1>5. \A j \in DOMAIN Append(kept, new) :
        (j \in DOMAIN kept /\ Append(kept, new)[j] = kept[j]) \/ Append(kept, new)[j] = new
  BY <1>1
<1>6. \A j \in DOMAIN kept : kept[j].user # u
  BY <1>1 DEF Holds
<1> HIDE DEF new
<1>7. Good(Append(kept, new), Used(last, u, n), n + 1)
  <2>1. Len(Append(kept, new)) <= Cap /\ n + 1 \in Nat
    BY <1>0, <1>1, <1>3, <1>4 DEF Good
  <2>2. Used(last, u, n) \in [Users -> Nat] /\ \A v \in Users : Used(last, u, n)[v] <= n + 1
    BY UsedFacts DEF Good
  <2> QED BY <1>3, <2>1, <2>2 DEF Good
<1>8. \A j \in DOMAIN Append(kept, new) :
        \/ Append(kept, new)[j] = new
        \/ \E k \in DOMAIN c : Append(kept, new)[j] = c[k] /\ c[k].user # u
  BY <1>1, <1>5, <1>6
<1>9. /\ Holds(c, u) \/ Len(c) < Cap =>
           \A v : Holds(Append(kept, new), v) <=> Holds(c, v) \/ v = u
      /\ ~Holds(c, u) /\ Len(c) >= Cap =>
           /\ Len(c) = Cap /\ c # <<>> /\ 1 \in DOMAIN c
           /\ \A v : Holds(Append(kept, new), v)
                     <=> (Holds(c, v) /\ v # c[1].user) \/ v = u
  BY <1>1, <1>3
<1> QED BY <1>2, <1>7, <1>8, <1>9 DEF new

-----------------------------------------------------------------------------

\* The inductive invariant: the order of the dict is that of the uses counted.
CacheInv ==
  /\ Good(cache, lastUse, uses)
  /\ stored \in [Users -> Chains]
  /\ HoldsLastStored

(* Every call keeps the dict in the order of the last uses, within capacity, *)
(* and a lookup finds what was stored last (chain.py:45-46, 50-67).          *)
LEMMA CacheInvariant == Spec => []CacheInv
<1>1. Init => CacheInv
  <2> SUFFICES ASSUME Init PROVE CacheInv
    OBVIOUS
  <2>1. cache = <<>> /\ DOMAIN cache = {} /\ Len(cache) = 0 /\ cache \in Seq(Entries)
    BY EmptySeq DEF Init
  <2> QED BY <2>1, CapAssumption DEF Init, CacheInv, Good, Ordered, HoldsLastStored
<1>2. CacheInv /\ [Next]_vars => CacheInv'
  <2> SUFFICES ASSUME CacheInv, [Next]_vars PROVE CacheInv'
    OBVIOUS
  <2>0. Good(cache, lastUse, uses)
    BY DEF CacheInv
  <2>1. ASSUME NEW u \in Users, Hit(u) PROVE CacheInv'
    <3>1. /\ Holds(cache, u) /\ cache' = Touched(cache, u) /\ uses' = uses + 1
          /\ lastUse' = Used(lastUse, u, uses) /\ stored' = stored
      BY <2>1 DEF Hit, Use, Used
    <3>2. Good(cache', lastUse', uses') /\ From(cache', cache)
      BY <2>0, <3>1, TouchedFacts
    <3>3. \A j \in DOMAIN cache' : \E k \in DOMAIN cache : cache'[j] = cache[k]
      BY <3>2 DEF From
    <3> QED BY <3>1, <3>2, <3>3 DEF CacheInv, HoldsLastStored
  <2>2. ASSUME NEW u \in Users, Miss(u) PROVE CacheInv'
    BY <2>2 DEF Miss, Touched, CacheInv, HoldsLastStored
  <2>3. ASSUME NEW u \in Users, Delete(u) PROVE CacheInv'
    <3>1. Good(cache', lastUse', uses') /\ From(cache', cache)
      BY <2>0, <2>3, DroppedFacts DEF Delete
    <3>2. \A j \in DOMAIN cache' : \E k \in DOMAIN cache : cache'[j] = cache[k]
      BY <3>1 DEF From
    <3> QED BY <2>3, <3>1, <3>2 DEF Delete, CacheInv, HoldsLastStored
  <2>4. ASSUME NEW u \in Users, NEW ch \in Chains, Put(u, ch) PROVE CacheInv'
    <3>1. /\ cache' = Stored(cache, u, ch, Cap) /\ uses' = uses + 1
          /\ lastUse' = Used(lastUse, u, uses) /\ stored' = [stored EXCEPT ![u] = ch]
      BY <2>4 DEF Put, Use, Used
    <3>2. /\ Good(cache', lastUse', uses')
          /\ \A j \in DOMAIN cache' :
               \/ cache'[j] = [user |-> u, chain |-> ch]
               \/ \E k \in DOMAIN cache : cache'[j] = cache[k] /\ cache[k].user # u
      BY <2>0, <3>1, StoredFacts
    <3>3. stored' \in [Users -> Chains] /\ stored'[u] = ch
      BY <3>1 DEF CacheInv
    <3>4. \A k \in DOMAIN cache : cache[k].user # u => stored'[cache[k].user] = cache[k].chain
      <4>1. \A k \in DOMAIN cache : cache[k].user \in Users
        <5>1. \A k \in DOMAIN cache : cache[k] \in Entries
          BY <2>0, ElementOfSeq, LenProperties DEF Good
        <5> QED BY <5>1 DEF Entries
      <4> QED BY <4>1, <3>1 DEF CacheInv, HoldsLastStored
    <3>5. HoldsLastStored'
      BY <3>2, <3>3, <3>4 DEF HoldsLastStored
    <3> QED BY <3>2, <3>3, <3>5 DEF CacheInv
  <2>5. CASE UNCHANGED vars
    BY <2>5 DEF vars, CacheInv, HoldsLastStored
  <2> QED BY <2>1, <2>2, <2>3, <2>4, <2>5 DEF Next
<1> QED BY <1>1, <1>2, PTL DEF Spec

(* The dict is ordered by last use and bounded, for every capacity.          *)
THEOREM OrderedByUseHolds == Spec => []OrderedByUse
<1>1. CacheInv => OrderedByUse
  BY DEF CacheInv, Good, Ordered, OrderedByUse
<1> QED BY <1>1, CacheInvariant, PTL

(* A lookup that hits returns the chain stored last for its key.             *)
THEOREM HoldsLastStoredHolds == Spec => []HoldsLastStored
<1>1. CacheInv => HoldsLastStored
  BY DEF CacheInv
<1> QED BY <1>1, CacheInvariant, PTL

(* Only a full cache loses an entry to a store, and it loses the one that    *)
(* every other has been used after (chain.py:18-21).                         *)
THEOREM EvictsLeastRecentlyUsedHolds == Spec => EvictsLeastRecentlyUsed
<1>1. CacheInv /\ [Next]_vars =>
        [\A u \in Users : Holds(cache, u) /\ ~Holds(cache', u) =>
           \/ op' = "delete"
           \/ /\ Len(cache) = Cap
              /\ \A v \in Users : Holds(cache, v) /\ v # u => lastUse[u] < lastUse[v]]_vars
  <2> SUFFICES ASSUME CacheInv, [Next]_vars, NEW w \in Users,
                      Holds(cache, w), ~Holds(cache', w), op' # "delete"
               PROVE  /\ Len(cache) = Cap
                      /\ \A v \in Users : Holds(cache, v) /\ v # w => lastUse[w] < lastUse[v]
    OBVIOUS
  <2>0. Good(cache, lastUse, uses)
    BY DEF CacheInv
  <2>1. ASSUME NEW u \in Users, Hit(u) PROVE FALSE
    <3>1. Holds(cache, u) /\ cache' = Touched(cache, u)
      BY <2>1 DEF Hit
    <3> QED BY <2>0, <3>1, TouchedFacts
  <2>2. ASSUME NEW u \in Users, Miss(u) PROVE FALSE
    BY <2>2 DEF Miss, Touched
  <2>3. ASSUME NEW u \in Users, Delete(u) PROVE FALSE
    BY <2>3 DEF Delete
  <2>4. ASSUME UNCHANGED vars PROVE FALSE
    BY <2>4 DEF vars
  <2>5. ASSUME NEW u \in Users, NEW ch \in Chains, Put(u, ch)
        PROVE  Len(cache) = Cap /\ cache # <<>> /\ w = cache[1].user
    <3>1. cache' = Stored(cache, u, ch, Cap)
      BY <2>5 DEF Put
    <3>2. Len(cache) \in Nat /\ Cap \in Nat
      BY <2>0, CapAssumption, LenProperties DEF Good
    <3> QED BY <2>0, <3>1, <3>2, StoredFacts
  <2>6. Len(cache) = Cap /\ cache # <<>> /\ w = cache[1].user
    <3> DEFINE Lost == Len(cache) = Cap /\ cache # <<>> /\ w = cache[1].user
    <3> HIDE DEF Lost
    <3>1. \A u \in Users, ch \in Chains : Put(u, ch) => Lost
      BY <2>5 DEF Lost
    <3>2. Lost
      BY <2>1, <2>2, <2>3, <2>4, <3>1 DEF Next
    <3> QED BY <3>2 DEF Lost
  <2>7. ASSUME NEW v \in Users, Holds(cache, v), v # w PROVE lastUse[w] < lastUse[v]
    <3>1. PICK k \in DOMAIN cache : cache[k].user = v
      BY <2>7 DEF Holds
    <3>2. DOMAIN cache = 1..Len(cache) /\ Len(cache) \in Nat
      BY <2>0, LenProperties DEF Good
    <3>3. k # 1 /\ k > 1 /\ 1 \in DOMAIN cache
      BY <2>6, <2>7, <3>1, <3>2
    <3> QED BY <2>0, <2>6, <3>1, <3>3 DEF Good, Ordered
  <2> QED BY <2>6, <2>7
<1> QED BY <1>1, CacheInvariant, PTL DEF Spec, EvictsLeastRecentlyUsed

-----------------------------------------------------------------------------
(* The dict as a table. *)

KeysOf(c) == {c[i].user : i \in DOMAIN c}
TableOf(c, last) ==
  [u \in KeysOf(c) |-> [value |-> c[At(c, u)].chain, used |-> last[u]]]

(* An ordered cache has one entry for a key, hence as many keys as entries.  *)
LEMMA KeysFacts ==
  ASSUME NEW c, NEW last, NEW n, Good(c, last, n)
  PROVE  /\ KeysOf(c) \subseteq Users
         /\ \A v : v \in KeysOf(c) <=> Holds(c, v)
         /\ \A i \in DOMAIN c : At(c, c[i].user) = i
         /\ Cardinality(KeysOf(c)) = Len(c)
<1>1. c \in Seq(Entries) /\ DOMAIN c = 1..Len(c) /\ Len(c) \in Nat
  BY LenProperties DEF Good
<1>2. \A i \in DOMAIN c : c[i] \in Entries /\ c[i].user \in Users /\ last[c[i].user] \in Nat
  <2>1. \A i \in DOMAIN c : c[i] \in Entries
    BY <1>1, ElementOfSeq
  <2> QED BY <2>1 DEF Entries, Good
<1>3. ASSUME NEW i \in DOMAIN c, NEW j \in DOMAIN c, c[i].user = c[j].user PROVE i = j
  <2>1. ~(i < j) /\ ~(j < i)
    BY <1>2, <1>3 DEF Good, Ordered
  <2> QED BY <1>1, <2>1
<1>4. KeysOf(c) \subseteq Users /\ \A v : v \in KeysOf(c) <=> Holds(c, v)
  BY <1>2 DEF KeysOf, Holds
<1>5. \A i \in DOMAIN c : At(c, c[i].user) = i
  BY <1>3 DEF At
<1>6. Cardinality(KeysOf(c)) = Len(c)
  <2> DEFINE f == [i \in 1..Len(c) |-> c[i].user]
  <2>1. f \in [1..Len(c) -> KeysOf(c)]
    BY <1>1 DEF KeysOf
  <2>2. \A i, j \in 1..Len(c) : f[i] = f[j] => i = j
    BY <1>1, <1>3
  <2>3. \A v \in KeysOf(c) : \E i \in 1..Len(c) : f[i] = v
    BY <1>1 DEF KeysOf
  <2> HIDE DEF f
  <2>4. f \in Bijection(1..Len(c), KeysOf(c))
    BY <2>1, <2>2, <2>3 DEF Bijection, Injection, Surjection, IsInjective
  <2>5. ExistsBijection(1..Len(c), KeysOf(c))
    BY <2>4 DEF ExistsBijection
  <2> QED BY <1>1, <2>5, FS_CountingElements
<1> QED BY <1>4, <1>5, <1>6

\* From c to d, u has the entry e and the keys in lost are lost.
Rewritten(c, d, u, e, lost) ==
  /\ \A v : Holds(d, v) <=> (Holds(c, v) /\ v \notin lost) \/ v = u
  /\ \A j \in DOMAIN d : d[j] = e \/ \E k \in DOMAIN c : d[j] = c[k] /\ c[k].user # u

\* The table after use n + 1, of u with chain ch.
UsedIn(table, u, ch, lost, n) ==
  [h \in (DOMAIN table \ lost) \cup {u} |->
     IF h = u THEN [value |-> ch, used |-> n + 1] ELSE table[h]]

(* A use of u that rewrites the dict so is the same step on the tables.      *)
LEMMA UsedTable ==
  ASSUME NEW c, NEW d, NEW last, NEW n, NEW u \in Users, NEW lost, NEW e,
         Good(c, last, n), Good(d, Used(last, u, n), n + 1), e.user = u,
         Rewritten(c, d, u, e, lost)
  PROVE  TableOf(d, Used(last, u, n)) = UsedIn(TableOf(c, last), u, e.chain, lost, n)
<1>1. DOMAIN TableOf(c, last) = KeysOf(c)
  BY DEF TableOf
<1>2. KeysOf(d) = (KeysOf(c) \ lost) \cup {u}
  BY KeysFacts DEF Rewritten
<1>3. ASSUME NEW h \in KeysOf(d)
      PROVE  [value |-> d[At(d, h)].chain, used |-> Used(last, u, n)[h]]
               = IF h = u THEN [value |-> e.chain, used |-> n + 1] ELSE TableOf(c, last)[h]
  <2>1. PICK j \in DOMAIN d : d[j].user = h /\ At(d, h) = j
    BY KeysFacts DEF Holds
  <2>2. CASE h = u
    <3>1. d[j] = e
      BY <2>1, <2>2 DEF Rewritten
    <3>2. Used(last, u, n)[u] = n + 1
      BY DEF Used, Good
    <3> QED BY <2>1, <2>2, <3>1, <3>2
  <2>3. CASE h # u
    <3>1. PICK k \in DOMAIN c : d[j] = c[k]
      BY <2>1, <2>3 DEF Rewritten
    <3>2. At(c, h) = k /\ h \in KeysOf(c) /\ h \in Users
      BY <2>1, <3>1, KeysFacts DEF KeysOf
    <3>3. Used(last, u, n)[h] = last[h]
      BY <2>3, <3>2 DEF Used, Good
    <3> QED BY <2>1, <2>3, <3>1, <3>2, <3>3 DEF TableOf
  <2> QED BY <2>2, <2>3
<1> QED BY <1>1, <1>2, <1>3 DEF TableOf, UsedIn

(* The step of each method on the table.                                     *)
LEMMA HitUses ==
  ASSUME CacheInv, NEW u \in Users, Hit(u)
  PROVE  LRU!Get(u)
<1> DEFINE d == Touched(cache, u)
           e == cache[At(cache, u)]
<1>1. /\ Holds(cache, u) /\ cache' = d /\ uses' = uses + 1
      /\ lastUse' = Used(lastUse, u, uses) /\ Good(cache, lastUse, uses)
  BY DEF Hit, Use, Used, CacheInv
<1>2. /\ Good(d, Used(lastUse, u, uses), uses + 1) /\ From(d, cache)
      /\ \A v : Holds(d, v) <=> Holds(cache, v)
  BY <1>1, TouchedFacts
<1>3. At(cache, u) \in DOMAIN cache /\ e.user = u
  BY <1>1, AtFacts, LenProperties DEF Good
<1> HIDE DEF d
<1>4. Rewritten(cache, d, u, e, {})
  BY <1>1, <1>2, KeysFacts DEF From, Rewritten
<1> HIDE DEF e
<1>5. TableOf(d, Used(lastUse, u, uses))
        = UsedIn(TableOf(cache, lastUse), u, e.chain, {}, uses)
  BY <1>1, <1>2, <1>3, <1>4, UsedTable
<1>6. Table = TableOf(cache, lastUse) /\ Table' = TableOf(d, Used(lastUse, u, uses))
  BY <1>1 DEF Table, TableOf, KeysOf
<1>7. u \in DOMAIN Table /\ Table[u].value = e.chain
  BY <1>1, <1>6, KeysFacts DEF TableOf, e
<1>8. UNCHANGED stored
  BY DEF Hit
<1> QED BY <1>1, <1>5, <1>6, <1>7, <1>8 DEF LRU!Get, LRU!Use, UsedIn

LEMMA DeleteDeletes ==
  ASSUME CacheInv, NEW u \in Users, Delete(u)
  PROVE  LRU!Delete(u)
<1> DEFINE d == Dropped(cache, u)
<1>1. /\ cache' = d /\ UNCHANGED <<uses, lastUse, stored>>
      /\ Good(cache, lastUse, uses)
  BY DEF Delete, CacheInv
<1>2. /\ Good(d, lastUse, uses) /\ From(d, cache)
      /\ \A v : Holds(d, v) <=> Holds(cache, v) /\ v # u
  BY <1>1, DroppedFacts
<1> HIDE DEF d
<1>3. KeysOf(d) = KeysOf(cache) \ {u}
  BY <1>1, <1>2, KeysFacts
<1>4. ASSUME NEW h \in KeysOf(d) PROVE d[At(d, h)] = cache[At(cache, h)]
  <2>1. PICK j \in DOMAIN d : d[j].user = h /\ At(d, h) = j
    BY <1>2, KeysFacts DEF Holds
  <2>2. PICK k \in DOMAIN cache : d[j] = cache[k]
    BY <1>2 DEF From
  <2> QED BY <1>1, <2>1, <2>2, KeysFacts
<1>5. TableOf(d, lastUse) = [h \in DOMAIN TableOf(cache, lastUse) \ {u} |-> TableOf(cache, lastUse)[h]]
  BY <1>3, <1>4 DEF TableOf
<1>6. Table = TableOf(cache, lastUse) /\ Table' = TableOf(d, lastUse)
  BY <1>1 DEF Table, TableOf, KeysOf
<1> QED BY <1>1, <1>5, <1>6 DEF LRU!Delete

(* The abstract table counts with the same operator.                         *)
LEMMA CountsAlike == \A S : LRU!Cardinality(S) = Cardinality(S)
BY DEF LRU!Cardinality, Cardinality

LEMMA PutPuts ==
  ASSUME CacheInv, NEW u \in Users, NEW ch \in Chains, Put(u, ch)
  PROVE  LRU!Put(u, ch)
<1> DEFINE d == Stored(cache, u, ch, Cap)
           e == [user |-> u, chain |-> ch]
<1>0. stored' = [stored EXCEPT ![u] = ch]
  BY DEF Put
<1>1. /\ cache' = d /\ uses' = uses + 1
      /\ lastUse' = Used(lastUse, u, uses) /\ Good(cache, lastUse, uses)
  BY DEF Put, Use, Used, CacheInv
<1>2. /\ Good(d, Used(lastUse, u, uses), uses + 1)
      /\ \A j \in DOMAIN d : d[j] = e \/ \E k \in DOMAIN cache : d[j] = cache[k] /\ cache[k].user # u
      /\ Holds(cache, u) \/ Len(cache) < Cap => \A v : Holds(d, v) <=> Holds(cache, v) \/ v = u
      /\ ~Holds(cache, u) /\ Len(cache) >= Cap =>
           /\ 1 \in DOMAIN cache
           /\ \A v : Holds(d, v) <=> (Holds(cache, v) /\ v # cache[1].user) \/ v = u
  BY <1>1, StoredFacts
<1>3. e.user = u /\ e.chain = ch
  OBVIOUS
<1> HIDE DEF d, e
<1>4. Table = TableOf(cache, lastUse) /\ Table' = TableOf(d, Used(lastUse, u, uses))
  BY <1>1 DEF Table, TableOf, KeysOf
<1>5. /\ DOMAIN Table = KeysOf(cache)
      /\ u \in DOMAIN Table <=> Holds(cache, u)
      /\ Cardinality(DOMAIN Table) = Len(cache)
      /\ Len(cache) \in Nat /\ Cap \in Nat
  BY <1>1, <1>4, KeysFacts, CapAssumption, LenProperties DEF TableOf, Good
<1>6. ASSUME NEW lost, Rewritten(cache, d, u, e, lost)
      PROVE  LRU!Use(u, ch, lost)
  <2>1. TableOf(d, Used(lastUse, u, uses))
          = UsedIn(TableOf(cache, lastUse), u, e.chain, lost, uses)
    BY <1>1, <1>2, <1>3, <1>6, UsedTable
  <2> QED BY <1>1, <1>3, <1>4, <2>1 DEF LRU!Use, UsedIn
<1>7. CASE Holds(cache, u) \/ Len(cache) < Cap
  <2>1. Rewritten(cache, d, u, e, {})
    BY <1>2, <1>7 DEF Rewritten
  <2>2. LRU!Use(u, ch, {})
    BY <1>6, <2>1
  <2> QED BY <1>0, <1>5, <1>7, <2>2, CountsAlike DEF LRU!Put
<1>8. CASE ~Holds(cache, u) /\ Len(cache) >= Cap
  <2> DEFINE o == cache[1].user
  <2>1. 1 \in DOMAIN cache /\ o \in DOMAIN Table
    BY <1>2, <1>5, <1>8 DEF KeysOf
  <2>2. LRU!Use(u, ch, {o})
    <3>1. Rewritten(cache, d, u, e, {o})
      BY <1>2, <1>8 DEF Rewritten
    <3> QED BY <1>6, <3>1
  <2>3. ASSUME NEW h \in DOMAIN Table PROVE Table[o].used <= Table[h].used
    <3>1. PICK k \in DOMAIN cache : cache[k].user = h
      BY <1>5 DEF KeysOf
    <3>2. h \in Users /\ o \in Users /\ lastUse[h] \in Nat /\ lastUse[o] \in Nat
      BY <1>1, <1>5, <2>1, KeysFacts DEF Good
    <3>3. k = 1 \/ 1 < k
      BY <1>1, LenProperties DEF Good
    <3>4. lastUse[o] <= lastUse[h]
      BY <1>1, <2>1, <3>1, <3>2, <3>3 DEF Good, Ordered
    <3>5. Table[o].used = lastUse[o] /\ Table[h].used = lastUse[h]
      BY <1>4, <1>5, <2>1 DEF TableOf
    <3> QED BY <3>4, <3>5
  <2> HIDE DEF o
  <2>4. LRU!Oldest(o)
    BY <2>3 DEF LRU!Oldest
  <2>5. ~(u \in DOMAIN Table \/ Cardinality(DOMAIN Table) < Cap)
    BY <1>5, <1>8
  <2> QED BY <1>0, <2>1, <2>2, <2>4, <2>5, CountsAlike DEF LRU!Put
<1> QED BY <1>5, <1>7, <1>8

(* The three methods on an ordered dict are those of a table that makes room *)
(* for a key by losing the one unused for longest, for every capacity        *)
(* (chain.py:18-21, 44-67).                                                  *)
THEOREM ImplementsLRUHolds == Spec => ImplementsLRU
<1>1. Init => LRU!Init
  <2> SUFFICES ASSUME Init PROVE LRU!Init
    OBVIOUS
  <2>1. cache = <<>> /\ DOMAIN cache = {} /\ uses = 0 /\ stored \in [Users -> Chains]
    BY EmptySeq DEF Init
  <2>2. {cache[i].user : i \in DOMAIN cache} = {}
    BY <2>1
  <2>3. Table = [k \in {} |-> k]
    BY <2>2 DEF Table
  <2> QED BY <2>1, <2>3 DEF LRU!Init
<1>2. CacheInv /\ [Next]_vars => [LRU!Next]_(LRU!vars)
  <2> SUFFICES ASSUME CacheInv, [Next]_vars PROVE [LRU!Next]_(LRU!vars)
    OBVIOUS
  <2>1. ASSUME NEW u \in Users, Hit(u) PROVE LRU!Next
    BY <2>1, HitUses DEF LRU!Next
  <2>2. ASSUME NEW u \in Users, Miss(u) PROVE UNCHANGED LRU!vars
    BY <2>2 DEF Miss, Touched, Table, LRU!vars
  <2>3. ASSUME NEW u \in Users, Delete(u) PROVE LRU!Next
    BY <2>3, DeleteDeletes DEF LRU!Next
  <2>4. ASSUME NEW u \in Users, NEW ch \in Chains, Put(u, ch) PROVE LRU!Next
    BY <2>4, PutPuts DEF LRU!Next
  <2>5. CASE UNCHANGED vars
    BY <2>5 DEF vars, Table, LRU!vars
  <2> QED BY <2>1, <2>2, <2>3, <2>4, <2>5 DEF Next
<1> QED BY <1>1, <1>2, CacheInvariant, PTL DEF Spec, ImplementsLRU, LRU!Spec
=============================================================================
