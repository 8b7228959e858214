----------------------------- MODULE ChainCache -----------------------------
(***************************************************************************)
(* MemoryChainCache (chain.py:37-67): an ordered dict from an emitter's    *)
(* user key to the chain a receiver last verified for it.  A cache is a    *)
(* sequence of entries, the least recently used first; each operator is    *)
(* the body of one method, which runs under the cache's lock.              *)
(***************************************************************************)
EXTENDS Integers, SequencesExt

\* The position of u, and whether it is cached.
Holds(cache, u) == \E i \in DOMAIN cache : cache[i].user = u
At(cache, u) == CHOOSE i \in DOMAIN cache : cache[i].user = u

\* Mutant of Touched: a hit does not count as a use.
TouchedNever(cache, u) == cache

\* get: a hit becomes the most recently used entry.
Touched(cache, u) ==
  IF Holds(cache, u)
  THEN Append(RemoveAt(cache, At(cache, u)), cache[At(cache, u)])
  ELSE cache

\* Mutants of Stored: the capacity test is off by one; the newest entry makes
\* room; a refreshed key keeps its old chain.
StoredOverCap(cache, u, ch, cap) ==
  LET kept == IF Holds(cache, u) THEN RemoveAt(cache, At(cache, u))
              ELSE IF Len(cache) > cap THEN Tail(cache)
              ELSE cache
  IN  Append(kept, [user |-> u, chain |-> ch])
StoredOverNewest(cache, u, ch, cap) ==
  LET kept == IF Holds(cache, u) THEN RemoveAt(cache, At(cache, u))
              ELSE IF Len(cache) >= cap THEN Front(cache)
              ELSE cache
  IN  Append(kept, [user |-> u, chain |-> ch])
StoredOnce(cache, u, ch, cap) ==
  IF Holds(cache, u) THEN Touched(cache, u)
  ELSE Append(IF Len(cache) >= cap THEN Tail(cache) ELSE cache,
              [user |-> u, chain |-> ch])

\* put: refresh a known key, else make room by dropping the oldest entry.
Stored(cache, u, ch, cap) ==
  LET kept == IF Holds(cache, u) THEN RemoveAt(cache, At(cache, u))
              ELSE IF Len(cache) >= cap THEN Tail(cache)
              ELSE cache
  IN  Append(kept, [user |-> u, chain |-> ch])

\* delete: forget the key if it is there.
Dropped(cache, u) ==
  IF Holds(cache, u) THEN RemoveAt(cache, At(cache, u)) ELSE cache
=============================================================================
