--------------------------- MODULE ChainCacheLRU ----------------------------
(***************************************************************************)
(* The chain cache alone, under any sequence of calls: a specification     *)
(* with the history that says what "least recently used" means, which the  *)
(* code never computes and only keeps in the order of its dict.            *)
(***************************************************************************)
EXTENDS ChainCache

CONSTANTS Users, Chains, Cap,
          MaxUses   \* bound on the uses counted

ASSUME CapAssumption == Cap \in Nat \ {0}

VARIABLES
  cache,      \* MemoryChainCache._entries
  op,         \* the last method called
  uses,       \* stores and hits so far
  lastUse,    \* lastUse[u]: the last of them that was for u
  stored      \* stored[u]: the chain last stored for u

vars == <<cache, op, uses, lastUse, stored>>

Entries == [user : Users, chain : Chains]

TypeOK ==
  /\ cache \in Seq(Entries)
  /\ op \in {"none", "get", "put", "delete"}
  /\ uses \in Nat
  /\ lastUse \in [Users -> Nat]

Init ==
  /\ cache = <<>>
  /\ op = "none"
  /\ uses = 0
  /\ lastUse = [u \in Users |-> 0]
  /\ stored \in [Users -> Chains]

Use(u) == /\ uses' = uses + 1
          /\ lastUse' = [lastUse EXCEPT ![u] = uses + 1]

Hit(u) ==
  /\ Holds(cache, u)
  /\ uses < MaxUses
  /\ Use(u)
  /\ cache' = Touched(cache, u)
  /\ op' = "get"
  /\ UNCHANGED stored

Miss(u) ==
  /\ ~Holds(cache, u)
  /\ cache' = Touched(cache, u)
  /\ op' = "get"
  /\ UNCHANGED <<uses, lastUse, stored>>

Put(u, ch) ==
  /\ uses < MaxUses
  /\ Use(u)
  /\ cache' = Stored(cache, u, ch, Cap)
  /\ op' = "put"
  /\ stored' = [stored EXCEPT ![u] = ch]

Delete(u) ==
  /\ cache' = Dropped(cache, u)
  /\ op' = "delete"
  /\ UNCHANGED <<uses, lastUse, stored>>

Next == \E u \in Users : \/ Hit(u) \/ Miss(u) \/ Delete(u)
                         \/ \E ch \in Chains : Put(u, ch)

Spec == Init /\ [][Next]_vars

-----------------------------------------------------------------------------

\* The order of the dict is the order of the last uses, one entry per key: the
\* invariant the method bodies keep (chain.py:45-46).
OrderedByUse ==
  /\ \A i, j \in DOMAIN cache :
       i < j => lastUse[cache[i].user] < lastUse[cache[j].user]
  /\ Len(cache) <= Cap

\* An entry is lost to a store only when the cache is full, and only if every
\* other emitter's entry has been used since (chain.py:18-21).
EvictsLeastRecentlyUsed ==
  [][\A u \in Users : Holds(cache, u) /\ ~Holds(cache', u) =>
       \/ op' = "delete"
       \/ /\ Len(cache) = Cap
          /\ \A v \in Users : Holds(cache, v) /\ v # u => lastUse[u] < lastUse[v]]_vars

\* What a lookup finds is what was stored last for that key.
HoldsLastStored ==
  \A i \in DOMAIN cache : cache[i].chain = stored[cache[i].user]

\* The dict as a table, without its order.
Table == [u \in {cache[i].user : i \in DOMAIN cache} |->
            [value |-> cache[At(cache, u)].chain, used |-> lastUse[u]]]

LRU == INSTANCE LeastRecentlyUsed
         WITH Keys <- Users, Values <- Chains, now <- uses, latest <- stored, table <- Table

\* Moving, dropping and appending entries of an ordered dict is a least recently
\* used table: which entry a store loses, what every hit returns and that nothing
\* else is ever lost (chain.py:18-21, 44-67).
ImplementsLRU == LRU!Spec
=============================================================================
