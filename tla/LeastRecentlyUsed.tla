------------------------- MODULE LeastRecentlyUsed -------------------------
(***************************************************************************)
(* What a bounded cache promises: a table of at most Cap keys, each with   *)
(* the value last put for it, that makes room for another key by losing    *)
(* the one that has gone unused for longest, and loses no key otherwise    *)
(* but on request (chain.py:18-21).                                        *)
(***************************************************************************)
EXTENDS Naturals, FiniteSets

CONSTANTS Keys, Values, Cap

VARIABLES
  now,      \* how many uses there have been
  latest,   \* latest[k]: what was put last for key k, held or not
  table     \* the keys held, each with its value and its last use

vars == <<now, latest, table>>

Init == now = 0 /\ latest \in [Keys -> Values] /\ table = [k \in {} |-> k]

\* Key k is used with value v, and the keys in lost are lost.
Use(k, v, lost) ==
  /\ now' = now + 1
  /\ table' = [h \in (DOMAIN table \ lost) \cup {k} |->
                 IF h = k THEN [value |-> v, used |-> now + 1] ELSE table[h]]

Oldest(k) == \A h \in DOMAIN table : table[k].used <= table[h].used

Get(k) == k \in DOMAIN table /\ Use(k, table[k].value, {}) /\ UNCHANGED latest

Put(k, v) ==
  /\ IF k \in DOMAIN table \/ Cardinality(DOMAIN table) < Cap
     THEN Use(k, v, {})
     ELSE \E o \in DOMAIN table : Oldest(o) /\ Use(k, v, {o})
  /\ latest' = [latest EXCEPT ![k] = v]

Delete(k) ==
  /\ table' = [h \in DOMAIN table \ {k} |-> table[h]]
  /\ UNCHANGED <<now, latest>>

Next == \E k \in Keys : Get(k) \/ Delete(k) \/ \E v \in Values : Put(k, v)

Spec == Init /\ [][Next]_vars
=============================================================================
