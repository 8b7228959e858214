----------------------------- MODULE Allowlist -----------------------------
(***************************************************************************)
(* StaticAllowlist (allowlist.py): the ids of the account tokens that are  *)
(* still accepted, edited by administrators while calls of verify look ids *)
(* up.                                                                     *)
(*                                                                         *)
(* The object holds a reference, _ids, to a set.  add and discard load the *)
(* reference and then change the set it names; replace builds a new set    *)
(* and stores its reference.  Each load, change and store is atomic under  *)
(* the interpreter lock and nothing holds two of them together, so a set   *)
(* may be changed or searched after it has been replaced.                  *)
(***************************************************************************)
EXTENDS Integers

CONSTANTS
  Ids,      \* token ids (jti) the allowlist speaks of
  Admins,   \* threads that edit it
  Sets      \* the set objects there may be at once

ASSUME SetsAssumption == Sets # {}

VARIABLES
  content,  \* content[s]: the ids in set object s
  current,  \* StaticAllowlist._ids
  edit      \* edit[a]: the add or discard thread a is in the middle of, if any

allowlist == <<content, current, edit>>

Edit == [op : {"add", "discard"}, id : Ids, set : Sets]

AllowlistTypeOK ==
  /\ content \in [Sets -> SUBSET Ids]
  /\ current \in Sets
  /\ edit \in [Admins -> SUBSET Edit]
  /\ \A a \in Admins : \A e, f \in edit[a] : e = f

AnySet == CHOOSE s \in Sets : TRUE

\* StaticAllowlist(*jtis) with any ids.
AllowlistInit ==
  /\ current = AnySet
  /\ content \in [Sets -> SUBSET Ids]
  /\ \A s \in Sets \ {current} : content[s] = {}
  /\ edit = [a \in Admins |-> {}]

Listed == content[current]

\* The ids whose addition, or removal, is under way.
Pending(op) == {e.id : e \in {f \in UNION {edit[a] : a \in Admins} : f.op = op}}

-----------------------------------------------------------------------------

\* add and discard load _ids ...
Load(a, op, id) ==
  /\ edit[a] = {}
  /\ edit' = [edit EXCEPT ![a] = {[op |-> op, id |-> id, set |-> current]}]
  /\ UNCHANGED <<content, current>>

\* ... and change the set it named.
Change(a) == \E e \in edit[a] :
  /\ content' = [content EXCEPT ![e.set] =
       IF e.op = "add" THEN @ \cup {e.id} ELSE @ \ {e.id}]
  /\ edit' = [edit EXCEPT ![a] = {}]
  /\ UNCHANGED current

\* Mutant of Swap: the set is emptied and filled again in place, by one more edit.
SwapInPlace(ids, inUse) ==
  /\ content' = [content EXCEPT ![current] = {}]
  /\ \E a \in Admins, id \in ids :
       /\ edit[a] = {}
       /\ edit' = [edit EXCEPT ![a] = {[op |-> "add", id |-> id, set |-> current]}]
  /\ UNCHANGED current

\* replace stores the reference of a new set; a set nobody names any more is gone.
Swap(ids, inUse) ==
  LET free == Sets \ ({current} \cup inUse)
  IN  /\ free # {}
      /\ current' = CHOOSE s \in free : TRUE
      /\ content' = [s \in Sets |-> IF s = current' THEN ids
                                    ELSE IF s \in inUse THEN content[s] ELSE {}]
      /\ UNCHANGED edit

\* The sets that edits still name.
Named == {e.set : e \in UNION {edit[a] : a \in Admins}}
=============================================================================
