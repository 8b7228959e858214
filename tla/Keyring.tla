------------------------------ MODULE Keyring ------------------------------
(***************************************************************************)
(* The construction of a Keyring (keyring.py): the operator tokens are     *)
(* taken one by one and each is checked against what the earlier ones left *)
(* in three indexes.  What the result must not depend on is their order.   *)
(***************************************************************************)
EXTENDS Integers, Sequences

CONSTANTS
  Keys, Names, Ids,
  Inputs       \* the argument lists *operator_tokens

\* A token as verify_operator sees it.  genuine: it decodes, is an operator token
\* and is signed by its own subject; name is the key when the token has no name.
\* The id is what the wire says: nobody recomputes it from the content.
Token == [id : Ids, subject : Keys, epoch : Nat, name : Names, genuine : BOOLEAN]

ASSUME InputAssumption == Inputs \subseteq Seq(Token)

VARIABLES
  input,
  taken,      \* how many tokens the loop has dealt with
  entries, jtis,
  names,      \* the dict names, as pairs of a name and its key
  status

vars == <<input, taken, entries, jtis, names, status>>

TypeOK ==
  /\ input \in Inputs
  /\ taken \in 0 .. Len(input)
  /\ entries \subseteq Token
  /\ jtis \subseteq Ids
  /\ names \subseteq Names \X Keys
  /\ status \in {"building", "built", "unverified", "occupied", "name_taken",
                 "names_disagree", "empty"}

Init ==
  /\ input \in Inputs
  /\ taken = 0
  /\ entries = {} /\ jtis = {} /\ names = {}
  /\ status = "building"

More == status = "building" /\ taken < Len(input)
Claims == input[taken + 1]

Fail(reason) == status' = reason /\ UNCHANGED <<input, taken, entries, jtis, names>>

FailUnverified == More /\ ~Claims.genuine /\ Fail("unverified")

\* Mutant of Duplicate: tokens of one operator collapse.
DuplicateByKey == \E e \in entries : e.subject = Claims.subject

Duplicate == Claims.id \in jtis

Skip ==
  /\ More /\ Claims.genuine /\ Duplicate
  /\ taken' = taken + 1
  /\ UNCHANGED <<input, entries, jtis, names, status>>

Occupied == \E e \in entries : e.subject = Claims.subject /\ e.epoch = Claims.epoch

\* Mutant of NameTaken: the owner of a name is not looked up.
NameTakenNever == FALSE

NameTaken == \E key \in Keys : <<Claims.name, key>> \in names /\ key # Claims.subject
NamesDisagree == \E e \in entries : e.subject = Claims.subject /\ e.name # Claims.name

FailOccupied == More /\ Claims.genuine /\ ~Duplicate /\ Occupied /\ Fail("occupied")
FailNameTaken ==
  More /\ Claims.genuine /\ ~Duplicate /\ ~Occupied /\ NameTaken /\ Fail("name_taken")
FailNamesDisagree ==
  /\ More /\ Claims.genuine /\ ~Duplicate /\ ~Occupied /\ ~NameTaken /\ NamesDisagree
  /\ Fail("names_disagree")

\* names[name] = subject replaces the name's pair, if it has one.
Enter ==
  /\ More /\ Claims.genuine /\ ~Duplicate /\ ~Occupied /\ ~NameTaken /\ ~NamesDisagree
  /\ taken' = taken + 1
  /\ entries' = entries \cup {Claims}
  /\ names' = {p \in names : p[1] # Claims.name} \cup {<<Claims.name, Claims.subject>>}
  /\ jtis' = jtis \cup {Claims.id}
  /\ UNCHANGED <<input, status>>

Finish ==
  /\ status = "building" /\ taken = Len(input)
  /\ status' = IF entries = {} THEN "empty" ELSE "built"
  /\ UNCHANGED <<input, taken, entries, jtis, names>>

Next == \/ FailUnverified \/ Skip
        \/ FailOccupied \/ FailNameTaken \/ FailNamesDisagree
        \/ Enter \/ Finish

Spec == Init /\ [][Next]_vars

-----------------------------------------------------------------------------

\* keyring.py:24-28, of two tokens in no order: the pair is occupied by another
\* token, two operators share a name, or one operator has two names.
Conflict(p, q) ==
  \/ p.subject = q.subject /\ p.epoch = q.epoch /\ p # q
  \/ p.name = q.name /\ p.subject # q.subject
  \/ p.subject = q.subject /\ p.name # q.name

Consistent(S) == \A p, q \in S : ~Conflict(p, q)

Tokens == {input[i] : i \in DOMAIN input}

\* The first token of each id: the ones the constructor looks at.
First(i) == \A j \in 1 .. i - 1 : input[j].id # input[i].id
Firsts == {input[i] : i \in {j \in DOMAIN input : First(j)}}

\* Whether an id names one content, as the ids do that this library computes
\* (token.py:329-360).
IdsAreContent == \A p, q \in Tokens : p.id = q.id => p = q

\* Three incremental indexes decide what one symmetric relation says of the tokens
\* that come first with their ids: construction succeeds exactly when every token
\* is genuine and these are consistent.  So where ids are those of the contents,
\* the verdict depends on no order or repetition (keyring.py:38-66).
AcceptsExactlyConsistent ==
  status # "building" =>
    LET Accepts(S) == S # {} /\ Consistent(S) /\ \A p \in Tokens : p.genuine
    IN  /\ status = "built" <=> Accepts(Firsts)
        /\ IdsAreContent => (status = "built" <=> Accepts(Tokens))

\* A built keyring has lost and invented nothing: a token that is not among its
\* entries comes after another with its id (keyring.py:43), which is never so where
\* ids are those of the contents.  (key, epoch) selects at most one of the entries,
\* whose name is its operator's alone (keyring.py:61-67).
EntriesAreTheTokens ==
  status = "built" =>
    /\ entries = Firsts
    /\ IdsAreContent => entries = Tokens
    /\ \A p, q \in entries : p.subject = q.subject /\ p.epoch = q.epoch => p = q
    /\ \A p, q \in entries : p.name = q.name <=> p.subject = q.subject
=============================================================================
