--------------------------- MODULE KeyringProofs ---------------------------
(* That a keyring is built from exactly the consistent inputs, whatever the   *)
(* operators, names, epochs and ids and however long the input.               *)
EXTENDS Keyring, TLAPS

\* Of the tokens dealt with so far, those that come first with their ids.
Kept(n) == {input[i] : i \in {j \in 1 .. n : First(j)}}

Failures == {"unverified", "occupied", "name_taken", "names_disagree"}

\* The three indexes agree: they are the tokens kept, the ids seen and their names.
Indexed ==
  /\ entries = Kept(taken)
  /\ \A i \in 1 .. taken : input[i].genuine /\ input[i].id \in jtis
  /\ \A id \in jtis : \E e \in entries : e.id = id
  /\ \A e \in entries : <<e.name, e.subject>> \in names
  /\ \A p \in names : \E e \in entries : p = <<e.name, e.subject>>

\* Nothing has been skipped for good if ids are those of the contents.
NothingLost == IdsAreContent => \A i \in 1 .. taken : input[i] \in entries

Decided ==
  /\ status = "built" => taken = Len(input) /\ entries # {}
  /\ status = "empty" => taken = Len(input) /\ entries = {}
  /\ status \in Failures => ~Consistent(Firsts) \/ \E p \in Tokens : ~p.genuine

KeyringInv == TypeOK /\ Indexed /\ NothingLost /\ Consistent(entries) /\ Decided

-----------------------------------------------------------------------------

\* The next token is one of the input's; the tokens kept are first with their ids.
LEMMA PrefixFacts ==
  ASSUME TypeOK
  PROVE  /\ input \in Seq(Token) /\ DOMAIN input = 1 .. Len(input)
         /\ taken \in Nat /\ taken <= Len(input)
         /\ Firsts \subseteq Tokens
         /\ Kept(taken) \subseteq Firsts
         /\ Kept(Len(input)) = Firsts
         /\ More => /\ taken + 1 \in 1 .. Len(input)
                    /\ Claims \in Tokens /\ Claims \in Token
                    /\ 1 .. (taken + 1) = (1 .. taken) \cup {taken + 1}
<1>1. input \in Seq(Token)
  BY InputAssumption DEF TypeOK
<1>2. Len(input) \in Nat /\ DOMAIN input = 1 .. Len(input)
  BY <1>1
<1>3. taken \in Nat /\ taken <= Len(input)
  BY <1>2 DEF TypeOK
<1>4. Firsts \subseteq Tokens
  BY DEF Firsts, Tokens
<1>5. Kept(taken) \subseteq Firsts
  <2>1. 1 .. taken \subseteq DOMAIN input
    BY <1>2, <1>3
  <2> QED
    BY <2>1 DEF Kept, Firsts
<1>6. Kept(Len(input)) = Firsts
  BY <1>2 DEF Kept, Firsts
<1>7. ASSUME More
      PROVE  /\ taken + 1 \in 1 .. Len(input)
             /\ Claims \in Tokens /\ Claims \in Token
             /\ 1 .. (taken + 1) = (1 .. taken) \cup {taken + 1}
  <2>1. taken + 1 \in 1 .. Len(input)
    BY <1>2, <1>3, <1>7 DEF More
  <2>2. Claims \in Tokens /\ Claims \in Token
    BY <1>1, <1>2, <2>1 DEF Claims, Tokens
  <2>3. 1 .. (taken + 1) = (1 .. taken) \cup {taken + 1}
    BY <1>3
  <2> QED
    BY <2>1, <2>2, <2>3
<1> QED
  BY <1>1, <1>2, <1>3, <1>4, <1>5, <1>6, <1>7

\* The set of ids seen tells whether a token is the first with its id.
LEMMA FirstIsNoDuplicate ==
  ASSUME TypeOK, Indexed, More
  PROVE  First(taken + 1) <=> ~Duplicate
<1>1. taken \in Nat /\ (taken + 1) - 1 = taken
  BY PrefixFacts
<1>2. First(taken + 1) <=> \A j \in 1 .. taken : input[j].id # Claims.id
  BY <1>1 DEF First, Claims
<1>3. Duplicate => \E j \in 1 .. taken : input[j].id = Claims.id
  BY DEF Duplicate, Indexed, Kept
<1>4. ~Duplicate => \A j \in 1 .. taken : input[j].id # Claims.id
  BY DEF Duplicate, Indexed
<1> QED
  BY <1>2, <1>3, <1>4

\* What the next token adds to the tokens kept.
LEMMA KeptNext ==
  ASSUME TypeOK, More
  PROVE  Kept(taken + 1) = Kept(taken) \cup (IF First(taken + 1) THEN {Claims} ELSE {})
BY PrefixFacts DEF Kept, Claims

\* A token that does not verify fails the keyring; so does a token not seen before
\* that conflicts with an entry.
LEMMA FailureHasACause ==
  ASSUME TypeOK, Indexed, More,
         \/ ~Claims.genuine
         \/ ~Duplicate /\ \E e \in entries : Conflict(e, Claims)
  PROVE  ~Consistent(Firsts) \/ \E p \in Tokens : ~p.genuine
<1>1. CASE ~Claims.genuine
  BY <1>1, PrefixFacts
<1>2. CASE ~Duplicate /\ \E e \in entries : Conflict(e, Claims)
  <2>1. Claims \in Firsts
    <3>1. First(taken + 1) /\ taken + 1 \in DOMAIN input
      BY <1>2, FirstIsNoDuplicate, PrefixFacts
    <3> QED
      BY <3>1 DEF Firsts, Claims
  <2>2. entries \subseteq Firsts
    BY PrefixFacts DEF Indexed
  <2> QED
    BY <1>2, <2>1, <2>2 DEF Consistent
<1> QED
  BY <1>1, <1>2

\* An empty keyring under construction is consistent.
LEMMA InitEstablishes == Init => KeyringInv
<1> SUFFICES ASSUME Init PROVE KeyringInv
  OBVIOUS
<1>1. TypeOK
  BY InputAssumption DEF Init, TypeOK
<1>2. Indexed
  BY DEF Init, Indexed, Kept
<1>3. NothingLost /\ Consistent(entries) /\ Decided
  BY DEF Init, NothingLost, Consistent, Decided, Failures
<1> QED
  BY <1>1, <1>2, <1>3 DEF KeyringInv

\* A step that leaves the loop's variables alone leaves what is said of them alone.
LEMMA IndexesKeep ==
  ASSUME KeyringInv, UNCHANGED <<input, taken, entries, jtis, names>>
  PROVE  Indexed' /\ NothingLost' /\ Consistent(entries)'
<1>1. Kept(taken)' = Kept(taken)
  BY DEF Kept, First
<1>2. Indexed'
  BY <1>1 DEF KeyringInv, Indexed
<1>3. NothingLost'
  BY DEF KeyringInv, NothingLost, IdsAreContent, Tokens
<1>4. Consistent(entries)'
  BY DEF KeyringInv, Consistent, Conflict
<1> QED
  BY <1>2, <1>3, <1>4

\* A failing step: the index it consulted names a conflicting earlier token.
LEMMA FailuresKeep ==
  ASSUME KeyringInv,
         FailUnverified \/ FailOccupied \/ FailNameTaken \/ FailNamesDisagree
  PROVE  KeyringInv'
<1>1. More /\ status' \in Failures /\ UNCHANGED <<input, taken, entries, jtis, names>>
  BY DEF FailUnverified, FailOccupied, FailNameTaken, FailNamesDisagree, Fail, Failures
<1>2. \/ ~Claims.genuine
      \/ ~Duplicate /\ \E e \in entries : Conflict(e, Claims)
  <2>1. CASE FailUnverified
    BY <2>1 DEF FailUnverified
  <2>2. CASE FailOccupied
    <3>1. PICK e \in entries : e.subject = Claims.subject /\ e.epoch = Claims.epoch
      BY <2>2 DEF FailOccupied, Occupied
    <3>2. e.id \in jtis /\ ~Duplicate
      BY <2>2 DEF FailOccupied, KeyringInv, Indexed, Kept
    <3>3. e # Claims
      BY <3>2 DEF Duplicate
    <3> QED
      BY <3>1, <3>2, <3>3 DEF Conflict
  <2>3. CASE FailNameTaken
    <3>1. PICK key \in Keys : <<Claims.name, key>> \in names /\ key # Claims.subject
      BY <2>3 DEF FailNameTaken, NameTaken
    <3>2. PICK e \in entries : <<Claims.name, key>> = <<e.name, e.subject>>
      BY <3>1 DEF KeyringInv, Indexed
    <3> QED
      BY <2>3, <3>1, <3>2 DEF Conflict, FailNameTaken
  <2>4. CASE FailNamesDisagree
    BY <2>4 DEF FailNamesDisagree, NamesDisagree, Conflict
  <2> QED
    BY <2>1, <2>2, <2>3, <2>4
<1>3. ~Consistent(Firsts) \/ \E p \in Tokens : ~p.genuine
  BY <1>1, <1>2, FailureHasACause DEF KeyringInv
<1>4. TypeOK'
  BY <1>1 DEF KeyringInv, TypeOK, Failures
<1>5. Indexed' /\ NothingLost' /\ Consistent(entries)'
  BY <1>1, IndexesKeep
<1>6. Decided'
  BY <1>1, <1>3 DEF Decided, Failures, Tokens, Firsts, First, Consistent, Conflict
<1> QED
  BY <1>4, <1>5, <1>6 DEF KeyringInv

\* A token with a known id is not the first with it, so it is not kept; it is lost
\* only if its content differs from the entry's.
LEMMA SkipKeeps == ASSUME KeyringInv, Skip PROVE KeyringInv'
<1>1. /\ More /\ Claims.genuine /\ Duplicate /\ taken' = taken + 1
      /\ UNCHANGED <<input, entries, jtis, names, status>>
  BY DEF Skip
<1>2. TypeOK'
  BY <1>1, PrefixFacts DEF KeyringInv, TypeOK, More
<1>3. Indexed'
  <2>1. entries = Kept(taken + 1)
    BY <1>1, FirstIsNoDuplicate, KeptNext DEF KeyringInv, Indexed
  <2>2. (entries = Kept(taken))'
    BY <1>1, <2>1 DEF Kept, First
  <2>3. \A i \in 1 .. (taken + 1) : input[i].genuine /\ input[i].id \in jtis
    BY <1>1, PrefixFacts DEF KeyringInv, Indexed, Duplicate, Claims
  <2>4. (\A i \in 1 .. taken : input[i].genuine /\ input[i].id \in jtis)'
    BY <1>1, <2>3
  <2> QED
    BY <1>1, <2>2, <2>4 DEF KeyringInv, Indexed
<1>4. NothingLost'
  <2> SUFFICES ASSUME IdsAreContent
               PROVE  \A i \in 1 .. (taken + 1) : input[i] \in entries
    BY <1>1 DEF NothingLost, IdsAreContent, Tokens
  <2>1. PICK e \in entries : e.id = Claims.id
    BY <1>1 DEF Duplicate, KeyringInv, Indexed
  <2>2. e \in Tokens
    BY <2>1, PrefixFacts DEF KeyringInv, Indexed
  <2>3. e = Claims
    BY <1>1, <2>1, <2>2, PrefixFacts DEF KeyringInv, IdsAreContent
  <2> QED
    BY <1>1, <2>1, <2>3, PrefixFacts DEF KeyringInv, NothingLost, Claims
<1>5. Consistent(entries)' /\ Decided'
  BY <1>1 DEF KeyringInv, Consistent, Conflict, Decided, Failures, More
<1> QED
  BY <1>2, <1>3, <1>4, <1>5 DEF KeyringInv

\* A token the indexes let in conflicts with none of the earlier ones.
LEMMA EnterKeeps == ASSUME KeyringInv, Enter PROVE KeyringInv'
<1>1. /\ More /\ Claims.genuine /\ ~Duplicate /\ ~Occupied /\ ~NameTaken /\ ~NamesDisagree
      /\ taken' = taken + 1 /\ entries' = entries \cup {Claims}
      /\ names' = {p \in names : p[1] # Claims.name} \cup {<<Claims.name, Claims.subject>>}
      /\ jtis' = jtis \cup {Claims.id}
      /\ UNCHANGED <<input, status>>
  BY DEF Enter
<1>2. Claims \in Token /\ Claims.subject \in Keys /\ Claims.name \in Names /\ Claims.id \in Ids
  BY <1>1, PrefixFacts DEF KeyringInv, Token
<1>3. \A e \in entries : e.name = Claims.name <=> e.subject = Claims.subject
  <2> SUFFICES ASSUME NEW e \in entries
               PROVE  e.name = Claims.name <=> e.subject = Claims.subject
    OBVIOUS
  <2>1. <<e.name, e.subject>> \in names /\ e.subject \in Keys
    BY DEF KeyringInv, Indexed, TypeOK, Token
  <2>2. e.name = Claims.name => e.subject = Claims.subject
    BY <1>1, <2>1 DEF NameTaken
  <2>3. e.subject = Claims.subject => e.name = Claims.name
    BY <1>1 DEF NamesDisagree
  <2> QED
    BY <2>2, <2>3
<1>4. TypeOK'
  BY <1>1, <1>2, PrefixFacts DEF KeyringInv, TypeOK, More
<1>5. Indexed'
  <2>1. (entries = Kept(taken))'
    <3>1. Kept(taken)' = Kept(taken + 1)
      BY <1>1 DEF Kept, First
    <3>2. Kept(taken + 1) = Kept(taken) \cup {Claims}
      BY <1>1, FirstIsNoDuplicate, KeptNext DEF KeyringInv
    <3> QED
      BY <1>1, <3>1, <3>2 DEF KeyringInv, Indexed
  <2>2. /\ (\A i \in 1 .. taken : input[i].genuine /\ input[i].id \in jtis)'
        /\ \A id \in jtis' : \E e \in entries' : e.id = id
    <3>1. \A i \in 1 .. (taken + 1) : input[i].genuine /\ input[i].id \in jtis'
      BY <1>1, PrefixFacts DEF KeyringInv, Indexed, Claims
    <3>2. \A id \in jtis' : \E e \in entries' : e.id = id
      BY <1>1 DEF KeyringInv, Indexed
    <3> QED
      BY <1>1, <3>1, <3>2
  <2>3. \A e \in entries' : <<e.name, e.subject>> \in names'
    BY <1>1, <1>3 DEF KeyringInv, Indexed
  <2>4. \A p \in names' : \E e \in entries' : p = <<e.name, e.subject>>
    BY <1>1 DEF KeyringInv, Indexed
  <2> QED
    BY <2>1, <2>2, <2>3, <2>4 DEF Indexed
<1>6. Consistent(entries)'
  <2>1. \A e \in entries : ~Conflict(e, Claims) /\ ~Conflict(Claims, e)
    BY <1>1, <1>3 DEF Occupied, Conflict
  <2>2. ~Conflict(Claims, Claims)
    BY DEF Conflict
  <2>3. Consistent(entries \cup {Claims})
    BY <1>1, <2>1, <2>2 DEF KeyringInv, Consistent
  <2> QED
    BY <1>1, <2>3 DEF Consistent, Conflict
<1>7. Decided'
  BY <1>1 DEF Decided, Failures, More
<1>8. NothingLost'
  <2>1. IdsAreContent => \A i \in 1 .. (taken + 1) : input[i] \in entries'
    BY <1>1, PrefixFacts DEF KeyringInv, NothingLost, Claims
  <2> QED
    BY <1>1, <2>1 DEF NothingLost, IdsAreContent, Tokens
<1> QED
  BY <1>4, <1>5, <1>6, <1>7, <1>8 DEF KeyringInv

\* The end of the loop: everything has been dealt with, so the entries are the
\* tokens that come first with their ids.
LEMMA FinishKeeps == ASSUME KeyringInv, Finish PROVE KeyringInv'
<1>1. /\ taken = Len(input) /\ status' \in {"empty", "built"}
      /\ status' = "empty" <=> entries = {}
      /\ UNCHANGED <<input, taken, entries, jtis, names>>
  BY DEF Finish
<1>2. TypeOK'
  BY <1>1 DEF KeyringInv, TypeOK
<1>3. Indexed' /\ NothingLost' /\ Consistent(entries)'
  BY <1>1, IndexesKeep
<1>4. Decided'
  BY <1>1 DEF Decided, Failures
<1> QED
  BY <1>2, <1>3, <1>4 DEF KeyringInv

\* The indexes and the verdict agree with the tokens dealt with, at every step of the loop.
LEMMA KeyringInvariant == Spec => []KeyringInv
<1>1. KeyringInv /\ [Next]_vars => KeyringInv'
  <2> SUFFICES ASSUME KeyringInv, [Next]_vars PROVE KeyringInv'
    OBVIOUS
  <2>1. CASE UNCHANGED vars
    <3>1. TypeOK' /\ UNCHANGED <<input, taken, entries, jtis, names>>
      BY <2>1 DEF vars, KeyringInv, TypeOK
    <3>2. Decided'
      BY <2>1 DEF vars, KeyringInv, Decided, Failures, Tokens, Firsts, First,
                  Consistent, Conflict
    <3> QED
      BY <3>1, <3>2, IndexesKeep DEF KeyringInv
  <2>2. CASE Next
    BY <2>2, FailuresKeep, SkipKeeps, EnterKeeps, FinishKeeps DEF Next
  <2> QED
    BY <2>1, <2>2
<1> QED
  BY <1>1, InitEstablishes, PTL DEF Spec

-----------------------------------------------------------------------------

\* At the end of the loop the entries are the firsts, and the tokens are all genuine.
LEMMA EndFacts ==
  ASSUME KeyringInv, taken = Len(input)
  PROVE  /\ entries = Firsts /\ Consistent(Firsts)
         /\ \A p \in Tokens : p.genuine
         /\ IdsAreContent => entries = Tokens
<1>1. entries = Firsts /\ Consistent(Firsts)
  BY PrefixFacts DEF KeyringInv, Indexed
<1>2. \A p \in Tokens : p.genuine
  BY PrefixFacts DEF KeyringInv, Indexed, Tokens
<1>3. ASSUME IdsAreContent PROVE entries = Tokens
  <2>1. Tokens \subseteq entries
    BY <1>3, PrefixFacts DEF KeyringInv, NothingLost, Tokens
  <2> QED
    BY <1>1, <2>1, PrefixFacts DEF KeyringInv
<1> QED
  BY <1>1, <1>2, <1>3

\* Construction succeeds exactly when every token is genuine and the tokens that come
\* first with their ids are consistent (keyring.py:38-66).  Where ids are those of the
\* contents the verdict is a property of the set of tokens, so no order or repetition
\* of them changes it.
THEOREM AcceptsExactlyConsistentHolds == Spec => []AcceptsExactlyConsistent
<1>1. KeyringInv => AcceptsExactlyConsistent
  <2> DEFINE Accepts(S) == S # {} /\ Consistent(S) /\ \A p \in Tokens : p.genuine
  <2> SUFFICES ASSUME KeyringInv, status # "building"
               PROVE  /\ status = "built" <=> Accepts(Firsts)
                      /\ IdsAreContent => (status = "built" <=> Accepts(Tokens))
    BY DEF AcceptsExactlyConsistent
  <2>1. CASE status \in {"built", "empty"}
    <3>1. taken = Len(input) /\ (status = "built" <=> entries # {})
      BY <2>1 DEF KeyringInv, Decided
    <3>2. /\ entries = Firsts /\ Consistent(Firsts)
          /\ \A p \in Tokens : p.genuine
          /\ IdsAreContent => entries = Tokens
      BY <3>1, EndFacts
    <3> QED
      BY <3>1, <3>2
  <2>2. CASE status \in Failures
    <3>1. ~Consistent(Firsts) \/ \E p \in Tokens : ~p.genuine
      BY <2>2 DEF KeyringInv, Decided
    <3>2. Consistent(Tokens) => Consistent(Firsts)
      BY PrefixFacts DEF KeyringInv, Consistent
    <3> QED
      BY <2>2, <3>1, <3>2 DEF Failures
  <2> QED
    BY <2>1, <2>2 DEF KeyringInv, TypeOK, Failures
<1> QED
  BY <1>1, KeyringInvariant, PTL

\* A built keyring holds the tokens that come first with their ids and no other, one
\* per (key, epoch) and one name per operator: what Verifier.with_keyring relies on
\* when it selects an entry without trial.  No token at all is lost where ids are
\* those of the contents.
THEOREM EntriesAreTheTokensHolds == Spec => []EntriesAreTheTokens
<1>1. KeyringInv => EntriesAreTheTokens
  <2> SUFFICES ASSUME KeyringInv, status = "built"
               PROVE  /\ entries = Firsts
                      /\ IdsAreContent => entries = Tokens
                      /\ \A p, q \in entries :
                           p.subject = q.subject /\ p.epoch = q.epoch => p = q
                      /\ \A p, q \in entries : p.name = q.name <=> p.subject = q.subject
    BY DEF EntriesAreTheTokens
  <2>1. taken = Len(input)
    BY DEF KeyringInv, Decided
  <2>2. entries = Firsts /\ Consistent(Firsts) /\ (IdsAreContent => entries = Tokens)
    BY <2>1, EndFacts
  <2> QED
    BY <2>2 DEF Consistent, Conflict
<1> QED
  BY <1>1, KeyringInvariant, PTL
=============================================================================
