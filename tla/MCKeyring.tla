----------------------------- MODULE MCKeyring ------------------------------
(* Every list of at most MaxLen tokens out of a set that has, for each rule of   *)
(* the constructor, a pair that breaks it and a pair that does not.  Two tokens   *)
(* have one id and different contents.                                           *)
EXTENDS Keyring, SequencesExt

CONSTANT MaxLen

Entry(id, subject, epoch, name) ==
  [id |-> id, subject |-> subject, epoch |-> epoch, name |-> name, genuine |-> TRUE]

MCTokens ==
  {Entry("a1", "A", 1, "alpha"), Entry("a1x", "A", 1, "alpha"), Entry("a2", "A", 2, "alpha"),
   Entry("a3", "A", 3, "beta"), Entry("b1", "B", 1, "beta"), Entry("b2", "B", 2, "alpha"),
   Entry("b3", "B", 3, "C"), Entry("c1", "C", 1, "C"), Entry("a2", "B", 4, "alpha"),
   [Entry("c2", "C", 2, "C") EXCEPT !.genuine = FALSE]}

MCInputs == SeqOf(MCTokens, MaxLen)
=============================================================================
