\* All lists of up to four of ten tokens.
SPECIFICATION Spec
CONSTANTS
  Keys = {"A", "B", "C"}
  Names = {"alpha", "beta", "C"}
  Ids = {"a1", "a1x", "a2", "a3", "b1", "b2", "b3", "c1", "c2"}
  Inputs <- MCInputs
  MaxLen = 4
INVARIANTS
  AcceptsExactlyConsistent
  EntriesAreTheTokens
CHECK_DEADLOCK FALSE
