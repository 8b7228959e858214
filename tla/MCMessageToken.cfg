\* Half-second ticks, a skew of one second, an operator rotation, two tenants and two users.
SPECIFICATION Spec
CONSTANTS
  account1 = account1
  account2 = account2
  user1 = user1
  user2 = user2
  Second = 2
  Skew = 2
  OperatorKeys = {"A", "B"}
  AccountKeys = {account1, account2}
  UserKeys = {user1, user2}
  Epochs = {1, 2}
  OperatorSets <- MCOperatorSets
  AccountTerms <- MCAccountTerms
  UserTerms <- MCUserTerms
  MessageTerms <- MCMessageTerms
  Bindings <- MCBindings
  MaxTime = 8
SYMMETRY KeySymmetry
INVARIANTS
  TypeOK
  NeverBeyondWhatWasAsked
  WhatWasAskedIsAccepted
  EmbeddingChangesNothing
  KeyringIsItsEntries
  EmbeddedChainIsSound
  PathsAgree
CHECK_DEADLOCK FALSE
