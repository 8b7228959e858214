\* Two calls at once, an allowlist edited and hooks registered under them.
SPECIFICATION FairSpec
CONSTANTS
  t1 = t1
  t2 = t2
  Threads <- TwoThreads
  OperatorKeys = {"A", "B"}
  AccountKeys = {"x", "y"}
  UserKeys = {"u"}
  Ids = {"i"}
  Admins = {"admin"}
  Sets = {0, 1}
  Nonces = {"m"}
  Requests <- OneRequest
  Configs <- OneConfig
  ExtTypes = {"e", "f"}
  Validators = {"strict"}
  Refuses <- RefusesUser
  Skew = 1
  MaxTime = 0
  MaxHooks = 1
INVARIANTS
  RefusalJustified
  RevocationTakesEffect
  NoHookSkipped
PROPERTIES
  CallsReturn
