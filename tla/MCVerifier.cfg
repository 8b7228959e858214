\* One call at a time: every kind of verifier, every combination of the tokens.
SPECIFICATION Spec
CONSTANTS
  t1 = t1
  t2 = t2
  Threads = {t1}
  OperatorKeys = {"A", "B"}
  AccountKeys = {"x", "y"}
  UserKeys = {"u"}
  Ids = {"i"}
  Admins = {}
  Sets = {0, 1}
  Nonces = {"n"}
  Requests <- AllRequests
  Configs <- AllConfigs
  ExtTypes = {"e"}
  Validators = {"signed"}
  Refuses <- RefusesBearer
  Skew = 1
  MaxTime = 3
  MaxHooks = 1
INVARIANTS
  TypeOK
  HooksSeeOnlyEntitled
  RefusalJustified
