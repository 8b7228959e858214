\* A negotiating emitter that sends good messages, two of them at a time, with
\* renewals, expiries and lost answers; threads run fairly.
SPECIFICATION FairSpec
CONSTANTS
  None = None
  u1 = u1
  u2 = u2
  c1 = c1
  c2 = c2
  Users <- BothUsers
  Calls <- BothCalls
  MaxGen = 3
  Epoch <- RotateLast
  Styles <- Negotiating
  Faults <- NoFaults
  Deployments <- NoPin
PROPERTIES
  SteadyState
  CallsSettle
