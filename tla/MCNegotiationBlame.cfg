\* A warm cache and a chainless message whose payload does not match.
SPECIFICATION Spec
CONSTANTS
  None = None
  u1 = u1
  u2 = u2
  c1 = c1
  c2 = c2
  Users <- BothUsers
  Calls <- BothCalls
  MaxGen = 2
  Epoch <- RotateLast
  Styles <- Negotiating
  Faults <- AllFaults
  Deployments <- NoPin
SYMMETRY CallSymmetry
INVARIANTS
  GenuineFailureIsPlain
