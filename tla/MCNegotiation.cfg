\* An emitter that renews its chain twice and rotates its epoch once, before a receiver that
\* may pin a chain; or two emitters that compete for one cache entry.  Two calls in flight,
\* every style of sending and every fault.
SPECIFICATION Spec
CONSTANTS
  None = None
  u1 = u1
  u2 = u2
  c1 = c1
  c2 = c2
  Users <- BothUsers
  Calls <- BothCalls
  MaxGen = 3
  Epoch <- RotateLast
  Styles <- AllStyles
  Faults <- AllFaults
  Deployments <- AllDeployments
SYMMETRY CallSymmetry
CONSTRAINT BadTokensAreBare
INVARIANTS
  TypeOK
  AskedOnlyWhenHelpful
  CacheHoldsVerified
  CacheShape
PROPERTIES
  RejectionExplained
  ImplementsExchange
