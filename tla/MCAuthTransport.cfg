\* Two clients, two workers, two requests, in every deployment.
SPECIFICATION Spec
CONSTANTS
  w1 = w1
  w2 = w2
  Workers = {w1, w2}
  Holders = {"h1", "h2"}
  Deployments <- AllDeployments
  Symbols <- Segments
  NoIdentity = NoIdentity
  Mangled = Mangled
  MaxSent = 2
SYMMETRY WorkerSymmetry
INVARIANTS
  TypeOK
  CredsWholeOrRefused
  IdentityConfined
  NothingBeyondTheGrant
  RefusalExplained
PROPERTIES
  ImplementsGuardedService
