\* Two threads, two requests, a skew of 3 seconds with one second of lead and
\* one of stall, one restart, and threads that are scheduled fairly.
SPECIFICATION FairSpec
CONSTANTS
  t1 = t1
  t2 = t2
  n1 = n1
  n2 = n2
  Threads <- MCThreads
  Nonces <- MCNonces
  Requests <- TwoRequests
  Skew = 3
  MaxLead = 1
  MaxStall = 1
  MaxTime = 9
  MaxBoots = 2
INVARIANTS
  TypeOK
  AtMostOncePerBoot
  ReplayJustified
  RetentionBounded
PROPERTIES
  NonceHeldUntilExpiry
  ImplementsAtMostOnce
  DeliveredIsAdmitted
