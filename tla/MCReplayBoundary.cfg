\* A timestamp a whole skew ahead: the retention and the window end together.
SPECIFICATION Spec
CONSTANTS
  t1 = t1
  t2 = t2
  n1 = n1
  n2 = n2
  Threads <- MCThreads
  Nonces <- MCNonces
  Requests <- OneRequest
  Skew = 2
  MaxLead = 2
  MaxStall = 0
  MaxTime = 6
  MaxBoots = 1
INVARIANT
  AtMostOncePerBoot
