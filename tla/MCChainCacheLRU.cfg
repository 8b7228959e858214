\* Three emitters, a cache for two, six uses.
SPECIFICATION Spec
CONSTANTS
  u1 = u1
  u2 = u2
  u3 = u3
  ch1 = ch1
  ch2 = ch2
  Users <- ThreeUsers
  Chains <- TwoChains
  Cap = 2
  MaxUses = 6
SYMMETRY Symmetry
INVARIANTS
  OrderedByUse
PROPERTIES
  EvictsLeastRecentlyUsed
  ImplementsLRU
