SPECIFICATION FairSpec
CONSTANTS
  Runner = {r1, r2}
  Last = 3
  Needs <- MCNeeds
  MaxFailures = 3
INVARIANTS
  AppliedOnce
  InOrder
PROPERTIES
  EventuallyApplied
