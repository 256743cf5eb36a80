SPECIFICATION Spec
CONSTANTS
  Kind <- MCDefaultKind
  Chains <- MCDefaultChains
  Instants <- MCDefaultInstants
  MaxTicks = 3
  MaxFailures = 0
INVARIANTS
  StatusCommandIsSafe
CHECK_DEADLOCK FALSE
