SPECIFICATION FairSpec
CONSTANTS
  Kind <- MCKind
  Chains <- MCChains
  Instants <- MCInstants
  MaxTicks = 3
  MaxFailures = 1
INVARIANTS
  UnfinishedScheduleNeverRuns
  OneJobPerTick
PROPERTIES
  TicksAreNamed
  SignalEnds
CHECK_DEADLOCK FALSE
