SPECIFICATION FairSpec
CONSTANTS
  Events = {e1}
  Listeners <- MCListeners
  Jobs <- MCJobs
  Registered <- MCRegistered
  Workers = {w1, w2}
  NoWorker = NoWorker
  Concurrency = 1
  Attempts = 2
  MaxStalls = 1
  MaxInterruptions = 3
INVARIANTS
  LockHolderWorks
  RetriesAreCounted
  ReturnedMeansQueued
  ListenersInOrder
PROPERTIES
  ImplementsDelivery
  JobsSettle
CHECK_DEADLOCK FALSE
