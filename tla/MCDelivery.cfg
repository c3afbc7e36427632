SPECIFICATION KindSpec
CONSTANTS
  r1 = r1
  r2 = r2
  Requests <- MCRequests
  MaxMinute = 2
  NumActors = 1
  BucketsPerBatch = 1
  ActorsPerBatch = 2
  MaxOutboxRows = 2
  RateLimit = 2
  MaxActions = 2
  MaxSnapshots = 2
  MaxFaults = 2
  MaxCrashes = 1
  MaxExpiries = 1
INVARIANTS NothingLost RefundsOwnCharge
PROPERTIES ImplementsReplica
SYMMETRY RequestSymmetry
CHECK_DEADLOCK FALSE
