SPECIFICATION FairSpec
CONSTANTS
  r1 = r1
  r2 = r2
  Requests <- MCRequests
  MaxMinute = 1
  NumActors = 1
  BucketsPerBatch = 1
  ActorsPerBatch = 2
  MaxOutboxRows = 1
  RateLimit = 1
  MaxActions = 2
  MaxSnapshots = 0
  MaxFaults = 1
  MaxCrashes = 1
  MaxExpiries = 1
PROPERTIES EventuallyDelivered
CHECK_DEADLOCK FALSE
