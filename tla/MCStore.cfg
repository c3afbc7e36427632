SPECIFICATION StoreSpec
CONSTANTS
  p1 = p1
  p2 = p2
  p3 = p3
  NoPid = NoPid
  Pids <- ThreePids
  Overlapping = FALSE
  Openers <- MCOpeners
  Schema = 4
  KeyVersion = 3
  Tolerant = {2, 4}
  MaxOpens = 3
  Shards = {1, 2}
  Ahead = {2}
  Window = 1
  Retention = 2
  BackfillDays = 4
  Bucket = 2
  Nodes <- MCNodes
  Forgetful = FALSE
  FirstDay = 1
  MaxDay = 5
INVARIANTS MutualExclusion MigrationsAreWhole LiveMeansComplete BucketsMatchActions NoPartialDayGoesOut
PROPERTIES StaleLockIsTaken IdentityIsKept
CHECK_DEADLOCK FALSE
