SPECIFICATION HistorySpec
CONSTANTS
  Shards = {1}
  Ahead = {}
  Window = 2
  Retention = 3
  BackfillDays = 3
  Bucket = 2
  Nodes <- MCNodes
  Forgetful = TRUE
  FirstDay = 1
  MaxDay = 5
INVARIANT LiveMeansComplete
CHECK_DEADLOCK FALSE
