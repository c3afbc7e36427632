SPECIFICATION Spec
CONSTANTS
  s1 = s1
  s2 = s2
  Shards <- TwoShards
  Sources <- BothSources
  Conditions <- AllConditions
  FailoverAfter = 2
  RecoveryAfter = 2
  CoverageRounds = 1
  MaxChanges = 1
  MaxReshards = 2
  MaxRestarts = 1
INVARIANTS ConnectedIsAccurate StatusIsHonest HistoryKept
SYMMETRY ShardSymmetry
CHECK_DEADLOCK FALSE
