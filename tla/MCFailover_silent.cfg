SPECIFICATION FairSpec
CONSTANTS
  s1 = s1
  s2 = s2
  Shards <- OneShard
  Sources <- BothSources
  Conditions <- AllConditions
  FailoverAfter = 2
  RecoveryAfter = 2
  CoverageRounds = 2
  MaxChanges = 1
  MaxReshards = 0
  MaxRestarts = 0
PROPERTIES SwitchCompletes
CHECK_DEADLOCK FALSE
