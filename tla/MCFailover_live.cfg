SPECIFICATION FairSpec
CONSTANTS
  s1 = s1
  s2 = s2
  Shards <- OneShard
  Sources <- BothSources
  Conditions <- Talking
  FailoverAfter = 2
  RecoveryAfter = 2
  CoverageRounds = 2
  MaxChanges = 2
  MaxReshards = 0
  MaxRestarts = 1
PROPERTIES SwitchCompletes FailsBack KeepsRecovering
