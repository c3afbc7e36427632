SPECIFICATION DashboardSpec
CONSTANTS
  r1 = r1
  r2 = r2
  r3 = r3
  d1 = d1
  d2 = d2
  Rows <- ThreeRows
  Invalid <- OneInvalid
  Kinds <- PulsesAndSnapshot
  Drains <- TwoDrains
  Limit = 2
  MaxFailures = 2
  MaxSockets = 8
  MaxRequests = 3
  MaxTroubles = 3
  MaxRuns = 3
  MaxExpiries = 1
INVARIANTS PublishedWasDelivered OneSocket ShowsOwnRun OncePerSdk
PROPERTIES LeaseHonoured EventuallyPublished Recovers Decides
CHECK_DEADLOCK FALSE
