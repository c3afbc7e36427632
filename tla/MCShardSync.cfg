SPECIFICATION KindSpec
CONSTANTS
  MaxEvent = 5
  Actions <- MCActions
  Old <- MCOld
  PageSize = 2
  Polling = FALSE
  MaxFaults = 1
  MaxDrops = 1
  MaxStops = 2
  MaxBackfills = 1
INVARIANTS
  CursorNeverSkips
  CountedExactlyOnce
  PulsedAtMostOnce
PROPERTIES
  ImplementsReplayLog
  BacklogNeverPulses
  EventuallyVerified
CHECK_DEADLOCK FALSE
