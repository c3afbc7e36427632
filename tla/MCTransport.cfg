SPECIFICATION MCSpec
CONSTANTS
  Log <- MCLog
  Span = 3
  Subs <- MCSubs
  Walks <- MCWalks
  From <- MCFrom
  Stop = 9
  PageSize = 2
  CacheSize = 2
  Interval = 1
  MaxFaults = 2
  Streams <- MCSubs
  MaxData = 3
INVARIANTS HandsOverWithoutGap TimesAgree
PROPERTIES ImplementsSubscription StreamImplementsSubscription KeepsUp
CHECK_DEADLOCK FALSE
