SPECIFICATION Spec
CONSTANTS
  p1 = p1
  p2 = p2
  n1 = n1
  q1 = q1
  q2 = q2
  b1 = b1
  Pulses <- TwoPulses
  Snapshots <- OneSnapshot
  Requests <- TwoRequests
  Browsers <- OneBrowser
  SeenLimit = 4
  MaxClock = 2
  MaxCrashes = 2
  MaxLapses = 1
  MaxDrops = 1
SYMMETRY Symmetry
INVARIANTS ShownOnce DeliveredWasAired SequencesIncrease NothingDropped
CHECK_DEADLOCK FALSE
