SPECIFICATION Spec
CONSTANTS
  p1 = p1
  p2 = p2
  p3 = p3
  NoPid = NoPid
  Pids <- ThreePids
  Overlapping = TRUE
INVARIANTS MutualExclusion
CHECK_DEADLOCK FALSE
