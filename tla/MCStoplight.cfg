CONSTANTS
  Thread = {t0, v1, v2, v3}
  boot = t0
  lockAB = AB
  lockBC = BC
  lockCA = CA
  tempy = tempy
  tlA = tlA
  tlB = tlB
  tlC = tlC
  Lock = {AB, BC, CA, tempy, tlA, tlB, tlC}
  Addr = {AB, BC, CA, tempy, tlA, tlB, tlC}
  Sem = {}
  MaxCount = 0
  NVEHICLES = 3
  Trips <- SomeTrips
  NULL = NULL
SPECIFICATION Spec
INVARIANTS SegmentExclusion SegmentsNotLost
PROPERTY StallsOnlyFromRingOrLane
\* The demonstration ends, or its vehicles are stuck.
CHECK_DEADLOCK FALSE
