CONSTANTS
  Thread = {t0, v1, v2}
  boot = t0
  lockAB = AB
  lockBC = BC
  lockCA = CA
  tempy = tempy
  tlA = tlA
  tlB = tlB
  tlC = tlC
  Lock = {AB, BC, CA, tempy, tlA, tlB, tlC}
  Addr = {AB, BC, CA, tempy, tlA, tlB, tlC}
  Sem = {}
  MaxCount = 0
  NVEHICLES = 2
  Trips <- AllTrips
  NULL = NULL
SPECIFICATION Spec
PROPERTY CompletesTurn
CHECK_DEADLOCK FALSE
