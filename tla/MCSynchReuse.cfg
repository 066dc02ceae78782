CONSTANTS
  Thread = {t0, t1, t2}
  boot = t0
  Sem = {s}
  Lock = {l1, l2}
  Addr = {s, l1, l2}
  MaxCount = 2
  NULL = NULL
SPECIFICATION SynchSpec
INVARIANT DoIHoldTruthful
CHECK_DEADLOCK FALSE
