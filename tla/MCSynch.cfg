CONSTANTS
  Thread = {t0, t1, t2}
  boot = t0
  Sem = {s}
  Lock = {l1, l2}
  Addr = {s, l1, l2}
  MaxCount = 2
  NULL = NULL
SPECIFICATION SynchSpec
SYMMETRY SynchSymmetry
INVARIANTS SynchTypeOK MutualExclusion NoLostWakeup HoldTruthful
PROPERTY NoSpuriousWakeup
\* Callers can deadlock on locks: nobody runs and no semaphore is there to post.
CHECK_DEADLOCK FALSE
