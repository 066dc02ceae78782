CONSTANTS
  Thread = {t0, t1, t2, t3}
  boot = t0
  Addr = {a, lb}
  lbolt = lb
  HZ = 2
  RunqueueInit = 1
  NULL = NULL
SPECIFICATION Spec
INVARIANTS TypeOK ThreadsConserved StackSafe CleanContext PreallocationSuffices
PROPERTIES NoOvertaking KeepsPromise ReadyRuns ClockSleepEnds
