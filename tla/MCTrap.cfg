CONSTANTS
  Thread = {t0, t1, t2}
  boot = t0
  SPL_HIGH = 15
  Entry = 1
  LastPC = 2
SPECIFICATION Spec
INVARIANTS TypeOK SplTransparent InInterruptTruthful AssertionsHold
PROPERTY InterruptsReturn
\* The machine stops when it panics or is shut down.
CHECK_DEADLOCK FALSE
