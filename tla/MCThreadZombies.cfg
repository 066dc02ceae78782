\* Chains of threads that fork a successor and exit: four zombies need five
\* structures.  One sleep address is enough.
CONSTANTS
  Thread = {t0, t1, t2, t3, t4}
  boot = t0
  Addr = {lb}
  lbolt = lb
  HZ = 1
  RunqueueInit = 1
  NULL = NULL
SYMMETRY ThreadSymmetry
SPECIFICATION Spec
INVARIANT ZombiesPreallocated
