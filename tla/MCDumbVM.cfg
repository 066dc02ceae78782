CONSTANTS
  Thread = {t0, t1, t2}
  boot = t0
  NULL = NULL
  BadAs = BadAs
  PAGE_SIZE = 2
  WORD = 64
  KSEG0 = 10
  STACKPAGES = 1
  NUM_TLB = 2
  ramsize = 14
  firstfree = 12
  Image <- MCImage
  TouchAddr = {2, 5, 8}
  KernelRequest = {2}
  MaxKernelPages = 2
  MaxStarts = 2
  MaxStores = 1
  Value = {0, 1}
SPECIFICATION Spec
SYMMETRY MCSymmetry
CONSTRAINT BeforeWrap
INVARIANTS TypeOK PagesOwnedOnce TLBSeesCurrent PanicsOnlyFromImage
PROPERTY MemoryIsPrivate
\* The kernel stops when it panics.
CHECK_DEADLOCK FALSE
