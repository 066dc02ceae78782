CONSTANTS
  boot = boot
  Child = {c1, c2}
  Dev = {lhd0}
  lhd0 = lhd0
  emu0 = emu0
  long = long
  TooLong = {long}
  NULL = NULL
  BootLine <- MCBootLine
  Line <- MCLine
  MaxLines = 2
  MAXMENUARGS = 16
  NTHREADS = 2
SPECIFICATION Spec
INVARIANTS TypeOK InterruptsServed UnmountedAtStop
PROPERTY EveryLineAnswered
\* The machine stops, or nobody types.
CHECK_DEADLOCK FALSE
