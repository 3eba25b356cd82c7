\* Every tree of up to four entries on three levels, every choice of options,
\* and one system call that fails anywhere.
SPECIFICATION Spec
CONSTANTS
  Trees <- AllTrees
  CommandLines <- SmallCommandLines
  MAX_DIR = 2
  Dot = 1
  DotDot = 2
  MaxFailures = 1
INVARIANTS
  EntriesListed
  TreeDrawn
  TotalsExact
\* The program ends.
CHECK_DEADLOCK FALSE
