\* Single commands and pipelines, two of them in the background, a terminal;
\* the user may leave the shell while jobs run, and calls fail.
SPECIFICATION FairSpec
CONSTANTS
  Cells = {j1, j2, j3}
  MaxPid = 4
  MAX_JOBS = 2
  Commands <- AllCommands
  MaxBackground = 2
  ExitAnyTime = TRUE
  CallsMayFail = TRUE
  IsATty = TRUE
  Null = Null
INVARIANTS
  NJobsExact
  NoMemoryError
  NoJobLost
  ForegroundWaited
  ReapedJobsLeave
  NoOrphans
PROPERTIES
  PromptReturns
\* The shell ends when the user leaves it.
CHECK_DEADLOCK FALSE
