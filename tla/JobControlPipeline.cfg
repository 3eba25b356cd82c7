\* One pipeline of two processes.
SPECIFICATION Spec
CONSTANTS
  Cells = {j1}
  MaxPid = 2
  MAX_JOBS = 3
  Commands <- Pipelines
  MaxBackground = 1
  ExitAnyTime = FALSE
  CallsMayFail = FALSE
  IsATty = FALSE
  Null = Null
INVARIANT
  TerminatedJobsLeave
\* The shell ends when the user leaves it.
CHECK_DEADLOCK FALSE
