\* The user leaves the shell while two background jobs run.
SPECIFICATION Spec
CONSTANTS
  Cells = {j1, j2}
  MaxPid = 2
  MAX_JOBS = 3
  Commands <- SingleCommands
  MaxBackground = 2
  ExitAnyTime = TRUE
  CallsMayFail = FALSE
  IsATty = FALSE
  Null = Null
INVARIANT
  AllKilled
\* The shell ends when the user leaves it.
CHECK_DEADLOCK FALSE
