\* One job in the background and one in the foreground.
SPECIFICATION Spec
CONSTANTS
  Cells = {j1, j2}
  MaxPid = 2
  MAX_JOBS = 3
  Commands <- SingleCommands
  MaxBackground = 1
  ExitAnyTime = FALSE
  CallsMayFail = FALSE
  IsATty = FALSE
  Null = Null
INVARIANT
  ChildrenComplete
\* The shell ends when the user leaves it.
CHECK_DEADLOCK FALSE
