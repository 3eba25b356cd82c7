\* Every input of up to seven characters, each of which means something else.
SPECIFICATION BothSpec
CONSTANTS
  Plain = {"x"}
  MaxLength = 7
INVARIANTS
  LinesKept
  MatchesReference
  SameText
\* The programs end with their input.
CHECK_DEADLOCK FALSE
