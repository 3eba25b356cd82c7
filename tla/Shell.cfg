\* Every line of up to five characters, with pipelines of up to three commands
\* and room for two words in each.
SPECIFICATION FairSpec
CONSTANTS
  Letters = {"a", "c", "e"}
  Cd = "c"
  Exit = "e"
  MAX_LINE_SIZE = 6
  MAX_ARGS_CNT = 3
  MaxProcs = 3
  PipeSize = 1
INVARIANTS
  TokensAsWritten
  AcceptsGrammar
  CommandsAsWritten
  PipesWired
PROPERTIES
  PipelineEnds
\* One line is read; the shell stops in every state it comes to after it.
CHECK_DEADLOCK FALSE
