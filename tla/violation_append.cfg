SPECIFICATION FairSpec
CONSTANTS
  Lines <- SkipLines
  MaxLines = 2
  Modes = {"Selected"}
PROPERTIES
  AppendEnds
CHECK_DEADLOCK FALSE
