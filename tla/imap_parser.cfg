SPECIFICATION FairSpec
CONSTANTS
  Lines <- AllLines
  MaxLines = 2
  Modes = {"NonAuth", "Selected"}
INVARIANTS
  TypeOK
  InStep
  GoodLinesRun
PROPERTIES
  ParseEnds
CHECK_DEADLOCK FALSE
