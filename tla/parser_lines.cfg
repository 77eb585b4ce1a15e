SPECIFICATION Spec
CONSTANTS
  Lines <- AllLines
  MaxLines = 2
  Modes = {"NonAuth", "Selected"}
PROPERTIES
  LinesEndTogether
CHECK_DEADLOCK FALSE
