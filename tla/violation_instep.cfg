SPECIFICATION Spec
CONSTANTS
  Lines <- LooseLines
  MaxLines = 2
  Modes = {"Selected"}
INVARIANTS
  InStep
CHECK_DEADLOCK FALSE
