SPECIFICATION Spec

CONSTANTS
  MaxUint32 = 9
  MaxUID = 4
  MaxModSeq = 3
  MaxMsgs = 3
  MaxHeight = 2
  Boxes <- SmallBoxes
  Ops <- SomeOps
  Height <- HeightOf
  Commands <- SomeCommands

INVARIANTS
  AnswerExact

\* The client may send no further command.
CHECK_DEADLOCK FALSE
