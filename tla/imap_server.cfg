SPECIFICATION Spec
CONSTANTS
  Conns = {c1, c2}
  Notes = {n1}
  Boxes = {b1, b2}
  MaxConns = 1
  MaxExpunge = 1
SYMMETRY Sym
INVARIANTS
  TypeOK
  CommandsFindMailbox
  UpdatesForMailbox
  NotifyReaches
CHECK_DEADLOCK FALSE
