SPECIFICATION FairSpec
CONSTANTS
  Conns = {c1, c2}
  Notes = {n1}
  Boxes = {b1}
  MaxConns = 2
  MaxExpunge = 0
PROPERTIES
  IdleNotified
CHECK_DEADLOCK FALSE
