SPECIFICATION FairSpec

CONSTANTS
  imap = imap
  ann = ann
  Loops = {"localSender", "deliverer", "janitor"}
  Smtp = {}
  Imap = {imap}
  Dns = {}
  Users = {ann}
  PoolSize = 2
  ErrCap = 2

INVARIANTS
  TypeOK
  NoneForgotten
  BoxesNotifyAll
PROPERTIES
  ShutdownEnds
