SPECIFICATION FairSpec

CONSTANTS
  s1 = s1
  s2 = s2
  ann = ann
  ann2 = ann2
  bob = bob
  rem = rem
  MaxStagingID = 2
  MaxSubs = 1
  Addrs = {bob, rem}
  UserAddresses <- JustBob
  LocalDomain = {bob}
  FaultKinds = {}
  MaxFaults = 1
  Sessions = {s1, s2}
  ProcLimit = 2
  Unprocessable = {}
  MaxClock = 2
  UserLimit = 2
  MsgLimit = 2
  Undeliverable = {}
  DeliverLimit = 2
  Unsignable = {}

PROPERTIES
  RemainingRecipientsSent

\* Clients may stop sending mail, and the queues are then empty.
CHECK_DEADLOCK FALSE
