SPECIFICATION FairSpec

CONSTANTS
  s1 = s1
  s2 = s2
  ann = ann
  ann2 = ann2
  bob = bob
  rem = rem
  MaxStagingID = 2
  MaxSubs = 2
  Addrs = {bob}
  UserAddresses <- JustBob
  LocalDomain = {bob}
  FaultKinds = {}
  MaxFaults = 1
  Sessions = {s1}
  ProcLimit = 2
  Unprocessable = {}
  MaxClock = 1
  UserLimit = 2
  MsgLimit = 1
  Undeliverable = {1}
  DeliverLimit = 2
  Unsignable = {}

PROPERTIES
  LocalMailArrives

\* Clients may stop sending mail, and the queues are then empty.
CHECK_DEADLOCK FALSE
