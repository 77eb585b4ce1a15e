SPECIFICATION Spec

CONSTANTS
  s1 = s1
  s2 = s2
  ann = ann
  ann2 = ann2
  bob = bob
  rem = rem
  MaxStagingID = 2
  MaxSubs = 2
  Addrs = {bob, rem}
  UserAddresses <- JustBob
  LocalDomain = {bob}
  FaultKinds = {"crash", "save", "remoteUpdate", "cleanup", "process", "localSend", "send", "record", "collect"}
  MaxFaults = 2
  Sessions = {s1, s2}
  ProcLimit = 2
  Unprocessable = {}
  MaxClock = 2
  UserLimit = 2
  MsgLimit = 2
  Undeliverable = {}
  DeliverLimit = 2
  Unsignable = {2}

INVARIANTS
  AtMostOnce
  AcceptedNotLost
  DoneMeansDelivered
  NotOpenRelay
PROPERTIES
  ReadyDateGrows
  RawImmutable

\* Clients may stop sending mail, and the queues are then empty.
CHECK_DEADLOCK FALSE
