SPECIFICATION Spec

CONSTANTS
  s1 = s1
  s2 = s2
  ann = ann
  ann2 = ann2
  bob = bob
  rem = rem
  MaxStagingID = 2
  MaxSubs = 2
  Addrs = {ann, ann2, bob}
  UserAddresses <- TwoUsers
  LocalDomain = {ann, bob}
  FaultKinds = {"crash", "localSend"}
  MaxFaults = 1
  Sessions = {s1}
  ProcLimit = 1
  Unprocessable = {}
  MaxClock = 1
  UserLimit = 1
  MsgLimit = 1
  Undeliverable = {}
  DeliverLimit = 1
  Unsignable = {}

INVARIANTS
  AtMostOnce
PROPERTIES
  ImplementsMailDelivery

\* Clients may stop sending mail, and the queues are then empty.
CHECK_DEADLOCK FALSE
