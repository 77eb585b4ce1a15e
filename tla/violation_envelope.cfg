SPECIFICATION Spec

CONSTANTS
  s1 = s1
  s2 = s2
  ann = ann
  ann2 = ann2
  bob = bob
  rem = rem
  MaxStagingID = 2
  MaxSubs = 2
  Addrs = {ann, bob}
  UserAddresses <- AnnBob
  LocalDomain = {ann, bob}
  FaultKinds = {"remoteUpdate"}
  MaxFaults = 1
  Sessions = {s1, s2}
  ProcLimit = 2
  Unprocessable = {}
  MaxClock = 1
  UserLimit = 2
  MsgLimit = 2
  Undeliverable = {}
  DeliverLimit = 2
  Unsignable = {}

INVARIANTS
  EnvelopeRespected

\* Clients may stop sending mail, and the queues are then empty.
CHECK_DEADLOCK FALSE
