SPECIFICATION FairSpec

CONSTANTS
  c1 = c1
  c2 = c2
  c3 = c3
  c4 = c4
  Conns = {c1, c2, c3, c4}
  MaxSessions = 1
  MaxRecipients = 3
  ServingTLS = TRUE
  AllowNoTLS = FALSE
  HasAuth = FALSE
  MustAuth = FALSE
  MaxMsgs = 0

INVARIANTS
  NoLostWakeup
PROPERTIES
  ServeReturns
  EveryoneServed

\* All connections may have ended and the server have returned.
CHECK_DEADLOCK FALSE
