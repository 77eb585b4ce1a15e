SPECIFICATION Spec

CONSTANTS
  c1 = c1
  c2 = c2
  c3 = c3
  c4 = c4
  Conns = {c1, c2}
  MaxSessions = 1
  MaxRecipients = 3
  ServingTLS = FALSE
  AllowNoTLS = FALSE
  HasAuth = TRUE
  MustAuth = TRUE
  MaxMsgs = 2

SYMMETRY Symmetry

INVARIANTS
  TypeOK
  MessagesOwned
  DrainedIsQuiet
PROPERTIES
  EndsOnce

\* All connections may have ended and the server have returned.
CHECK_DEADLOCK FALSE
