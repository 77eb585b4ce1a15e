SPECIFICATION Spec
CONSTANTS
  INBOX = INBOX
  Work = Work
  Sessions = {s1}
  Names = {INBOX, Work}
  Reserved = {INBOX}
  Inbox = INBOX
  MaxBoxes = 3
  MaxMsgs = 4
  MaxModSeq = 2
  SeqSets <- AllSeqSets
  StoreCmds <- Stores
  AppendFlags = {{D, S}}
  Deleted = D
  Seen = S
  Flags = {D, S}
INVARIANTS
  TypeOK
  UIDValidityUnique
  UIDsUnique
  ExpungeNumbering
PROPERTIES
  NewModSeqIsHigher
  ImplementsMailStore
CHECK_DEADLOCK FALSE
