---------------------------- MODULE LocalSender ----------------------------
(***************************************************************************)
(* The local sender (spilldb/localsender) moves processed messages into    *)
(* the users' mailboxes.  Its Run loop collects the users that have mail   *)
(* waiting and runs one goroutine per user, which collects messages and,   *)
(* one by one, inserts each into the user's own database (Box.InsertMsg)   *)
(* and then marks it done in the staging database: two databases, without  *)
(* a common transaction.                                                   *)
(***************************************************************************)
EXTENDS StagingDB

CONSTANTS
  UserLimit,      \* collectToSend: limit (8 in the code)
  MsgLimit,       \* collectMsgsToSend: limit (10 in the code)
  Undeliverable   \* submissions whose processed form InsertMsg rejects

ASSUME LocalSenderAssumption ==
  /\ UserLimit \in Nat
  /\ MsgLimit \in Nat
  /\ Undeliverable \subseteq Subs

VARIABLES
  lsStage,  \* user -> where sendForUser is
  lsRows,   \* user -> rows <<StagingID, address>> still to be sent
  lsCur,    \* user -> StagingID stored in the box but not yet marked, or 0
  copies,   \* user -> submission -> messages in the box with its content
  boxIDs    \* user -> Msgs.StagingID of the box, a UNIQUE column

lsVars  == <<lsStage, lsRows, lsCur>>
boxVars == <<copies, boxIDs>>

LsInit ==
  /\ lsStage = [u \in Users |-> "idle"]
  /\ lsRows = [u \in Users |-> {}]
  /\ lsCur = [u \in Users |-> 0]
  /\ copies = [u \in Users |-> [b \in Subs |-> 0]]
  /\ boxIDs = [u \in Users |-> {}]

LsTypeOK ==
  /\ lsStage \in [Users -> {"idle", "opened", "loop"}]
  /\ lsRows \in [Users -> SUBSET (StagingIDs \X Addrs)]
  /\ lsCur \in [Users -> 0..MaxStagingID]
  /\ copies \in [Users -> [Subs -> Nat]]
  /\ boxIDs \in [Users -> SUBSET StagingIDs]

\* Mutant of WaitingRows: not restricted to the user.
WaitingRowsOfAll(u) ==
  {r \in StagingIDs \X LocalAddrs :
     r[1] \in msgs /\ recips[r[1]][r[2]] = "Received" /\ readyDate[r[1]] > 0}

\* CollectMsgsToSend joins Msgs, MsgRecipients and UserAddresses, so a message
\* to two addresses of the user is there twice.
WaitingRows(u) ==
  {r \in StagingIDs \X AddrsOf(u) :
     r[1] \in msgs /\ recips[r[1]][r[2]] = "Received" /\ readyDate[r[1]] > 0}

\* The users collectToSend selects from.
WaitingUsers == {u \in Users : \E id \in StagingIDs, a \in AddrsOf(u) : recips[id][a] = "Received"}

-----------------------------------------------------------------------------
LsCollect ==
  /\ "localsender" \in running
  /\ \A u \in Users : lsStage[u] = "idle"
  /\ WaitingUsers # {}
  /\ lsStage' = [u \in Users |-> IF u \in Lowest(WaitingUsers, UserLimit) THEN "opened" ELSE "idle"]
  /\ NoFault
  /\ UNCHANGED <<tables, history, running, lsRows, lsCur, boxVars>>

LsCollectMsgs(u) ==
  /\ lsStage[u] = "opened"
  /\ lsRows' \in {[lsRows EXCEPT ![u] = W] : W \in Windows(WaitingRows(u), MsgLimit)}
  /\ lsStage' = [lsStage EXCEPT ![u] = "loop"]
  /\ NoFault
  /\ UNCHANGED <<tables, history, running, lsCur, boxVars>>

\* r is the row the loop of sendForUser is at.
IsCurrent(u, r) ==
  /\ lsStage[u] = "loop" /\ lsCur[u] = 0
  /\ r \in lsRows[u]
  /\ \A q \in lsRows[u] : r[1] <= q[1]

Dequeue(u, r) == lsRows' = [lsRows EXCEPT ![u] = @ \ {r}]

\* Mutant of CanStore: the box does not look at the StagingID.
CanStoreAgain(u, id) == id \in msgs /\ full[id] \in Subs \ Undeliverable

\* loadMsg, Cleave and Box.InsertMsg succeed.
CanStore(u, id) ==
  /\ id \in msgs
  /\ full[id] \in Subs \ Undeliverable
  /\ id \notin boxIDs[u]

\* sendMsg up to the commit of InsertMsg in the user's database.
LsStore(u, r) ==
  /\ IsCurrent(u, r)
  /\ CanStore(u, r[1])
  /\ copies' = [copies EXCEPT ![u][full[r[1]]] = @ + 1]
  /\ boxIDs' = [boxIDs EXCEPT ![u] = @ \cup {r[1]}]
  /\ lsCur' = [lsCur EXCEPT ![u] = r[1]]
  /\ Dequeue(u, r)
  /\ NoFault
  /\ UNCHANGED <<tables, history, running, lsStage>>

\* sendMsg after it: setMsgsSent, for all addresses of the user.
LsSetSent(u) ==
  /\ lsCur[u] # 0
  /\ SetState(lsCur[u], AddrsOf(u), {"Received"}, "Done")
  /\ lsCur' = [lsCur EXCEPT ![u] = 0]
  /\ NoFault
  /\ UNCHANGED <<msgs, readyDate, raw, full, deliveries, history, running, lsStage, lsRows, boxVars>>

\* Mutant of LsSkip: sendForUser returns.
LsSkipRest(u, r) ==
  /\ IsCurrent(u, r)
  /\ ~CanStore(u, r[1])
  /\ lsRows' = [lsRows EXCEPT ![u] = {}]
  /\ NoFault
  /\ UNCHANGED <<tables, history, running, lsStage, lsCur, boxVars>>

\* sendMsg returns an error; sendForUser logs it and goes on.
LsSkip(u, r) ==
  /\ IsCurrent(u, r)
  /\ ~CanStore(u, r[1])
  /\ Dequeue(u, r)
  /\ NoFault
  /\ UNCHANGED <<tables, history, running, lsStage, lsCur, boxVars>>

\* An error of sendMsg that need not happen again, before or after InsertMsg.
LsError(u) ==
  /\ Fault("localSend")
  /\ \/ lsCur[u] # 0 /\ lsCur' = [lsCur EXCEPT ![u] = 0] /\ UNCHANGED lsRows
     \/ \E r \in lsRows[u] : IsCurrent(u, r) /\ Dequeue(u, r) /\ UNCHANGED lsCur
  /\ UNCHANGED <<tables, history, running, lsStage, boxVars>>

\* boxmgmt.Open or collectMsgsToSend fails: sendForUser returns.
LsOpenFails(u) ==
  /\ lsStage[u] = "opened"
  /\ Fault("localSend")
  /\ lsStage' = [lsStage EXCEPT ![u] = "idle"]
  /\ UNCHANGED <<tables, history, running, lsRows, lsCur, boxVars>>

\* sendForUser returns.
LsFinish(u) ==
  /\ lsStage[u] = "loop" /\ lsCur[u] = 0 /\ lsRows[u] = {}
  /\ lsStage' = [lsStage EXCEPT ![u] = "idle"]
  /\ NoFault
  /\ UNCHANGED <<tables, history, running, lsRows, lsCur, boxVars>>

\* collectToSend fails: Run returns.
LsStop ==
  /\ "localsender" \in running
  /\ \A u \in Users : lsStage[u] = "idle"
  /\ Fault("collect")
  /\ running' = running \ {"localsender"}
  /\ UNCHANGED <<tables, history, lsVars, boxVars>>

LsUser(u) ==
  \/ LsCollectMsgs(u)
  \/ \E r \in lsRows[u] : LsStore(u, r) \/ LsSkip(u, r)
  \/ LsSetSent(u)
  \/ LsFinish(u)

LsNext ==
  \/ LsCollect
  \/ \E u \in Users : LsUser(u)
  \/ \E u \in Users : LsError(u) \/ LsOpenFails(u)
  \/ LsStop
=============================================================================
