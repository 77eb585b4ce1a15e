------------------------------ MODULE SmtpMsg ------------------------------
(***************************************************************************)
(* Receiving a message into the staging database (spilldb/smtpdb): a       *)
(* MsgMaker makes one smtpMsg per MAIL command, the SMTP session adds      *)
(* recipients, writes the body and calls Close, or gives up and calls      *)
(* Cancel.  Close is several commits, without a transaction around them.   *)
(***************************************************************************)
EXTENDS StagingDB

CONSTANT Sessions  \* SMTP sessions

VARIABLES
  smtpPc,   \* session -> how far its smtpMsg has got
  smtpID,   \* session -> smtpMsg.stagingID
  smtpSub   \* session -> the transaction the smtpMsg stands for

smtpVars == <<smtpPc, smtpID, smtpSub>>

\* "none": no smtpMsg.  "envelope": RCPT commands.  "data": a body was written.
\* Inside Close: "rawRow" the MsgRaw row exists, "rawBody" its blob is filled,
\* "localDone" the local recipients are marked.  Inside removeMsg:
\* "removeRcpts" and "removeRow", before its two DELETE statements.
SmtpPcs == {"none", "envelope", "data", "rawRow", "rawBody", "localDone",
            "removeRcpts", "removeRow"}

SmtpInit ==
  /\ smtpPc = [s \in Sessions |-> "none"]
  /\ smtpID = [s \in Sessions |-> 0]
  /\ smtpSub = [s \in Sessions |-> 0]

SmtpTypeOK ==
  /\ smtpPc \in [Sessions -> SmtpPcs]
  /\ smtpID \in [Sessions -> 0..MaxStagingID]
  /\ smtpSub \in [Sessions -> 0..MaxSubs]

At(s, pcs) == smtpPc[s] \in pcs

Goto(s, pc) ==
  /\ smtpPc' = [smtpPc EXCEPT ![s] = pc]
  /\ UNCHANGED <<smtpID, smtpSub>>

\* The session sets its msg to nil.
Forget(s) ==
  /\ smtpPc' = [smtpPc EXCEPT ![s] = "none"]
  /\ smtpID' = [smtpID EXCEPT ![s] = 0]
  /\ smtpSub' = [smtpSub EXCEPT ![s] = 0]

IsAuth(s) == authOf[smtpSub[s]]

-----------------------------------------------------------------------------
\* MAIL: INSERT INTO Msgs.  auth: the session is authenticated and the sender
\* is one of the user's addresses (otherwise the MAIL is refused).
NewMessage(s, auth) ==
  /\ At(s, {"none"})
  /\ nsub < MaxSubs
  /\ \E id \in StagingIDs :
       /\ IsNextRowID(id)
       /\ msgs' = msgs \cup {id}
       /\ smtpID' = [smtpID EXCEPT ![s] = id]
  /\ smtpPc' = [smtpPc EXCEPT ![s] = "envelope"]
  /\ smtpSub' = [smtpSub EXCEPT ![s] = nsub + 1]
  /\ nsub' = nsub + 1
  /\ authOf' = [authOf EXCEPT ![nsub + 1] = auth]
  /\ NoFault
  /\ UNCHANGED <<readyDate, recips, raw, full, deliveries, running, rcptsOf, acked, sent>>

\* Mutant of ValidRecipient: the sender's authentication is not asked for.
ValidRecipientAnyone(s, a) == a \in LocalAddrs \/ a \notin LocalDomain

\* Which addresses RCPT lets through.
ValidRecipient(s, a) ==
  \/ a \in LocalAddrs
  \/ IsAuth(s) /\ a \notin LocalDomain

\* RCPT: INSERT INTO MsgRecipients; a second row for the address is refused.
AddRecipient(s, a) ==
  /\ At(s, {"envelope"})
  /\ ValidRecipient(s, a)
  /\ recips[smtpID[s]][a] = "NoRow"
  /\ recips' = [recips EXCEPT ![smtpID[s]][a] = "Receiving"]
  /\ rcptsOf' = [rcptsOf EXCEPT ![smtpSub[s]] = @ \cup {a}]
  /\ NoFault
  /\ UNCHANGED <<msgs, readyDate, raw, full, deliveries, running, nsub, authOf, acked, sent, smtpVars>>

\* DATA: the body goes to a buffer file.
Write(s) ==
  /\ At(s, {"envelope"})
  /\ Goto(s, "data")
  /\ NoFault
  /\ UNCHANGED <<tables, history, running>>

\* RSET, a lost connection, or an error of AddRecipient or Write.
Cancel(s) ==
  /\ At(s, {"envelope", "data"})
  /\ Goto(s, "removeRcpts")
  /\ NoFault
  /\ UNCHANGED <<tables, history, running>>

\* Close of a message without a body, or without a database connection: an
\* error is returned and the rows stay.
CloseEarly(s) ==
  /\ \/ At(s, {"envelope"}) /\ NoFault
     \/ At(s, {"data"}) /\ Fault("save")
  /\ Forget(s)
  /\ UNCHANGED <<tables, history, running>>

\* Mutant of CloseInsertRaw: INSERT OR REPLACE.
CloseReplaceRaw(s) ==
  /\ At(s, {"data"})
  /\ raw' = [raw EXCEPT ![smtpID[s]] = Blank] /\ Goto(s, "rawRow")
  /\ NoFault
  /\ UNCHANGED <<msgs, readyDate, recips, full, deliveries, history, running>>

\* saveMsg: INSERT INTO MsgRaw with a zeroblob; MsgRaw may already have a row
\* for a StagingID that is used again.
CloseInsertRaw(s) ==
  /\ At(s, {"data"})
  /\ IF raw[smtpID[s]] = NoRow
       THEN raw' = [raw EXCEPT ![smtpID[s]] = Blank] /\ Goto(s, "rawRow")
       ELSE Goto(s, "removeRcpts") /\ UNCHANGED raw
  /\ NoFault
  /\ UNCHANGED <<msgs, readyDate, recips, full, deliveries, history, running>>

\* saveMsg: the blob is filled.  An error of the blob's deferred Close, which
\* the code does not look at, is taken not to happen.
CloseWriteRaw(s) ==
  /\ At(s, {"rawRow"})
  /\ raw' = [raw EXCEPT ![smtpID[s]] = smtpSub[s]]
  /\ Goto(s, "rawBody")
  /\ NoFault
  /\ UNCHANGED <<msgs, readyDate, recips, full, deliveries, history, running>>

\* Close returns nil: the client is told 250 and the session forgets the message.
Acknowledge(s) ==
  /\ acked' = acked \cup {smtpSub[s]}
  /\ Forget(s)

\* Mutant of CloseSaveFails: the error is dropped.
CloseSaveFailsUnseen(s) ==
  /\ At(s, {"data", "rawRow", "rawBody"})
  /\ Fault("save")
  /\ Acknowledge(s)
  /\ UNCHANGED <<tables, nsub, authOf, rcptsOf, sent, running>>

\* An error of saveMsg, of the Seek after it or of the first UPDATE.
CloseSaveFails(s) ==
  /\ At(s, {"data", "rawRow", "rawBody"})
  /\ Fault("save")
  /\ Goto(s, "removeRcpts")
  /\ UNCHANGED <<tables, history, running>>

\* Mutant of CloseUnauth: the other state.
CloseUnauthSending(s) ==
  /\ At(s, {"rawBody"})
  /\ ~IsAuth(s)
  /\ SetState(smtpID[s], Addrs, AnyState, "Sending")
  /\ Acknowledge(s)
  /\ NoFault
  /\ UNCHANGED <<msgs, readyDate, raw, full, deliveries, running, nsub, authOf, rcptsOf, sent>>

\* Close of an unauthenticated message: every recipient is local.
CloseUnauth(s) ==
  /\ At(s, {"rawBody"})
  /\ ~IsAuth(s)
  /\ SetState(smtpID[s], Addrs, AnyState, "ToProcess")
  /\ Acknowledge(s)
  /\ NoFault
  /\ UNCHANGED <<msgs, readyDate, raw, full, deliveries, running, nsub, authOf, rcptsOf, sent>>

\* Close of a submission: first the recipients found in UserAddresses ...
CloseLocal(s) ==
  /\ At(s, {"rawBody"})
  /\ IsAuth(s)
  /\ SetState(smtpID[s], LocalAddrs, AnyState, "ToProcess")
  /\ Goto(s, "localDone")
  /\ NoFault
  /\ UNCHANGED <<msgs, readyDate, raw, full, deliveries, running, history>>

\* ... then, in a statement of its own, the remaining ones.
CloseRemote(s) ==
  /\ At(s, {"localDone"})
  /\ SetState(smtpID[s], Addrs, {"Receiving"}, "Sending")
  /\ Acknowledge(s)
  /\ NoFault
  /\ UNCHANGED <<msgs, readyDate, raw, full, deliveries, running, nsub, authOf, rcptsOf, sent>>

\* The second UPDATE fails: the message is removed although its local
\* recipients have been handed to the processor.
CloseRemoteFails(s) ==
  /\ At(s, {"localDone"})
  /\ Fault("remoteUpdate")
  /\ Goto(s, "removeRcpts")
  /\ UNCHANGED <<tables, history, running>>

\* Mutant of RemoveRecipients: the recipients stay.
RemoveNoRecipients(s) ==
  /\ At(s, {"removeRcpts"})
  /\ Goto(s, "removeRow")
  /\ NoFault
  /\ UNCHANGED <<tables, running, history>>

\* removeMsg: DELETE FROM MsgRecipients ...
RemoveRecipients(s) ==
  /\ At(s, {"removeRcpts"})
  /\ recips' = [recips EXCEPT ![smtpID[s]] = NoRecipients]
  /\ Goto(s, "removeRow")
  /\ NoFault
  /\ UNCHANGED <<msgs, readyDate, raw, full, deliveries, running, history>>

\* ... then DELETE FROM Msgs.  MsgRaw keeps its row.
RemoveRow(s) ==
  /\ At(s, {"removeRow"})
  /\ msgs' = msgs \ {smtpID[s]}
  /\ readyDate' = [readyDate EXCEPT ![smtpID[s]] = 0]
  /\ Forget(s)
  /\ NoFault
  /\ UNCHANGED <<recips, raw, full, deliveries, running, history>>

\* A DELETE fails: that is only logged, and removeMsg goes on.  Without a
\* database connection it removes nothing.
RemoveFails(s) ==
  /\ Fault("cleanup")
  /\ \/ At(s, {"removeRcpts"}) /\ Goto(s, "removeRow")
     \/ At(s, {"removeRcpts", "removeRow"}) /\ Forget(s)
  /\ UNCHANGED <<tables, history, running>>

SmtpSession(s) ==
  \/ \E auth \in BOOLEAN : NewMessage(s, auth)
  \/ \E a \in Addrs : AddRecipient(s, a)
  \/ Write(s)
  \/ Cancel(s)
  \/ CloseEarly(s)
  \/ CloseInsertRaw(s)
  \/ CloseWriteRaw(s)
  \/ CloseSaveFails(s)
  \/ CloseUnauth(s)
  \/ CloseLocal(s)
  \/ CloseRemote(s)
  \/ CloseRemoteFails(s)
  \/ RemoveRecipients(s)
  \/ RemoveRow(s)
  \/ RemoveFails(s)

\* A Close or a removeMsg under way runs to its end, whatever the client does.
SmtpFinish(s) ==
  \/ CloseWriteRaw(s)
  \/ CloseUnauth(s)
  \/ CloseLocal(s)
  \/ CloseRemote(s)
  \/ RemoveRecipients(s)
  \/ RemoveRow(s)
=============================================================================
