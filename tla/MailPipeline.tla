---------------------------- MODULE MailPipeline ----------------------------
(***************************************************************************)
(* The path of a mail through spilldb: SMTP sessions, the processor, the   *)
(* local sender and the deliverer, running concurrently over the staging   *)
(* database, and crashes of the process.  Everything but the databases is  *)
(* lost in a crash; the restarted process finds its work in the tables.    *)
(***************************************************************************)
EXTENDS SmtpMsg, Processor, LocalSender, Deliverer

vars == <<tables, history, running, faults, smtpVars, procVars, lsVars, boxVars, dlVars>>

Init ==
  /\ StagingInit
  /\ SmtpInit
  /\ ProcInit
  /\ LsInit
  /\ DlInit

\* The process dies and is started again; Processor.Run begins with
\* loadMaxReadyDate.
Crash ==
  /\ Fault("crash")
  /\ smtpPc' = [s \in Sessions |-> "none"]
  /\ smtpID' = [s \in Sessions |-> 0]
  /\ smtpSub' = [s \in Sessions |-> 0]
  /\ procBatch' = {}
  /\ \E d \in {0} \cup {readyDate[id] : id \in msgs} : IsMaxReadyDate(d) /\ maxReadyDate' = d
  /\ lsStage' = [u \in Users |-> "idle"]
  /\ lsRows' = [u \in Users |-> {}]
  /\ lsCur' = [u \in Users |-> 0]
  /\ dlRcpts' = Nobody /\ dlLog' = Nobody /\ dlOK' = Nobody
  /\ running' = Loops
  /\ UNCHANGED <<tables, history, boxVars>>

SmtpStep(s) == SmtpSession(s) /\ UNCHANGED <<procVars, lsVars, boxVars, dlVars>>
ProcStep    == ProcNext /\ UNCHANGED <<smtpVars, lsVars, boxVars, dlVars>>
LsStep      == LsNext /\ UNCHANGED <<smtpVars, procVars, dlVars>>
DlStep      == DlNext /\ UNCHANGED <<smtpVars, procVars, lsVars, boxVars>>

Next ==
  \/ \E s \in Sessions : SmtpStep(s)
  \/ ProcStep
  \/ LsStep
  \/ DlStep
  \/ Crash

Spec == Init /\ [][Next]_vars

\* The ticker wakes every loop up every two seconds, goroutines are scheduled
\* and statements return; clients need not do anything.
Fairness ==
  /\ \A s \in Sessions : WF_vars(SmtpFinish(s) /\ UNCHANGED <<procVars, lsVars, boxVars, dlVars>>)
  /\ WF_vars(ProcCollect /\ UNCHANGED <<smtpVars, lsVars, boxVars, dlVars>>)
  /\ \A id \in StagingIDs : WF_vars(ProcMessage(id) /\ UNCHANGED <<smtpVars, lsVars, boxVars, dlVars>>)
  /\ WF_vars(LsCollect /\ UNCHANGED <<smtpVars, procVars, dlVars>>)
  /\ \A u \in Users : WF_vars(LsUser(u) /\ UNCHANGED <<smtpVars, procVars, dlVars>>)
  /\ WF_vars(DlScan /\ UNCHANGED <<smtpVars, procVars, lsVars, boxVars>>)
  /\ \A id \in StagingIDs : WF_vars(DlMessage(id) /\ UNCHANGED <<smtpVars, procVars, lsVars, boxVars>>)

FairSpec == Spec /\ Fairness

-----------------------------------------------------------------------------
(***************************************************************************)
(* Safety                                                                  *)
(***************************************************************************)
\* Every variable has its type.
TypeOK ==
  /\ StagingTypeOK
  /\ SmtpTypeOK
  /\ ProcTypeOK
  /\ LsTypeOK
  /\ DlTypeOK

\* A user's mailbox holds a mail at most once, although localsender commits to
\* the mailbox and to the staging database one after the other and starts over
\* after an error or a crash between the two, and although a user may be
\* addressed twice: InsertMsg relies on the UNIQUE StagingID of the box.
AtMostOnce == \A u \in Users, b \in Subs : copies[u][b] <= 1

\* Mail only gets to the addressees of its own SMTP transaction: StagingIDs
\* are used again after removeMsg, while a batch may still hold the old one.
EnvelopeRespected ==
  /\ \A u \in Users, b \in Subs :
       copies[u][b] > 0 => AddrsOf(u) \cap rcptsOf[b] # {}
  /\ \A d \in sent : d[2] \in rcptsOf[d[1]]

\* processSave has dealt with a local recipient of the StagingID.
LocalProcessed(id) == \E l \in LocalAddrs : recips[id][l] \in {"Received", "Done"}

\* What the server has answered with 250 stays in the queue: its body is
\* stored completely and each of its recipients has a row in a state in which
\* a loop looks for it or has dealt with it. The exception is processSave's
\* UPDATE, which has no state in its WHERE and also sets a remote recipient of
\* a StagingID with local ones to Received, in which nothing looks for it:
\* RemainingRecipientsSent, which the code violates.
AcceptedNotLost ==
  \A b \in acked : \E id \in msgs :
    /\ raw[id] = b
    /\ \A a \in rcptsOf[b] :
         \/ a \in LocalAddrs /\ recips[id][a] \in {"ToProcess", "Received", "Done"}
         \/ a \notin LocalAddrs /\ recips[id][a] \in {"Sending", "Done"}
         \/ recips[id][a] = "Received" /\ LocalProcessed(id)

\* Done means delivered: setMsgsSent and recordDelivery mark a recipient only
\* after the mailbox, or the remote server, has the mail, and the latter only
\* after the delivery is on record.
DoneMeansDelivered ==
  \A id \in StagingIDs, a \in Addrs : recips[id][a] = "Done" =>
    IF a \in LocalAddrs THEN copies[UserAddresses[a]][raw[id]] > 0
                        ELSE <<raw[id], a>> \in sent /\ <<id, a, 250>> \in deliveries

\* What a loop collects it can load: a recipient to be processed or sent has
\* its Msgs row and the whole body, otherwise collectToDeliver returns an error
\* and the deliverer stops; one ready for local delivery has its MsgFull row
\* and a ReadyDate, otherwise CollectMsgsToSend passes over it for ever.
QueueLoadable ==
  \A id \in StagingIDs, a \in Addrs :
    /\ recips[id][a] \in {"ToProcess", "Sending"} => id \in msgs /\ raw[id] \in Subs
    /\ recips[id][a] = "Received" => id \in msgs /\ readyDate[id] > 0 /\ full[id] = raw[id]

\* ReadyDate grows from one processed message to the next, whatever the clock
\* does and across restarts (processSave, loadMaxReadyDate).
ReadyDateGrows ==
  [][\A id \in StagingIDs : readyDate'[id] \notin {0, readyDate[id]} =>
       \A other \in StagingIDs : readyDate[other] < readyDate'[id]]_readyDate

\* Nobody who has not authenticated has mail relayed to another server.
NotOpenRelay == \A d \in sent : authOf[d[1]]

\* The body stored for a StagingID is never replaced, even when the StagingID
\* is given to another message.
RawImmutable ==
  [][\A id \in StagingIDs : raw[id] \in Subs => raw'[id] = raw[id]]_raw

-----------------------------------------------------------------------------
(***************************************************************************)
(* What the proofs need besides the properties.                            *)
(***************************************************************************)
Active(s) == smtpPc[s] # "none"

\* A session with a message has a StagingID and a transaction, and past saveMsg
\* the body is in MsgRaw; so it is for whatever the deliverer deals with.
SmtpSane ==
  \A s \in Sessions : Active(s) =>
    /\ smtpID[s] \in StagingIDs
    /\ smtpSub[s] \in Subs
    /\ smtpPc[s] \in {"rawBody", "localDone"} => raw[smtpID[s]] \in Subs

SendingSaved ==
  \A id \in StagingIDs :
    (dlRcpts[id] # {} \/ \E a \in Addrs : recips[id][a] = "Sending") => raw[id] \in Subs

TypeInv == TypeOK /\ SmtpSane /\ SendingSaved

\* A submission belongs to one session, and is not in MsgRaw before saveMsg.
SubInv ==
  /\ \A s \in Sessions : Active(s) => smtpSub[s] <= nsub
  /\ \A s, t \in Sessions : Active(s) /\ Active(t) /\ smtpSub[s] = smtpSub[t] => s = t
  /\ \A s \in Sessions : smtpPc[s] \in {"envelope", "data", "rawRow"} =>
       \A id \in StagingIDs : raw[id] # smtpSub[s]

\* The MsgRaw row a session fills is its own.
RowInv ==
  /\ \A s, t \in Sessions :
       smtpPc[s] = "rawRow" /\ smtpPc[t] = "rawRow" /\ smtpID[s] = smtpID[t] => s = t
  /\ \A s \in Sessions : smtpPc[s] = "rawRow" => raw[smtpID[s]] = Blank
  /\ \A s \in Sessions : smtpPc[s] \in {"rawBody", "localDone"} => raw[smtpID[s]] = smtpSub[s]

\* A body is in at most one row, and what the processor makes of it keeps its
\* content.
StoreInv ==
  /\ \A id \in StagingIDs : raw[id] <= nsub
  /\ \A i, j \in StagingIDs : raw[i] \in Subs /\ raw[i] = raw[j] => i = j
  /\ \A id \in StagingIDs : full[id] \in Subs => full[id] = raw[id]

RawInv == SubInv /\ RowInv /\ StoreInv

\* A mail is in a box because its StagingID is.
BoxInv ==
  \A u \in Users, b \in Subs :
    /\ copies[u][b] <= 1
    /\ copies[u][b] = 1 => \E id \in boxIDs[u] : raw[id] = b

\* No row is dated later than the processor's clock.
DateInv ==
  \A id \in StagingIDs : readyDate[id] <= maxReadyDate /\ (id \notin msgs => readyDate[id] = 0)

\* What the deliverer deals with was submitted by an authenticated session.
RelayInv ==
  /\ \A s \in Sessions : smtpPc[s] = "localDone" => authOf[smtpSub[s]]
  /\ \A id \in StagingIDs :
       (dlRcpts[id] # {} \/ \E a \in Addrs : recips[id][a] = "Sending") => authOf[raw[id]]
  /\ \A d \in sent : d[1] <= nsub /\ authOf[d[1]]

-----------------------------------------------------------------------------
(***************************************************************************)
(* What the proofs about the queue need.                                   *)
(***************************************************************************)
\* Close has not marked any recipient yet.
Early == {"envelope", "data", "rawRow", "rawBody"}
\* The states of a recipient that Close has handed on to a loop.
Handed == {"ToProcess", "Sending", "Received", "Done"}

Free(id) == \A s \in Sessions : Active(s) => smtpID[s] # id
Sends(id) == dlRcpts[id] \cup dlLog[id] \cup dlOK[id] # {}

\* A session has its StagingID for itself: removeMsg deletes the row of Msgs
\* when it is done with it, and INSERT only gives out what has no row.
IDInv ==
  /\ \A s \in Sessions : Active(s) => smtpID[s] \in msgs
  /\ \A s, t \in Sessions : Active(s) /\ Active(t) /\ smtpID[s] = smtpID[t] => s = t

\* The deliverer deals with StagingIDs that no session holds any more.
DlInv ==
  \A id \in StagingIDs :
    Sends(id) \/ (\E a \in Addrs : recips[id][a] = "Sending") => id \in msgs /\ Free(id)

\* The rows of an envelope, while Close works on them and when it is done.
EarlyStates == {"Receiving", "Received", "Done"}
LocalStates == {"ToProcess", "Received", "Done"}
RemoteStates == {"Sending", "Received", "Done"}

EnvelopesLegal ==
  \A b \in Subs : (~authOf[b] => rcptsOf[b] \subseteq LocalAddrs) /\ (b > nsub => rcptsOf[b] = {})

EarlyRows ==
  \A s \in Sessions : smtpPc[s] \in Early =>
    \A a \in rcptsOf[smtpSub[s]] : recips[smtpID[s]][a] \in EarlyStates

LocalDoneRows ==
  \A s \in Sessions : smtpPc[s] = "localDone" =>
    \A a \in rcptsOf[smtpSub[s]] :
      recips[smtpID[s]][a] \in IF a \in LocalAddrs THEN LocalStates ELSE EarlyStates

AckedRows ==
  \A b \in acked : \E id \in msgs :
    /\ raw[id] = b /\ Free(id)
    /\ \A a \in rcptsOf[b] :
         recips[id][a] \in IF a \in LocalAddrs THEN LocalStates ELSE RemoteStates

AcceptInv == EnvelopesLegal /\ EarlyRows /\ LocalDoneRows /\ AckedRows

\* The processor has the StagingID, or will find it; it has saved it.
Collectable(id) == id \in procBatch \/ \E a \in Addrs : recips[id][a] = "ToProcess"
Processed(id) == \E a \in Addrs : recips[id][a] = "Received"

\* It only gets what is in MsgRaw, so never the StagingID of a message whose
\* Close has just stored the body: a StagingID with a body is not stored again.
CollectedSaved == \A id \in StagingIDs : Collectable(id) \/ Processed(id) => raw[id] \in Subs

BodyFresh ==
  \A s \in Sessions : smtpPc[s] = "rawBody" => ~Collectable(smtpID[s]) /\ ~Processed(smtpID[s])

\* Close has handed the local recipients on; a message with remote ones only
\* gets to the processor through a local row.
Live(id) == raw[id] \in acked \/ \E s \in Sessions : smtpPc[s] = "localDone" /\ smtpID[s] = id

LiveRows ==
  \A id \in StagingIDs : Live(id) =>
    \/ rcptsOf[raw[id]] \subseteq LocalAddrs
    \/ /\ Collectable(id) => \E l \in LocalAddrs : recips[id][l] \in LocalStates
       /\ Processed(id) => LocalProcessed(id)

RemoteInv == CollectedSaved /\ BodyFresh /\ LiveRows

\* What is not marked Done yet but may be in the next step.
DoneSaved == \A id \in StagingIDs, a \in Addrs : recips[id][a] = "Done" => raw[id] \in Subs

CurStored ==
  \A u \in Users : lsCur[u] # 0 => raw[lsCur[u]] \in Subs /\ copies[u][raw[lsCur[u]]] > 0

LocalsMarked ==
  \A s \in Sessions : smtpPc[s] = "localDone" => \A a \in LocalAddrs : recips[smtpID[s]][a] # "Receiving"

SendingIsRemote ==
  \A id \in StagingIDs, a \in LocalAddrs : recips[id][a] # "Sending" /\ a \notin dlRcpts[id] \cup dlOK[id]

ResultsTrue ==
  \A id \in StagingIDs : \A a \in dlOK[id] :
    /\ raw[id] \in Subs /\ <<raw[id], a>> \in sent
    /\ a \in dlLog[id] \/ <<id, a, 250>> \in deliveries

DoneInv == DoneMeansDelivered /\ DoneSaved /\ CurStored /\ LocalsMarked /\ SendingIsRemote /\ ResultsTrue

\* A message is removed before any of its recipients is handed on, or else
\* together with all its rows.
HandedSaved ==
  \A id \in StagingIDs, a \in Addrs : recips[id][a] \in Handed => id \in msgs /\ raw[id] \in Subs

RemovedEmpty ==
  /\ \A id \in StagingIDs \ msgs, a \in Addrs : recips[id][a] = "NoRow"
  /\ \A s \in Sessions : smtpPc[s] = "removeRow" => \A a \in Addrs : recips[smtpID[s]][a] = "NoRow"

BatchHeld ==
  /\ procBatch \subseteq msgs
  /\ \A s \in Sessions : Active(s) /\ smtpPc[s] # "localDone" =>
       smtpID[s] \notin procBatch /\ \A a \in Addrs : recips[smtpID[s]][a] \notin Handed

QueueInv ==
  /\ QueueLoadable
  /\ HandedSaved
  /\ "cleanup" \notin FaultKinds => RemovedEmpty
  /\ "remoteUpdate" \notin FaultKinds => BatchHeld

\* The rows of a StagingID are of the envelope whose session or loop uses it.
SessionRows ==
  \A s \in Sessions : smtpPc[s] \in Early \cup {"localDone"} =>
    \A a \in Addrs : recips[smtpID[s]][a] # "NoRow" => a \in rcptsOf[smtpSub[s]]

Busy(id) == id \in procBatch \/ Sends(id) \/ \E a \in Addrs : recips[id][a] \in Handed

BusyRows ==
  \A id \in StagingIDs : Busy(id) =>
    /\ raw[id] \in Subs
    /\ \A a \in Addrs : recips[id][a] # "NoRow" => a \in rcptsOf[raw[id]]

WorkAddressed ==
  /\ \A id \in StagingIDs : \A a \in dlRcpts[id] : a \in rcptsOf[raw[id]]
  /\ \A u \in Users : \A r \in lsRows[u] :
       raw[r[1]] \in Subs /\ r[2] \in AddrsOf(u) \cap rcptsOf[raw[r[1]]]

EnvelopeInv == EnvelopeRespected /\ SessionRows /\ BusyRows /\ WorkAddressed

\* Only accepted mail is relayed.
RelayedInv ==
  /\ \A d \in sent : d[1] \in acked
  /\ \A id \in StagingIDs :
       Sends(id) \/ (\E a \in Addrs : recips[id][a] = "Sending") => raw[id] \in acked

-----------------------------------------------------------------------------
(***************************************************************************)
(* The pipeline implements MailDelivery.                                   *)
(***************************************************************************)
Inbox == {d \in Subs \X Users : copies[d[2]][d[1]] > 0}

Mail == INSTANCE MailDelivery WITH
          opened <- nsub, accepted <- acked, inbox <- Inbox, relayed <- sent

\* What clients and correspondents see is a behaviour of MailDelivery.
ImplementsMailDelivery == Mail!Spec

-----------------------------------------------------------------------------
(***************************************************************************)
(* Liveness                                                                *)
(***************************************************************************)
\* An accepted mail that can be processed and stored gets to every local
\* addressee, in spite of crashes and of other mails that cannot.
LocalMailArrives ==
  \A b \in Subs \ (Unprocessable \cup Undeliverable), a \in LocalAddrs :
    (b \in acked /\ a \in rcptsOf[b]) ~> (copies[UserAddresses[a]][b] > 0)

\* An accepted mail for remote addresses only is sent to each of them.
RemoteMailSent ==
  \A b \in Subs \ Unsignable, a \in Addrs \ LocalAddrs :
    (b \in acked /\ a \in rcptsOf[b] /\ rcptsOf[b] \cap LocalAddrs = {})
      ~> (<<b, a>> \in sent)

\* A recipient that the deliverer has to send to is eventually marked done (and
\* not sent to again and again), after every kind of failure of recordDelivery.
SendingEnds ==
  \A id \in StagingIDs, a \in Addrs :
    (recips[id][a] = "Sending") ~> (recips[id][a] # "Sending")

-----------------------------------------------------------------------------
(***************************************************************************)
(* What a comment says, and the code does not do.                          *)
(***************************************************************************)
\* smtpdb.go: "Mark the remaining recipients for external delivery."
RemainingRecipientsSent ==
  \A b \in Subs, a \in Addrs \ LocalAddrs :
    (b \in acked /\ a \in rcptsOf[b]) ~> (<<b, a>> \in sent)
=============================================================================
