----------------------------- MODULE Deliverer -----------------------------
(***************************************************************************)
(* The deliverer of outgoing mail (spilldb/deliverer, smtp/smtpclient).    *)
(* Its Run loop collects recipients in state Sending and runs one          *)
(* goroutine per StagingID, which sends the message to the recipients' MX  *)
(* hosts and then records the results: first one Deliveries row per        *)
(* result, then the state of each recipient that succeeded, each statement *)
(* a commit of its own.  What did not succeed is found by the next scan.   *)
(***************************************************************************)
EXTENDS StagingDB

CONSTANTS
  DeliverLimit,   \* collectToDeliver: limit (300 in the code)
  Unsignable      \* submissions whose bytes msgcleaver.Sign rejects

ASSUME DelivererAssumption == DeliverLimit \in Nat /\ Unsignable \subseteq Subs

VARIABLES
  dlRcpts,  \* StagingID -> recipients its goroutine has still to send to
  dlLog,    \* StagingID -> results not yet in Deliveries
  dlOK      \* StagingID -> successful results not yet in MsgRecipients

dlVars == <<dlRcpts, dlLog, dlOK>>

Nobody == [id \in StagingIDs |-> {}]

DlInit ==
  /\ dlRcpts = Nobody
  /\ dlLog = Nobody
  /\ dlOK = Nobody

DlTypeOK ==
  /\ dlRcpts \in [StagingIDs -> SUBSET Addrs]
  /\ dlLog \in [StagingIDs -> SUBSET Addrs]
  /\ dlOK \in [StagingIDs -> SUBSET Addrs]

\* Mutant of SendingRows: messages still being received are taken too.
SendingRowsEarly == {r \in StagingIDs \X Addrs : recips[r[1]][r[2]] \in {"Receiving", "Sending"}}

SendingRows == {r \in StagingIDs \X Addrs : recips[r[1]][r[2]] = "Sending"}

-----------------------------------------------------------------------------
\* wg.Wait: the goroutines of the last batch are finished.
DlIdle == dlVars = <<Nobody, Nobody, Nobody>>

Signable(W) == \A r \in W : raw[r[1]] \notin Unsignable

DlCollect ==
  /\ "deliverer" \in running
  /\ DlIdle
  /\ SendingRows # {}
  /\ \E W \in Windows(SendingRows, DeliverLimit) :
       /\ Signable(W)
       /\ dlRcpts' = [id \in StagingIDs |-> {a \in Addrs : <<id, a>> \in W}]
  /\ NoFault
  /\ UNCHANGED <<tables, history, running, dlLog, dlOK>>

\* One of the messages cannot be signed: collectToDeliver, and with it Run,
\* returns the error.
DlReject ==
  /\ "deliverer" \in running
  /\ DlIdle
  /\ \E W \in Windows(SendingRows, DeliverLimit) : ~Signable(W)
  /\ running' = running \ {"deliverer"}
  /\ NoFault
  /\ UNCHANGED <<tables, history, dlVars>>

\* Client.Send has returned: the remote servers took the message for the
\* recipients in acc, res are the results, ok the successes among them.
\* MsgRaw, from which collectToDeliver read the contents, is written once.
SendResult(id, acc, res, ok) ==
  /\ dlRcpts[id] # {}
  /\ sent' = sent \cup {<<raw[id], a>> : a \in acc}
  /\ dlRcpts' = [dlRcpts EXCEPT ![id] = {}]
  /\ dlLog' = [dlLog EXCEPT ![id] = res]
  /\ dlOK' = [dlOK EXCEPT ![id] = ok]
  /\ UNCHANGED <<tables, running, nsub, authOf, rcptsOf, acked>>

DlSend(id) ==
  /\ SendResult(id, dlRcpts[id], dlRcpts[id], dlRcpts[id])
  /\ NoFault

\* Mutant of DlSendFails: a result is taken for a success.
DlSendFailsUnseen(id) ==
  /\ \E acc, res \in SUBSET dlRcpts[id] : SendResult(id, acc, res, res)
  /\ Fault("send")

\* Some recipients fail.  One whose MX lookup fails has no result, and one
\* whose server took the message has an error if the QUIT after it fails.
DlSendFails(id) ==
  /\ \E acc, res \in SUBSET dlRcpts[id] : \E ok \in SUBSET (acc \cap res) :
       SendResult(id, acc, res, ok)
  /\ Fault("send")

\* recordDelivery: INSERT INTO Deliveries.  0 stands for every other code.
DlLogResult(id, a) ==
  /\ a \in dlLog[id]
  /\ deliveries' = deliveries \cup {<<id, a, IF a \in dlOK[id] THEN 250 ELSE 0>>}
  /\ dlLog' = [dlLog EXCEPT ![id] = @ \ {a}]
  /\ NoFault
  /\ UNCHANGED <<msgs, readyDate, recips, raw, full, history, running, dlRcpts, dlOK>>

\* Mutant of DlMarkDone: the UPDATE looks for the wrong state.
DlMarkDoneNever(id, a) ==
  /\ dlLog[id] = {}
  /\ a \in dlOK[id]
  /\ SetState(id, {a}, {"Receiving"}, "Done")
  /\ dlOK' = [dlOK EXCEPT ![id] = @ \ {a}]
  /\ NoFault
  /\ UNCHANGED <<msgs, readyDate, raw, full, deliveries, history, running, dlRcpts, dlLog>>

\* recordDelivery, after all results are logged: the recipient is done, in
\* whatever state its row is by now.
DlMarkDone(id, a) ==
  /\ dlLog[id] = {}
  /\ a \in dlOK[id]
  /\ SetState(id, {a}, AnyState, "Done")
  /\ dlOK' = [dlOK EXCEPT ![id] = @ \ {a}]
  /\ NoFault
  /\ UNCHANGED <<msgs, readyDate, raw, full, deliveries, history, running, dlRcpts, dlLog>>

\* recordDelivery fails and gives up.
DlRecordFails(id) ==
  /\ dlLog[id] \cup dlOK[id] # {}
  /\ Fault("record")
  /\ dlLog' = [dlLog EXCEPT ![id] = {}]
  /\ dlOK' = [dlOK EXCEPT ![id] = {}]
  /\ UNCHANGED <<tables, history, running, dlRcpts>>

\* collectToDeliver fails: Run returns.
DlStop ==
  /\ "deliverer" \in running
  /\ DlIdle
  /\ Fault("collect")
  /\ running' = running \ {"deliverer"}
  /\ UNCHANGED <<tables, history, dlVars>>

DlMessage(id) ==
  \/ DlSend(id)
  \/ \E a \in Addrs : DlLogResult(id, a)
  \/ \E a \in Addrs : DlMarkDone(id, a)

DlScan == DlCollect \/ DlReject

DlNext ==
  \/ DlScan
  \/ \E id \in StagingIDs : DlMessage(id)
  \/ \E id \in StagingIDs : DlSendFails(id)
  \/ \E id \in StagingIDs : DlRecordFails(id)
  \/ DlStop
=============================================================================
