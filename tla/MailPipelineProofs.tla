------------------------- MODULE MailPipelineProofs -------------------------
(***************************************************************************)
(* Theorems about MailPipeline, for every number of messages, sessions,    *)
(* addresses and users, every limit, every clock and every number of       *)
(* failures, in three parts: the types; what it promises about the mail    *)
(* itself; what it promises about its queue, and the refinement.           *)
(***************************************************************************)
EXTENDS MailPipeline, TLAPS

-----------------------------------------------------------------------------
(***************************************************************************)
(* PART 1.  Types.                                                         *)
(***************************************************************************)
\* Each step of an SMTP session (smtpdb) keeps the types.
LEMMA SmtpType ==
  ASSUME TypeInv, NEW s \in Sessions, SmtpSession(s), UNCHANGED dlVars
  PROVE  (StagingTypeOK /\ SmtpTypeOK /\ SmtpSane /\ SendingSaved)'
<1> USE StagingAssumption DEF TypeInv, TypeOK, StagingTypeOK, SmtpTypeOK, SmtpSane, SendingSaved,
      tables, history, smtpVars, dlVars, At, NoFault, Fault, Goto, Forget,
      SmtpPcs, Active, StagingIDs, Subs, Content, NoRow, Blank
<1> DEFINE Goal == StagingTypeOK /\ SmtpTypeOK /\ SmtpSane /\ SendingSaved
           Quiet == UNCHANGED <<tables, history, running>> /\ faults' \in 0..MaxFaults
           Later == {"data", "removeRcpts", "removeRow"}
<1>1. ASSUME Quiet, Active(s), NEW pc \in Later, Goto(s, pc) PROVE Goal'
  <2>1. StagingTypeOK' /\ SendingSaved'
    BY <1>1
  <2>2. SmtpTypeOK' /\ SmtpSane'
    BY <1>1
  <2> QED
    BY <2>1, <2>2
<1>2. ASSUME Quiet, Forget(s) PROVE Goal'
  <2>1. StagingTypeOK' /\ SendingSaved'
    BY <1>2
  <2>2. SmtpTypeOK' /\ SmtpSane'
    BY <1>2
  <2> QED
    BY <2>1, <2>2
<1>3. ASSUME NEW auth \in BOOLEAN, NewMessage(s, auth) PROVE Goal'
  <2>1. PICK id \in StagingIDs : msgs' = msgs \cup {id} /\ smtpID' = [smtpID EXCEPT ![s] = id]
    BY <1>3 DEF NewMessage
  <2>2. nsub + 1 \in 1..MaxSubs /\ nsub + 1 \in 0..MaxSubs
    BY <1>3 DEF NewMessage
  <2>3. StagingTypeOK'
    BY <1>3, <2>1, <2>2 DEF NewMessage
  <2>4. SmtpTypeOK' /\ SmtpSane'
    BY <1>3, <2>1, <2>2 DEF NewMessage
  <2>5. SendingSaved'
    BY <1>3 DEF NewMessage
  <2> QED
    BY <2>3, <2>4, <2>5
<1>4. ASSUME NEW a \in Addrs, AddRecipient(s, a) PROVE Goal'
  <2>1. StagingTypeOK' /\ SmtpTypeOK'
    BY <1>4 DEF AddRecipient, DeliveryState
  <2>2. SmtpSane' /\ SendingSaved'
    BY <1>4 DEF AddRecipient, DeliveryState
  <2> QED
    BY <2>1, <2>2
<1>5. CASE Write(s)
  <2>1. Quiet /\ Active(s) /\ Goto(s, "data")
    BY <1>5 DEF Write
  <2>2. "data" \in Later
    OBVIOUS
  <2> HIDE DEF Goal, Quiet, Later, Goto, Active
  <2>3. Goal'
    BY <1>1, <2>1, <2>2
  <2> QED
    BY <2>3 DEF Goal
<1>6. CASE Cancel(s)
  <2>1. Quiet /\ Active(s) /\ Goto(s, "removeRcpts")
    BY <1>6 DEF Cancel
  <2>2. "removeRcpts" \in Later
    OBVIOUS
  <2> HIDE DEF Goal, Quiet, Later, Goto, Active
  <2>3. Goal'
    BY <1>1, <2>1, <2>2
  <2> QED
    BY <2>3 DEF Goal
<1>7. CASE CloseEarly(s)
  <2>1. Quiet /\ Forget(s)
    BY <1>7 DEF CloseEarly
  <2> HIDE DEF Goal, Quiet, Forget
  <2>2. Goal'
    BY <1>2, <2>1
  <2> QED
    BY <2>2 DEF Goal
<1>8. CASE CloseInsertRaw(s)
  <2>1. CASE raw[smtpID[s]] = NoRow
    <3>1. raw' = [raw EXCEPT ![smtpID[s]] = Blank] /\ Goto(s, "rawRow")
      BY <1>8, <2>1 DEF CloseInsertRaw
    <3>2. StagingTypeOK' /\ SmtpTypeOK'
      BY <1>8, <3>1 DEF CloseInsertRaw
    <3>3. SmtpSane' /\ SendingSaved'
      BY <1>8, <2>1, <3>1 DEF CloseInsertRaw
    <3> QED
      BY <3>2, <3>3
  <2>2. CASE raw[smtpID[s]] # NoRow
    BY <1>1, <1>8, <2>2 DEF CloseInsertRaw
  <2> QED
    BY <2>1, <2>2
<1>9. CASE CloseWriteRaw(s)
  <2>1. StagingTypeOK' /\ SmtpTypeOK'
    BY <1>9 DEF CloseWriteRaw
  <2>2. SmtpSane' /\ SendingSaved'
    BY <1>9 DEF CloseWriteRaw
  <2> QED
    BY <2>1, <2>2
<1>10. CASE CloseSaveFails(s)
  <2>1. Quiet /\ Active(s) /\ Goto(s, "removeRcpts")
    BY <1>10 DEF CloseSaveFails
  <2>2. "removeRcpts" \in Later
    OBVIOUS
  <2> HIDE DEF Goal, Quiet, Later, Goto, Active
  <2>3. Goal'
    BY <1>1, <2>1, <2>2
  <2> QED
    BY <2>3 DEF Goal
<1>11. ASSUME NEW who \in SUBSET Addrs, NEW from \in SUBSET AnyState, NEW to \in {"ToProcess", "Sending"},
              At(s, {"rawBody", "localDone"}), SetState(smtpID[s], who, from, to),
              Goto(s, "localDone") \/ Acknowledge(s),
              UNCHANGED <<msgs, readyDate, raw, full, deliveries, running, nsub, authOf, rcptsOf, sent, faults>>,
              acked' \in {acked, acked \cup {smtpSub[s]}}
       PROVE  Goal'
  <2>1. recips' \in [StagingIDs -> [Addrs -> DeliveryState]]
    BY <1>11 DEF SetState, DeliveryState
  <2>2. StagingTypeOK'
    BY <1>11, <2>1
  <2>3. SmtpTypeOK' /\ SmtpSane'
    <3>1. CASE Goto(s, "localDone")
      BY <1>11, <3>1
    <3>2. CASE Acknowledge(s)
      BY <1>11, <3>2 DEF Acknowledge
    <3> QED
      BY <1>11, <3>1, <3>2
  <2>4. SendingSaved'
    BY <1>11 DEF SetState
  <2> QED
    BY <2>2, <2>3, <2>4
<1>12. CASE CloseUnauth(s)
  BY <1>11, <1>12 DEF CloseUnauth, Acknowledge
<1>13. CASE CloseLocal(s)
  BY <1>11, <1>13 DEF CloseLocal, LocalAddrs
<1>14. CASE CloseRemote(s)
  BY <1>11, <1>14 DEF CloseRemote, Acknowledge, AnyState, DeliveryState
<1>15. CASE CloseRemoteFails(s)
  <2>1. Quiet /\ Active(s) /\ Goto(s, "removeRcpts")
    BY <1>15 DEF CloseRemoteFails
  <2>2. "removeRcpts" \in Later
    OBVIOUS
  <2> HIDE DEF Goal, Quiet, Later, Goto, Active
  <2>3. Goal'
    BY <1>1, <2>1, <2>2
  <2> QED
    BY <2>3 DEF Goal
<1>16. CASE RemoveRecipients(s)
  <2>1. StagingTypeOK' /\ SmtpTypeOK'
    BY <1>16 DEF RemoveRecipients, NoRecipients, DeliveryState
  <2>2. SmtpSane' /\ SendingSaved'
    BY <1>16 DEF RemoveRecipients, NoRecipients
  <2> QED
    BY <2>1, <2>2
<1>17. CASE RemoveRow(s)
  <2>1. msgs' \subseteq StagingIDs /\ readyDate' \in [StagingIDs -> Nat]
    BY <1>17 DEF RemoveRow
  <2>2. StagingTypeOK'
    BY <1>17, <2>1 DEF RemoveRow
  <2>3. SmtpTypeOK'
    BY <1>17 DEF RemoveRow
  <2>4. SmtpSane'
    BY <1>17 DEF RemoveRow
  <2>5. SendingSaved'
    BY <1>17 DEF RemoveRow
  <2> QED
    BY <2>2, <2>3, <2>4, <2>5
<1>18. CASE RemoveFails(s)
  <2>1. Quiet /\ Active(s)
    BY <1>18 DEF RemoveFails
  <2>2. Goto(s, "removeRow") \/ Forget(s)
    BY <1>18 DEF RemoveFails
  <2> HIDE DEF Goal, Quiet, Goto, Forget, Active
  <2>3. Goal'
    BY <1>1, <1>2, <2>1, <2>2
  <2> QED
    BY <2>3 DEF Goal
<1> QED
  BY <1>3, <1>4, <1>5, <1>6, <1>7, <1>8, <1>9, <1>10, <1>12, <1>13, <1>14, <1>15, <1>16, <1>17, <1>18
  DEF SmtpSession

\* Each step of the processor keeps the types.
LEMMA ProcType ==
  ASSUME TypeInv, ProcNext, UNCHANGED <<smtpVars, dlVars>>
  PROVE  (StagingTypeOK /\ ProcTypeOK /\ SmtpSane /\ SendingSaved)'
<1> USE StagingAssumption, ProcessorAssumption
    DEF TypeInv, TypeOK, StagingTypeOK, SmtpTypeOK, ProcTypeOK, SmtpSane, SendingSaved,
      tables, history, smtpVars, procVars, dlVars, NoFault, Fault, Active, Content, NoRow, Blank
<1> DEFINE Goal == StagingTypeOK /\ ProcTypeOK /\ SmtpSane /\ SendingSaved
<1>1. CASE ProcCollect
  BY <1>1 DEF ProcCollect, Lowest, ToProcessIDs
<1>2. ASSUME NEW now \in Clock PROVE NextReadyDate(now) \in Nat
  BY DEF NextReadyDate, Clock
<1>3. ASSUME NEW id \in StagingIDs, NEW now \in Clock, ProcSave(id, now) PROVE Goal'
  <2>1. maxReadyDate' \in Nat
    BY <1>2, <1>3 DEF ProcSave
  <2>2. recips' = [recips EXCEPT ![id] = [a \in Addrs |->
                     IF recips[id][a] \in AnyState THEN "Received" ELSE recips[id][a]]]
    BY <1>3 DEF ProcSave, SetState
  <2>3. full' = [full EXCEPT ![id] = raw[id]]
    BY <1>3 DEF ProcSave
  <2>4. readyDate' \in [StagingIDs -> Nat]
    BY <1>3, <2>1 DEF ProcSave
  <2>5. Goal'
    BY <1>3, <2>1, <2>2, <2>3, <2>4 DEF ProcSave, DeliveryState, AnyState
  <2> QED
    BY <2>5
<1>4. ASSUME NEW id \in StagingIDs, ProcReject(id) PROVE Goal'
  BY <1>4 DEF ProcReject
<1>5. ASSUME NEW id \in StagingIDs, ProcError(id) PROVE Goal'
  BY <1>2, <1>5 DEF ProcError
<1>6. CASE ProcStop
  BY <1>6 DEF ProcStop
<1> QED
  BY <1>1, <1>3, <1>4, <1>5, <1>6 DEF ProcNext, ProcMessage

\* Each step of the local sender keeps the types.
LEMMA LsType ==
  ASSUME TypeInv, LsNext, UNCHANGED <<smtpVars, dlVars>>
  PROVE  (StagingTypeOK /\ LsTypeOK /\ SmtpSane /\ SendingSaved)'
<1> USE StagingAssumption
    DEF TypeInv, TypeOK, StagingTypeOK, SmtpTypeOK, LsTypeOK, SmtpSane, SendingSaved,
      tables, history, smtpVars, lsVars, boxVars, dlVars, NoFault, Fault, Active, Content, NoRow, Blank
<1> DEFINE Goal == StagingTypeOK /\ LsTypeOK /\ SmtpSane /\ SendingSaved
<1>1. CASE LsCollect
  BY <1>1 DEF LsCollect
<1>2. ASSUME NEW u \in Users, LsCollectMsgs(u) PROVE Goal'
  <2>1. PICK W \in SUBSET (StagingIDs \X Addrs) : lsRows' = [lsRows EXCEPT ![u] = W]
    BY <1>2 DEF LsCollectMsgs, Windows, WaitingRows, AddrsOf, LocalAddrs
  <2> QED
    BY <1>2, <2>1 DEF LsCollectMsgs
<1>3. ASSUME NEW u \in Users, NEW r \in lsRows[u], LsStore(u, r) PROVE Goal'
  <2>1. r[1] \in StagingIDs /\ r[1] \in 0..MaxStagingID /\ full[r[1]] \in Subs
    BY <1>3 DEF LsStore, CanStore, StagingIDs
  <2> QED
    BY <1>3, <2>1 DEF LsStore, Dequeue
<1>4. ASSUME NEW u \in Users, NEW r \in lsRows[u], LsSkip(u, r) PROVE Goal'
  BY <1>4 DEF LsSkip, Dequeue
<1>5. ASSUME NEW u \in Users, LsSetSent(u) PROVE Goal'
  <2>1. lsCur[u] \in StagingIDs
    BY <1>5 DEF LsSetSent, StagingIDs
  <2>2. recips' \in [StagingIDs -> [Addrs -> DeliveryState]]
    BY <1>5, <2>1 DEF LsSetSent, SetState, DeliveryState
  <2>3. StagingTypeOK'
    BY <1>5, <2>2 DEF LsSetSent
  <2>4. LsTypeOK'
    BY <1>5 DEF LsSetSent
  <2>5. SmtpSane'
    BY <1>5 DEF LsSetSent
  <2>6. SendingSaved'
    BY <1>5, <2>1 DEF LsSetSent, SetState
  <2> QED
    BY <2>3, <2>4, <2>5, <2>6
<1>6. ASSUME NEW u \in Users, LsFinish(u) PROVE Goal'
  BY <1>6 DEF LsFinish
<1>7. ASSUME NEW u \in Users, LsError(u) PROVE Goal'
  <2>1. \/ lsCur' = [lsCur EXCEPT ![u] = 0] /\ UNCHANGED lsRows
        \/ UNCHANGED lsCur /\ \E r : lsRows' = [lsRows EXCEPT ![u] = @ \ {r}]
    BY <1>7 DEF LsError, Dequeue
  <2>2. CASE lsCur' = [lsCur EXCEPT ![u] = 0] /\ UNCHANGED lsRows
    BY <1>7, <2>2 DEF LsError
  <2>3. CASE UNCHANGED lsCur /\ \E r : lsRows' = [lsRows EXCEPT ![u] = @ \ {r}]
    <3>1. PICK r : lsRows' = [lsRows EXCEPT ![u] = @ \ {r}]
      BY <2>3
    <3> QED
      BY <1>7, <2>3, <3>1 DEF LsError
  <2> QED
    BY <2>1, <2>2, <2>3
<1>8. CASE LsStop
  BY <1>8 DEF LsStop
<1>9. ASSUME NEW u \in Users, LsOpenFails(u) PROVE Goal'
  BY <1>9 DEF LsOpenFails
<1> QED
  BY <1>1, <1>2, <1>3, <1>4, <1>5, <1>6, <1>7, <1>8, <1>9 DEF LsNext, LsUser

\* Each step of the deliverer keeps the types; what it relays is a stored body.
LEMMA DlType ==
  ASSUME TypeInv, DlNext, UNCHANGED smtpVars
  PROVE  (StagingTypeOK /\ DlTypeOK /\ SmtpSane /\ SendingSaved)'
<1> USE StagingAssumption
    DEF TypeInv, TypeOK, StagingTypeOK, SmtpTypeOK, DlTypeOK, SmtpSane, SendingSaved,
      tables, history, smtpVars, dlVars, NoFault, Fault, Active, Content, NoRow, Blank
<1> DEFINE Goal == StagingTypeOK /\ DlTypeOK /\ SmtpSane /\ SendingSaved
<1>1. CASE DlCollect
  <2>1. PICK W \in SUBSET SendingRows : dlRcpts' = [id \in StagingIDs |-> {a \in Addrs : <<id, a>> \in W}]
    BY <1>1 DEF DlCollect, Windows
  <2>2. SendingSaved'
    <3>1. ASSUME NEW id \in StagingIDs, dlRcpts'[id] # {} PROVE raw[id] \in Subs
      <4>1. PICK a \in Addrs : <<id, a>> \in W
        BY <2>1, <3>1
      <4> QED
        BY <4>1 DEF SendingRows
    <3> QED
      BY <1>1, <3>1 DEF DlCollect
  <2> QED
    BY <1>1, <2>1, <2>2 DEF DlCollect
<1>2. ASSUME NEW id \in StagingIDs, NEW acc \in SUBSET dlRcpts[id], NEW res \in SUBSET dlRcpts[id],
             NEW ok \in SUBSET dlRcpts[id], SendResult(id, acc, res, ok), faults' \in 0..MaxFaults
      PROVE  Goal'
  <2>1. raw[id] \in Subs
    BY <1>2 DEF SendResult
  <2>2. sent' \subseteq Subs \X Addrs
    BY <1>2, <2>1 DEF SendResult
  <2> QED
    BY <1>2, <2>2 DEF SendResult
<1>3. ASSUME NEW id \in StagingIDs, DlSend(id) PROVE Goal'
  BY <1>2, <1>3 DEF DlSend
<1>4. ASSUME NEW id \in StagingIDs, DlSendFails(id) PROVE Goal'
  <2>1. PICK acc \in SUBSET dlRcpts[id], res \in SUBSET dlRcpts[id], ok \in SUBSET dlRcpts[id] :
               SendResult(id, acc, res, ok)
    BY <1>4 DEF DlSendFails
  <2>2. faults' \in 0..MaxFaults
    BY <1>4 DEF DlSendFails
  <2> QED
    BY <1>2, <2>1, <2>2
<1>5. ASSUME NEW id \in StagingIDs, NEW a \in Addrs, DlLogResult(id, a) PROVE Goal'
  BY <1>5 DEF DlLogResult
<1>6. ASSUME NEW id \in StagingIDs, NEW a \in Addrs, DlMarkDone(id, a) PROVE Goal'
  BY <1>6 DEF DlMarkDone, SetState, DeliveryState, AnyState
<1>7. ASSUME NEW id \in StagingIDs, DlRecordFails(id) PROVE Goal'
  BY <1>7 DEF DlRecordFails
<1>8. CASE DlStop
  BY <1>8 DEF DlStop
<1>9. CASE DlReject
  BY <1>9 DEF DlReject
<1> QED
  BY <1>1, <1>3, <1>4, <1>5, <1>6, <1>7, <1>8, <1>9 DEF DlNext, DlMessage, DlScan

\* The types hold in the empty databases of a new server.
LEMMA InitType == Init => TypeInv
BY StagingAssumption
   DEF Init, StagingInit, SmtpInit, ProcInit, LsInit, DlInit, TypeInv, TypeOK, StagingTypeOK,
     SmtpTypeOK, ProcTypeOK, LsTypeOK, DlTypeOK, SmtpSane, SendingSaved, Active, NoRecipients, Nobody,
     SmtpPcs, DeliveryState, Content, NoRow, Blank

\* Every step of the pipeline, a crash included, keeps the types.
LEMMA NextType == TypeInv /\ [Next]_vars => TypeInv'
<1> SUFFICES ASSUME TypeInv, [Next]_vars PROVE TypeInv'
  OBVIOUS
<1>1. ASSUME NEW s \in Sessions, SmtpStep(s) PROVE TypeInv'
  BY <1>1, SmtpType
  DEF SmtpStep, TypeInv, TypeOK, ProcTypeOK, LsTypeOK, DlTypeOK, procVars, lsVars, boxVars, dlVars
<1>2. CASE ProcStep
  BY <1>2, ProcType
  DEF ProcStep, TypeInv, TypeOK, SmtpTypeOK, LsTypeOK, DlTypeOK, smtpVars, lsVars, boxVars, dlVars
<1>3. CASE LsStep
  BY <1>3, LsType
  DEF LsStep, TypeInv, TypeOK, SmtpTypeOK, ProcTypeOK, DlTypeOK, smtpVars, procVars, dlVars
<1>4. CASE DlStep
  BY <1>4, DlType
  DEF DlStep, TypeInv, TypeOK, SmtpTypeOK, ProcTypeOK, LsTypeOK, smtpVars, procVars, lsVars, boxVars
<1>5. CASE Crash
  <2>1. maxReadyDate' \in Nat
    BY <1>5 DEF Crash, TypeInv, TypeOK, StagingTypeOK
  <2> QED
    BY <1>5, <2>1, StagingAssumption
    DEF Crash, Fault, TypeInv, TypeOK, StagingTypeOK, SmtpTypeOK, ProcTypeOK, LsTypeOK, DlTypeOK,
      SmtpSane, SendingSaved, Active, tables, history, boxVars, Nobody, SmtpPcs
<1>6. CASE UNCHANGED vars
  BY <1>6
  DEF vars, tables, history, smtpVars, procVars, lsVars, boxVars, dlVars, TypeInv, TypeOK,
    StagingTypeOK, SmtpTypeOK, ProcTypeOK, LsTypeOK, DlTypeOK, SmtpSane, SendingSaved, Active
<1> QED
  BY <1>1, <1>2, <1>3, <1>4, <1>5, <1>6 DEF Next

\* The type invariant holds in every reachable state: in particular the
\* deliverer only ever sends bodies that saveMsg has stored completely.
THEOREM TypeCorrect == Spec => []TypeOK
<1>1. TypeInv => TypeOK
  BY DEF TypeInv
<1> QED
  BY <1>1, InitType, NextType, PTL DEF Spec

-----------------------------------------------------------------------------
(***************************************************************************)
(* PART 2.  What MailPipeline promises about the mail itself, whatever     *)
(* fails: stored bodies do not change, a mailbox gets a mail at most once, *)
(* the dates grow, and only authenticated users have mail relayed.         *)
(***************************************************************************)

(***************************************************************************)
(* Bodies.                                                                 *)
(***************************************************************************)
\* Each step of an SMTP session keeps RawInv and replaces no body in MsgRaw.
LEMMA SmtpRaw ==
  ASSUME TypeInv, RawInv, NEW s \in Sessions, SmtpSession(s)
  PROVE  RawInv' /\ \A id \in StagingIDs : raw[id] \in Subs => raw'[id] = raw[id]
<1> USE StagingAssumption DEF TypeInv, TypeOK, StagingTypeOK, SmtpTypeOK, SmtpSane,
      tables, history, smtpVars, At, Goto, Forget,
      SmtpPcs, Active, StagingIDs, Subs, Content, NoRow, Blank
<1> DEFINE Later == {"data", "removeRcpts", "removeRow", "none", "localDone"}
           Kept  == \A id \in StagingIDs : raw[id] \in Subs => raw'[id] = raw[id]
<1>1. ASSUME UNCHANGED <<raw, full, nsub>>, Active(s), NEW pc \in Later,
             smtpPc' = [smtpPc EXCEPT ![s] = pc],
             pc # "none" => UNCHANGED <<smtpID, smtpSub>>,
             \A t \in Sessions \ {s} : smtpID'[t] = smtpID[t] /\ smtpSub'[t] = smtpSub[t],
             pc = "data" => smtpPc[s] = "envelope",
             pc = "localDone" => smtpPc[s] = "rawBody"
      PROVE  RawInv'
  <2>1. \A t \in Sessions : smtpPc'[t] # "none" =>
          smtpPc[t] # "none" /\ smtpSub'[t] = smtpSub[t] /\ smtpID'[t] = smtpID[t]
    BY <1>1
  <2>2. \A t \in Sessions :
          /\ smtpPc'[t] \in {"envelope", "data", "rawRow"} => smtpPc[t] \in {"envelope", "data", "rawRow"}
          /\ smtpPc'[t] = "rawRow" => smtpPc[t] = "rawRow"
          /\ smtpPc'[t] \in {"rawBody", "localDone"} => smtpPc[t] \in {"rawBody", "localDone"}
    BY <1>1
  <2>3. SubInv'
    <3>1. \A t \in Sessions : Active(t)' => smtpSub'[t] <= nsub'
      BY <1>1, <2>1 DEF RawInv, SubInv
    <3>2. \A t, v \in Sessions : Active(t)' /\ Active(v)' /\ smtpSub'[t] = smtpSub'[v] => t = v
      BY <2>1 DEF RawInv, SubInv
    <3>3. \A t \in Sessions : smtpPc'[t] \in {"envelope", "data", "rawRow"} =>
            \A id \in StagingIDs : raw'[id] # smtpSub'[t]
      BY <1>1, <2>1, <2>2 DEF RawInv, SubInv
    <3> QED
      BY <3>1, <3>2, <3>3 DEF SubInv
  <2>4. RowInv'
    <3>1. \A t, v \in Sessions :
            smtpPc'[t] = "rawRow" /\ smtpPc'[v] = "rawRow" /\ smtpID'[t] = smtpID'[v] => t = v
      BY <2>1, <2>2 DEF RawInv, RowInv
    <3>2. \A t \in Sessions : smtpPc'[t] = "rawRow" => raw'[smtpID'[t]] = Blank
      BY <1>1, <2>1, <2>2 DEF RawInv, RowInv
    <3>3. \A t \in Sessions : smtpPc'[t] \in {"rawBody", "localDone"} => raw'[smtpID'[t]] = smtpSub'[t]
      BY <1>1, <2>1, <2>2 DEF RawInv, RowInv
    <3> QED
      BY <3>1, <3>2, <3>3 DEF RowInv
  <2>5. StoreInv'
    BY <1>1 DEF RawInv, StoreInv
  <2> QED
    BY <2>3, <2>4, <2>5 DEF RawInv
<1>2. ASSUME NEW auth \in BOOLEAN, NewMessage(s, auth) PROVE RawInv' /\ Kept
  <2>1. PICK new \in StagingIDs : smtpID' = [smtpID EXCEPT ![s] = new]
    BY <1>2 DEF NewMessage
  <2>2. /\ smtpPc' = [smtpPc EXCEPT ![s] = "envelope"]
        /\ smtpSub' = [smtpSub EXCEPT ![s] = nsub + 1]
        /\ nsub' = nsub + 1
        /\ nsub \in Nat
        /\ UNCHANGED <<raw, full>>
    BY <1>2 DEF NewMessage
  <2>3. SubInv'
    <3>1. \A t \in Sessions \ {s} : smtpPc'[t] = smtpPc[t] /\ smtpSub'[t] = smtpSub[t]
      BY <2>2
    <3>2. smtpSub'[s] = nsub + 1
      BY <2>2
    <3>3. \A t \in Sessions : Active(t)' => smtpSub'[t] <= nsub'
      BY <2>2, <3>1, <3>2 DEF RawInv, SubInv
    <3>4. \A t \in Sessions \ {s} : Active(t) => smtpSub[t] # nsub + 1
      BY <2>2 DEF RawInv, SubInv
    <3>5. \A t, v \in Sessions : Active(t)' /\ Active(v)' /\ smtpSub'[t] = smtpSub'[v] => t = v
      BY <3>1, <3>2, <3>4 DEF RawInv, SubInv
    <3>6. \A id \in StagingIDs : raw[id] # nsub + 1
      BY <2>2 DEF RawInv, StoreInv
    <3>7. \A t \in Sessions : smtpPc'[t] \in {"envelope", "data", "rawRow"} =>
            \A id \in StagingIDs : raw'[id] # smtpSub'[t]
      BY <2>2, <3>1, <3>2, <3>6 DEF RawInv, SubInv
    <3> QED
      BY <3>3, <3>5, <3>7 DEF SubInv
  <2>4. RowInv'
    BY <2>1, <2>2 DEF RawInv, RowInv
  <2>5. StoreInv'
    <3>1. \A id \in StagingIDs : raw[id] \in Int /\ raw[id] <= nsub
      BY DEF RawInv, StoreInv
    <3>2. \A id \in StagingIDs : raw'[id] <= nsub'
      BY <2>2, <3>1
    <3> QED
      BY <2>2, <3>2 DEF RawInv, StoreInv
  <2> QED
    BY <2>2, <2>3, <2>4, <2>5 DEF RawInv
<1>3. ASSUME NEW a \in Addrs, AddRecipient(s, a) PROVE RawInv' /\ Kept
  BY <1>3 DEF AddRecipient, RawInv, SubInv, RowInv, StoreInv
<1>4. CASE Write(s)
  BY <1>1, <1>4 DEF Write
<1>5. CASE Cancel(s)
  BY <1>1, <1>5 DEF Cancel
<1>6. CASE CloseEarly(s)
  BY <1>1, <1>6 DEF CloseEarly
<1>7. CASE CloseInsertRaw(s)
  <2>1. CASE raw[smtpID[s]] = NoRow
    <3>1. raw' = [raw EXCEPT ![smtpID[s]] = Blank] /\ Goto(s, "rawRow")
      BY <1>7, <2>1 DEF CloseInsertRaw
    <3>2. UNCHANGED <<full, nsub>> /\ smtpPc[s] = "data"
      BY <1>7 DEF CloseInsertRaw
    <3>3. SubInv'
      BY <2>1, <3>1, <3>2 DEF RawInv, SubInv
    <3>4. RowInv'
      <4>1. \A t \in Sessions \ {s} : smtpPc'[t] = smtpPc[t]
        BY <3>1
      <4>2. \A t \in Sessions \ {s} : smtpPc[t] \in {"rawRow", "rawBody", "localDone"} =>
              smtpID[t] \in StagingIDs /\ smtpID[t] # smtpID[s]
        BY <2>1 DEF RawInv, RowInv
      <4>3. smtpID[s] \in StagingIDs /\ raw'[smtpID[s]] = Blank
        BY <3>1, <3>2
      <4>4. \A t \in Sessions \ {s} : smtpPc[t] \in {"rawRow", "rawBody", "localDone"} =>
              raw'[smtpID[t]] = raw[smtpID[t]]
        BY <3>1, <4>2
      <4>5. \A t, v \in Sessions :
              smtpPc'[t] = "rawRow" /\ smtpPc'[v] = "rawRow" /\ smtpID'[t] = smtpID'[v] => t = v
        BY <3>1, <4>1, <4>2 DEF RawInv, RowInv
      <4>6. \A t \in Sessions : smtpPc'[t] = "rawRow" => raw'[smtpID'[t]] = Blank
        BY <3>1, <4>1, <4>3, <4>4 DEF RawInv, RowInv
      <4>7. \A t \in Sessions : smtpPc'[t] \in {"rawBody", "localDone"} => raw'[smtpID'[t]] = smtpSub'[t]
        BY <3>1, <4>1, <4>4 DEF RawInv, RowInv
      <4> QED
        BY <4>5, <4>6, <4>7 DEF RowInv
    <3>5. StoreInv'
      BY <2>1, <3>1, <3>2 DEF RawInv, StoreInv
    <3>6. Kept
      BY <2>1, <3>1
    <3> QED
      BY <3>3, <3>4, <3>5, <3>6 DEF RawInv
  <2>2. CASE raw[smtpID[s]] # NoRow
    BY <1>1, <1>7, <2>2 DEF CloseInsertRaw
  <2> QED
    BY <2>1, <2>2
<1>8. CASE CloseWriteRaw(s)
  <2>1. raw' = [raw EXCEPT ![smtpID[s]] = smtpSub[s]] /\ Goto(s, "rawBody")
    BY <1>8 DEF CloseWriteRaw
  <2>2. UNCHANGED <<full, nsub>> /\ smtpPc[s] = "rawRow"
    BY <1>8 DEF CloseWriteRaw
  <2>3. /\ \A t \in Sessions \ {s} : smtpPc'[t] = smtpPc[t]
        /\ smtpID[s] \in StagingIDs
        /\ smtpSub[s] \in Subs /\ smtpSub[s] <= nsub
        /\ raw[smtpID[s]] = Blank
        /\ raw'[smtpID[s]] = smtpSub[s]
        /\ \A id \in StagingIDs \ {smtpID[s]} : raw'[id] = raw[id]
    BY <2>1, <2>2 DEF RawInv, SubInv, RowInv
  <2>4. SubInv'
    <3>1. \A t \in Sessions : Active(t)' => Active(t)
      BY <2>2, <2>3
    <3>2. \A t \in Sessions : Active(t)' => smtpSub'[t] <= nsub'
      BY <2>1, <2>2, <3>1 DEF RawInv, SubInv
    <3>3. \A t, v \in Sessions : Active(t)' /\ Active(v)' /\ smtpSub'[t] = smtpSub'[v] => t = v
      BY <2>1, <3>1 DEF RawInv, SubInv
    <3>4. \A t \in Sessions \ {s} : Active(t) => smtpSub[t] # smtpSub[s]
      BY <2>2 DEF RawInv, SubInv
    <3>5. \A t \in Sessions : smtpPc'[t] \in {"envelope", "data", "rawRow"} =>
            \A id \in StagingIDs : raw'[id] # smtpSub'[t]
      BY <2>1, <2>3, <3>4 DEF RawInv, SubInv
    <3> QED
      BY <3>2, <3>3, <3>5 DEF SubInv
  <2>5. RowInv'
    <3>1. \A t \in Sessions \ {s} : smtpPc[t] \in {"rawRow", "rawBody", "localDone"} =>
            smtpID[t] \in StagingIDs \ {smtpID[s]}
      BY <2>2, <2>3 DEF RawInv, RowInv
    <3>2. \A t, v \in Sessions :
            smtpPc'[t] = "rawRow" /\ smtpPc'[v] = "rawRow" /\ smtpID'[t] = smtpID'[v] => t = v
      BY <2>1, <2>3 DEF RawInv, RowInv
    <3>3. \A t \in Sessions : smtpPc'[t] = "rawRow" => raw'[smtpID'[t]] = Blank
      BY <2>1, <2>3, <3>1 DEF RawInv, RowInv
    <3>4. \A t \in Sessions : smtpPc'[t] \in {"rawBody", "localDone"} => raw'[smtpID'[t]] = smtpSub'[t]
      BY <2>1, <2>3, <3>1 DEF RawInv, RowInv
    <3> QED
      BY <3>2, <3>3, <3>4 DEF RowInv
  <2>6. StoreInv'
    <3>1. \A id \in StagingIDs : raw[id] # smtpSub[s]
      BY <2>2 DEF RawInv, SubInv
    <3>2. \A id \in StagingIDs : full[id] \in Subs => id # smtpID[s]
      BY <2>3 DEF RawInv, StoreInv
    <3>3. \A id \in StagingIDs : raw'[id] <= nsub'
      BY <2>2, <2>3 DEF RawInv, StoreInv
    <3>4. ASSUME NEW i \in StagingIDs, NEW j \in StagingIDs, raw'[i] \in Subs, raw'[i] = raw'[j] PROVE i = j
      <4>1. CASE i = smtpID[s] \/ j = smtpID[s]
        BY <2>3, <3>1, <3>4, <4>1
      <4>2. CASE i # smtpID[s] /\ j # smtpID[s]
        BY <2>3, <3>4, <4>2 DEF RawInv, StoreInv
      <4> QED
        BY <4>1, <4>2
    <3>5. \A id \in StagingIDs : full[id] \in Subs => full[id] = raw[id] /\ raw'[id] = raw[id]
      BY <2>3, <3>2 DEF RawInv, StoreInv
    <3>6. \A id \in StagingIDs : full'[id] \in Subs => full'[id] = raw'[id]
      BY <2>2, <3>5
    <3> QED
      BY <3>3, <3>4, <3>6 DEF StoreInv
  <2>7. Kept
    BY <2>3
  <2> QED
    BY <2>4, <2>5, <2>6, <2>7 DEF RawInv
<1>9. CASE CloseSaveFails(s)
  BY <1>1, <1>9 DEF CloseSaveFails
<1>10. CASE CloseUnauth(s)
  BY <1>1, <1>10 DEF CloseUnauth, Acknowledge
<1>11. CASE CloseLocal(s)
  BY <1>1, <1>11 DEF CloseLocal
<1>12. CASE CloseRemote(s)
  BY <1>1, <1>12 DEF CloseRemote, Acknowledge
<1>13. CASE CloseRemoteFails(s)
  BY <1>1, <1>13 DEF CloseRemoteFails
<1>14. CASE RemoveRecipients(s)
  BY <1>1, <1>14 DEF RemoveRecipients
<1>15. CASE RemoveRow(s)
  BY <1>1, <1>15 DEF RemoveRow
<1>16. CASE RemoveFails(s)
  BY <1>1, <1>16 DEF RemoveFails
<1> QED
  BY <1>2, <1>3, <1>4, <1>5, <1>6, <1>7, <1>8, <1>9, <1>10, <1>11, <1>12, <1>13, <1>14, <1>15, <1>16
  DEF SmtpSession

\* Every step of the pipeline does: only saveMsg writes MsgRaw, only
\* processSave writes MsgFull.
LEMMA NextRaw ==
  ASSUME TypeInv, RawInv, [Next]_vars
  PROVE  RawInv' /\ \A id \in StagingIDs : raw[id] \in Subs => raw'[id] = raw[id]
<1>1. ASSUME NEW s \in Sessions, SmtpStep(s)
      PROVE  RawInv' /\ \A id \in StagingIDs : raw[id] \in Subs => raw'[id] = raw[id]
  BY <1>1, SmtpRaw DEF SmtpStep
<1>2. ASSUME NEW id \in StagingIDs, NEW now \in Clock, ProcSave(id, now), UNCHANGED smtpVars
      PROVE  RawInv' /\ UNCHANGED raw
  BY <1>2 DEF ProcSave, history, smtpVars, RawInv, SubInv, RowInv, StoreInv, Active, TypeInv, TypeOK,
              StagingTypeOK, SmtpTypeOK, SmtpSane
<1>3. ASSUME UNCHANGED <<smtpVars, raw, full, nsub>> PROVE RawInv'
  BY <1>3 DEF smtpVars, RawInv, SubInv, RowInv, StoreInv, Active
<1>4. CASE ProcStep
  BY <1>2, <1>3, <1>4
  DEF ProcStep, ProcNext, ProcMessage, ProcCollect, ProcReject, ProcError, ProcStop, tables, history
<1>5. CASE LsStep
  BY <1>3, <1>5
  DEF LsStep, LsNext, LsUser, LsCollect, LsCollectMsgs, LsStore, LsSkip, LsSetSent, LsFinish, LsError, LsOpenFails,
    LsStop, tables, history
<1>6. CASE DlStep
  BY <1>3, <1>6
  DEF DlStep, DlNext, DlMessage, DlScan, DlReject, DlCollect, DlSend, DlSendFails, SendResult, DlLogResult, DlMarkDone,
    DlRecordFails, DlStop, tables, history
<1>7. CASE Crash
  BY <1>7 DEF Crash, tables, history, RawInv, SubInv, RowInv, StoreInv, Active, TypeInv, TypeOK, SmtpTypeOK
<1>8. CASE UNCHANGED vars
  BY <1>3, <1>8 DEF vars, tables, history
<1> QED
  BY <1>1, <1>4, <1>5, <1>6, <1>7, <1>8 DEF Next

\* RawInv holds of empty tables.
LEMMA InitRaw == Init => RawInv
BY StagingAssumption
   DEF Init, StagingInit, SmtpInit, RawInv, SubInv, RowInv, StoreInv, Active, NoRow, Subs

\* Whose body a row of MsgRaw holds, and that no other row holds it, at every
\* moment of every Close, failed or not (saveMsg, processSave).
THEOREM RawInvariant == Spec => [](TypeInv /\ RawInv)
<1>1. Init => TypeInv /\ RawInv
  BY InitType, InitRaw
<1>2. TypeInv /\ RawInv /\ [Next]_vars => (TypeInv /\ RawInv)'
  BY NextType, NextRaw
<1> QED
  BY <1>1, <1>2, PTL DEF Spec

\* MsgRaw is written once: no later message, with the same StagingID or with
\* another, replaces a stored body.
THEOREM RawNeverReplaced == Spec => RawImmutable
<1>1. TypeInv /\ RawInv /\ [Next]_vars
        => [\A id \in StagingIDs : raw[id] \in Subs => raw'[id] = raw[id]]_raw
  BY NextRaw
<1> QED
  BY <1>1, RawInvariant, PTL DEF Spec, RawImmutable

(***************************************************************************)
(* Mailboxes.                                                              *)
(***************************************************************************)
\* Only the local sender (sendMsg) adds to a box, and only what is not there.
LEMMA NextBox ==
  ASSUME TypeInv, RawInv, BoxInv, [Next]_vars
  PROVE  BoxInv'
<1>0. \A id \in StagingIDs : raw[id] \in Subs => raw'[id] = raw[id]
  BY NextRaw
<1>1. ASSUME UNCHANGED boxVars PROVE BoxInv'
  BY <1>0, <1>1 DEF boxVars, BoxInv, TypeInv, TypeOK, LsTypeOK
<1>2. ASSUME NEW u \in Users, NEW r \in lsRows[u], LsStore(u, r) PROVE BoxInv'
  <2> DEFINE id == r[1]
             b  == full[id]
  <2>1. id \in StagingIDs /\ b \in Subs /\ raw[id] = b /\ id \notin boxIDs[u]
    BY <1>2 DEF LsStore, CanStore, RawInv, StoreInv, TypeInv, TypeOK, LsTypeOK
  <2>2. copies[u][b] = 0
    <3> HIDE DEF b
    <3>0. copies[u][b] \in Nat /\ copies[u][b] <= 1
      BY <2>1 DEF BoxInv, TypeInv, TypeOK, LsTypeOK
    <3>1. copies[u][b] \in {0, 1}
      BY <3>0
    <3>2. ASSUME copies[u][b] = 1 PROVE FALSE
      <4>1. PICK i \in boxIDs[u] : raw[i] = b
        BY <2>1, <3>2 DEF BoxInv
      <4>2. i \in StagingIDs
        BY DEF TypeInv, TypeOK, LsTypeOK
      <4> QED
        BY <2>1, <4>1, <4>2 DEF RawInv, StoreInv
    <3> QED
      BY <3>1, <3>2
  <2>3. /\ copies' = [copies EXCEPT ![u][b] = 1]
        /\ boxIDs' = [boxIDs EXCEPT ![u] = @ \cup {id}]
        /\ UNCHANGED raw
    BY <1>2, <2>2 DEF LsStore, tables
  <2> QED
    BY <2>1, <2>3 DEF BoxInv, TypeInv, TypeOK, LsTypeOK
<1>3. CASE LsStep
  BY <1>1, <1>2, <1>3
  DEF LsStep, LsNext, LsUser, LsCollect, LsCollectMsgs, LsSkip, LsSetSent, LsFinish, LsError, LsOpenFails, LsStop
<1> QED
  BY <1>1, <1>3 DEF Next, SmtpStep, ProcStep, DlStep, Crash, vars

\* No mailbox ever holds a mail twice: not after an error or a crash between
\* the two commits of sendMsg, nor when several of the user's addresses are
\* recipients, nor when the StagingID of a removed message is used again.
THEOREM StoredAtMostOnce == Spec => []AtMostOnce
<1>1. Init => BoxInv
  BY DEF Init, LsInit, BoxInv
<1>2. TypeInv /\ RawInv /\ BoxInv /\ [Next]_vars => BoxInv'
  BY NextBox
<1>3. BoxInv => AtMostOnce
  BY DEF BoxInv, AtMostOnce
<1> QED
  BY <1>1, <1>2, <1>3, RawInvariant, PTL DEF Spec

(***************************************************************************)
(* Dates.                                                                  *)
(***************************************************************************)
\* Only processSave dates a row, later than all; removeMsg and restarts do not
\* bring an old date back.
LEMMA NextDate ==
  ASSUME TypeInv, DateInv, [Next]_vars
  PROVE  /\ DateInv'
         /\ \A id \in StagingIDs : readyDate'[id] \notin {0, readyDate[id]} =>
              \A other \in StagingIDs : readyDate[other] < readyDate'[id]
<1> USE DEF TypeInv, TypeOK, StagingTypeOK, ProcTypeOK
<1> DEFINE Grows == \A id \in StagingIDs : readyDate'[id] \notin {0, readyDate[id]} =>
                      \A other \in StagingIDs : readyDate[other] < readyDate'[id]
<1>1. ASSUME UNCHANGED <<msgs, readyDate, maxReadyDate>> PROVE DateInv' /\ Grows
  BY <1>1 DEF DateInv
<1>2. ASSUME NEW now \in Clock PROVE NextReadyDate(now) \in Nat /\ NextReadyDate(now) > maxReadyDate
  BY ProcessorAssumption DEF NextReadyDate, Clock
<1>3. ASSUME NEW s \in Sessions, SmtpStep(s) PROVE DateInv' /\ Grows
  <2>1. CASE \E auth \in BOOLEAN : NewMessage(s, auth)
    <3>1. PICK id \in StagingIDs : msgs' = msgs \cup {id}
      BY <2>1 DEF NewMessage
    <3>2. UNCHANGED <<readyDate, maxReadyDate>>
      BY <1>3, <2>1 DEF NewMessage, SmtpStep, procVars
    <3> QED
      BY <3>1, <3>2 DEF DateInv
  <2>2. CASE RemoveRow(s)
    <3>1. /\ msgs' = msgs \ {smtpID[s]}
          /\ readyDate' = [readyDate EXCEPT ![smtpID[s]] = 0]
          /\ UNCHANGED maxReadyDate
      BY <1>3, <2>2 DEF RemoveRow, SmtpStep, procVars
    <3> QED
      BY <3>1 DEF DateInv
  <2>3. CASE UNCHANGED <<msgs, readyDate>>
    BY <1>1, <1>3, <2>3 DEF SmtpStep, procVars
  <2> QED
    BY <1>3, <2>1, <2>2, <2>3
    DEF SmtpStep, SmtpSession, AddRecipient, Write, Cancel, CloseEarly, CloseInsertRaw, CloseWriteRaw,
      CloseSaveFails, CloseUnauth, CloseLocal, CloseRemote, CloseRemoteFails, RemoveRecipients,
      RemoveFails, tables
<1>4. ASSUME NEW id \in StagingIDs, NEW now \in Clock, ProcSave(id, now) PROVE DateInv' /\ Grows
  <2>1. maxReadyDate' \in Nat /\ maxReadyDate' > maxReadyDate /\ UNCHANGED msgs
    BY <1>2, <1>4 DEF ProcSave
  <2>2. CASE id \in msgs
    BY <1>4, <2>1, <2>2 DEF ProcSave, DateInv
  <2>3. CASE id \notin msgs
    BY <1>4, <2>1, <2>3 DEF ProcSave, DateInv
  <2> QED
    BY <2>2, <2>3
<1>5. ASSUME NEW id \in StagingIDs, ProcError(id) PROVE DateInv' /\ Grows
  <2>1. maxReadyDate' \in Nat /\ maxReadyDate' >= maxReadyDate
    BY <1>2, <1>5 DEF ProcError
  <2>2. UNCHANGED <<msgs, readyDate>>
    BY <1>5 DEF ProcError, tables
  <2> QED
    BY <2>1, <2>2 DEF DateInv
<1>6. CASE ProcStep
  BY <1>1, <1>4, <1>5, <1>6
  DEF ProcStep, ProcNext, ProcMessage, ProcCollect, ProcReject, ProcStop, tables, procVars
<1>7. CASE LsStep
  BY <1>1, <1>7
  DEF LsStep, LsNext, LsUser, LsCollect, LsCollectMsgs, LsStore, LsSkip, LsSetSent, LsFinish, LsError, LsOpenFails,
    LsStop, tables, procVars
<1>8. CASE DlStep
  BY <1>1, <1>8
  DEF DlStep, DlNext, DlMessage, DlScan, DlReject, DlCollect, DlSend, DlSendFails, SendResult, DlLogResult, DlMarkDone,
    DlRecordFails, DlStop, tables, procVars
<1>9. CASE Crash
  <2>1. /\ UNCHANGED <<msgs, readyDate>>
        /\ maxReadyDate' \in Nat
        /\ \A id \in msgs : readyDate[id] <= maxReadyDate'
    BY <1>9 DEF Crash, IsMaxReadyDate, tables
  <2> QED
    BY <2>1 DEF DateInv
<1>10. CASE UNCHANGED vars
  BY <1>1, <1>10 DEF vars, tables, procVars
<1> QED
  BY <1>3, <1>6, <1>7, <1>8, <1>9, <1>10 DEF Next

\* Each message is dated later than all that were dated before it, even when
\* the clock stands still or goes back, when processSave fails, and after a
\* restart.
THEOREM ReadyDatesGrow == Spec => ReadyDateGrows
<1>1. Init => DateInv
  BY DEF Init, StagingInit, ProcInit, DateInv
<1>2. TypeInv /\ DateInv /\ [Next]_vars => DateInv'
  BY NextDate
<1>3. TypeInv /\ DateInv /\ [Next]_vars =>
        [\A id \in StagingIDs : readyDate'[id] \notin {0, readyDate[id]} =>
           \A other \in StagingIDs : readyDate[other] < readyDate'[id]]_readyDate
  BY NextDate
<1> QED
  BY <1>1, <1>2, <1>3, InitType, NextType, PTL DEF Spec, ReadyDateGrows

(***************************************************************************)
(* Relaying.                                                               *)
(***************************************************************************)
\* Only Close of an authenticated submission makes a recipient Sending, and the
\* deliverer sends to no other.
LEMMA NextRelay ==
  ASSUME TypeInv, RawInv, RelayInv, [Next]_vars
  PROVE  RelayInv'
<1> USE DEF TypeInv, TypeOK, StagingTypeOK, SmtpTypeOK, DlTypeOK
<1> DEFINE Outgoing(id) == dlRcpts[id] # {} \/ \E a \in Addrs : recips[id][a] = "Sending"
<1>0. \A id \in StagingIDs : raw[id] \in Subs => raw'[id] = raw[id]
  BY NextRaw
<1>1. ASSUME UNCHANGED <<nsub, authOf, sent>>,
             \A id \in StagingIDs : Outgoing(id)' => Outgoing(id),
             \A s \in Sessions : smtpPc'[s] = "localDone" => smtpPc[s] = "localDone" /\ smtpSub'[s] = smtpSub[s]
      PROVE  RelayInv'
  BY <1>0, <1>1 DEF RelayInv, SendingSaved
<1>2. ASSUME NEW s \in Sessions, SmtpSession(s), UNCHANGED dlVars PROVE RelayInv'
  <2> USE DEF At, Goto, Forget, dlVars, history
  <2>1. ASSUME NEW auth \in BOOLEAN, NewMessage(s, auth) PROVE RelayInv'
    <3>1. /\ nsub \in Nat /\ nsub' = nsub + 1 /\ nsub + 1 \in Subs
          /\ authOf' = [authOf EXCEPT ![nsub + 1] = auth]
          /\ smtpPc' = [smtpPc EXCEPT ![s] = "envelope"]
          /\ smtpSub' = [smtpSub EXCEPT ![s] = nsub + 1]
          /\ UNCHANGED <<recips, raw, dlRcpts, sent>>
      BY <1>2, <2>1, StagingAssumption DEF NewMessage, Subs
    <3>2. \A b \in Subs : b <= nsub => authOf'[b] = authOf[b]
      BY <3>1 DEF Subs
    <3>3. ASSUME NEW t \in Sessions, smtpPc'[t] = "localDone" PROVE authOf'[smtpSub'[t]]
      BY <3>1, <3>2, <3>3 DEF RelayInv, RawInv, SubInv, SmtpSane, Active
    <3>4. ASSUME NEW id \in StagingIDs, Outgoing(id) PROVE authOf'[raw[id]]
      BY <3>2, <3>4 DEF RelayInv, SendingSaved, RawInv, StoreInv
    <3>5. ASSUME NEW d \in sent PROVE d[1] <= nsub' /\ authOf'[d[1]]
      <4>1. d[1] \in Subs /\ d[1] \in Nat /\ d[1] <= nsub
        BY DEF RelayInv, Subs
      <4> QED
        BY <3>1, <3>2, <4>1 DEF RelayInv
    <3> QED
      BY <3>1, <3>3, <3>4, <3>5 DEF RelayInv
  <2>2. CASE CloseLocal(s)
    <3>1. /\ smtpPc' = [smtpPc EXCEPT ![s] = "localDone"]
          /\ UNCHANGED <<smtpSub, raw, nsub, authOf, sent, dlRcpts>>
          /\ authOf[smtpSub[s]]
      BY <1>2, <2>2 DEF CloseLocal, IsAuth
    <3>2. \A id \in StagingIDs : Outgoing(id)' => Outgoing(id)
      BY <1>2, <2>2 DEF CloseLocal, SetState
    <3> QED
      BY <3>1, <3>2 DEF RelayInv
  <2>3. CASE CloseRemote(s)
    <3>1. /\ smtpPc[s] = "localDone" /\ smtpID[s] \in StagingIDs
          /\ smtpPc' = [smtpPc EXCEPT ![s] = "none"]
          /\ smtpSub' = [smtpSub EXCEPT ![s] = 0]
          /\ UNCHANGED <<raw, nsub, authOf, sent, dlRcpts>>
      BY <1>2, <2>3 DEF CloseRemote, Acknowledge, SmtpSane, Active
    <3>2. \A id \in StagingIDs \ {smtpID[s]} : Outgoing(id)' => Outgoing(id)
      BY <1>2, <2>3, <3>1 DEF CloseRemote, SetState
    <3>3. authOf[raw[smtpID[s]]]
      BY <3>1 DEF RelayInv, RawInv, RowInv
    <3> QED
      BY <3>1, <3>2, <3>3 DEF RelayInv
  <2>4. ASSUME UNCHANGED <<nsub, authOf, sent, recips>>, NEW pc \in SmtpPcs \ {"localDone"},
               smtpPc' = [smtpPc EXCEPT ![s] = pc],
               \A t \in Sessions \ {s} : smtpSub'[t] = smtpSub[t]
        PROVE  RelayInv'
    BY <1>1, <1>2, <2>4
  <2>5. CASE \E a \in Addrs : AddRecipient(s, a)
    <3>1. PICK a \in Addrs : AddRecipient(s, a)
      BY <2>5
    <3>2. \A id \in StagingIDs : Outgoing(id)' => Outgoing(id)
      BY <1>2, <3>1 DEF AddRecipient, SmtpSane, Active
    <3> QED
      BY <1>1, <3>1, <3>2 DEF AddRecipient, smtpVars
  <2>6. CASE CloseUnauth(s)
    <3>1. \A id \in StagingIDs : Outgoing(id)' => Outgoing(id)
      BY <1>2, <2>6 DEF CloseUnauth, SetState
    <3> QED
      BY <1>1, <2>6, <3>1 DEF CloseUnauth, Acknowledge
  <2>7. CASE RemoveRecipients(s)
    <3>1. \A id \in StagingIDs : Outgoing(id)' => Outgoing(id)
      BY <1>2, <2>7 DEF RemoveRecipients, NoRecipients
    <3> QED
      BY <1>1, <2>7, <3>1 DEF RemoveRecipients
  <2> QED
    BY <1>2, <2>1, <2>2, <2>3, <2>4, <2>5, <2>6, <2>7
    DEF SmtpSession, Write, Cancel, CloseEarly, CloseInsertRaw, CloseWriteRaw, CloseSaveFails,
      CloseRemoteFails, RemoveRow, RemoveFails, SmtpPcs, tables
<1>3. ASSUME UNCHANGED <<nsub, authOf, sent, smtpVars, dlRcpts>>, NEW id \in StagingIDs,
             NEW who, NEW from, NEW to \in {"Received", "Done"}, SetState(id, who, from, to)
      PROVE  RelayInv'
  <2>1. \A i \in StagingIDs : Outgoing(i)' => Outgoing(i)
    BY <1>3 DEF SetState
  <2> QED
    BY <1>1, <1>3, <2>1 DEF smtpVars
<1>4. ASSUME UNCHANGED <<nsub, authOf, sent, smtpVars, dlRcpts, recips>> PROVE RelayInv'
  BY <1>1, <1>4 DEF smtpVars
<1>5. CASE ProcStep
  BY <1>3, <1>4, <1>5
  DEF ProcStep, ProcNext, ProcMessage, ProcCollect, ProcSave, ProcReject, ProcError, ProcStop, tables,
    history, dlVars
<1>6. CASE LsStep
  <2>1. ASSUME NEW u \in Users, LsSetSent(u) PROVE lsCur[u] \in StagingIDs
    BY <2>1 DEF LsSetSent, LsTypeOK, StagingIDs
  <2> QED
    BY <1>3, <1>4, <1>6, <2>1
    DEF LsStep, LsNext, LsUser, LsCollect, LsCollectMsgs, LsStore, LsSkip, LsSetSent, LsFinish, LsError, LsOpenFails,
      LsStop, tables, history, dlVars
<1>7. CASE DlStep
  <2>1. CASE DlCollect
    <3>1. PICK W \in SUBSET SendingRows : dlRcpts' = [id \in StagingIDs |-> {a \in Addrs : <<id, a>> \in W}]
      BY <2>1 DEF DlCollect, Windows
    <3>2. \A id \in StagingIDs : Outgoing(id)' => Outgoing(id)
      BY <2>1, <3>1 DEF DlCollect, SendingRows, tables
    <3> QED
      BY <1>1, <1>7, <2>1, <3>2 DEF DlStep, DlCollect, smtpVars, history
  <2>2. ASSUME NEW id \in StagingIDs, NEW acc \in SUBSET dlRcpts[id], NEW res, NEW ok,
               SendResult(id, acc, res, ok)
        PROVE  RelayInv'
    <3>1. /\ raw[id] \in Subs /\ raw[id] <= nsub /\ authOf[raw[id]]
          /\ sent' = sent \cup {<<raw[id], a>> : a \in acc}
      BY <2>2 DEF SendResult, RelayInv, SendingSaved, RawInv, StoreInv
    <3>2. \A i \in StagingIDs : Outgoing(i)' => Outgoing(i)
      BY <2>2 DEF SendResult, tables
    <3>3. UNCHANGED <<smtpVars, raw, nsub, authOf>>
      BY <1>7, <2>2 DEF DlStep, SendResult, tables
    <3>4. \A d \in sent' : d[1] <= nsub /\ authOf[d[1]]
      BY <3>1 DEF RelayInv
    <3> QED
      BY <3>2, <3>3, <3>4 DEF RelayInv, smtpVars
  <2>3. ASSUME NEW id \in StagingIDs, DlSend(id) PROVE RelayInv'
    BY <2>2, <2>3 DEF DlSend
  <2>4. ASSUME NEW id \in StagingIDs, DlSendFails(id) PROVE RelayInv'
    BY <2>2, <2>4 DEF DlSendFails
  <2> QED
    BY <1>3, <1>4, <1>7, <2>1, <2>3, <2>4
    DEF DlStep, DlNext, DlMessage, DlScan, DlReject, DlLogResult, DlMarkDone, DlRecordFails, DlStop, tables, history, dlVars
<1>8. CASE Crash
  <2>1. \A id \in StagingIDs : Outgoing(id)' => Outgoing(id)
    BY <1>8 DEF Crash, Nobody, tables
  <2> QED
    BY <1>1, <1>8, <2>1 DEF Crash, history
<1>9. CASE UNCHANGED vars
  BY <1>4, <1>9 DEF vars, tables, history, dlVars
<1> QED
  BY <1>2, <1>5, <1>6, <1>7, <1>8, <1>9 DEF Next, SmtpStep

\* Whatever a remote server took, an authenticated user had submitted, although
\* the deliverer reads the recipients' table and not the session, and
\* StagingIDs are used again.
THEOREM OnlyAuthenticatedRelayed == Spec => []NotOpenRelay
<1>1. Init => RelayInv
  BY DEF Init, StagingInit, SmtpInit, DlInit, RelayInv, NoRecipients, Nobody
<1>2. TypeInv /\ RawInv /\ RelayInv /\ [Next]_vars => RelayInv'
  BY NextRelay
<1>3. RelayInv => NotOpenRelay
  BY DEF RelayInv, NotOpenRelay
<1> QED
  BY <1>1, <1>2, <1>3, RawInvariant, PTL DEF Spec

-----------------------------------------------------------------------------
(***************************************************************************)
(* PART 3.  What MailPipeline promises about its queue: an accepted mail   *)
(* is not lost, what is marked done is delivered, what a loop finds it can *)
(* load, and the whole implements MailDelivery.                            *)
(***************************************************************************)

(***************************************************************************)
(* The steps, by what they do to the queue.                                *)
(***************************************************************************)
\* Session s goes on to pc.
Moves(s, pc) ==
  /\ smtpPc' = [smtpPc EXCEPT ![s] = pc]
  /\ \A t \in Sessions : smtpPc'[t] # "none" => smtpID'[t] = smtpID[t] /\ smtpSub'[t] = smtpSub[t]

\* Session s goes on, or is over, and changes no table but MsgRaw.
Turn(s) ==
  /\ UNCHANGED <<msgs, readyDate, recips, full, deliveries, history>>
  /\ Active(s)
  /\ \E pc \in SmtpPcs \ {"envelope", "localDone"} :
       /\ Moves(s, pc)
       /\ pc \in Early => smtpPc[s] \in Early
       /\ smtpPc[s] = "localDone" => "remoteUpdate" \in FaultKinds
       /\ pc = "removeRow" => "cleanup" \in FaultKinds

\* A step of session s.
SmtpChange(s) ==
  /\ UNCHANGED <<procVars, lsVars, boxVars, dlVars>>
  /\ \/ \E auth \in BOOLEAN : NewMessage(s, auth)
     \/ \E a \in Addrs : AddRecipient(s, a)
     \/ Turn(s)
     \/ CloseUnauth(s) \/ CloseLocal(s) \/ CloseRemote(s)
     \/ RemoveRecipients(s) \/ RemoveRow(s)

\* A loop drops some of its work, and changes no table.
Rest ==
  /\ UNCHANGED <<tables, history, boxVars, dlRcpts>>
  /\ procBatch' \subseteq procBatch
  /\ \A u \in Users : lsRows'[u] \subseteq lsRows[u] /\ lsCur'[u] \in {lsCur[u], 0}
  /\ \A id \in StagingIDs :
       /\ dlLog'[id] \subseteq dlLog[id] /\ dlOK'[id] \subseteq dlOK[id]
       /\ dlOK'[id] # {} => dlLog'[id] = dlLog[id]

\* The processor collects or saves.
ProcChange ==
  /\ UNCHANGED <<lsVars, boxVars, dlVars>>
  /\ ProcCollect \/ \E id \in StagingIDs, now \in Clock : ProcSave(id, now)

\* The local sender collects, stores or marks.
LsChange ==
  /\ UNCHANGED <<procVars, dlVars>>
  /\ \E u \in Users : LsCollectMsgs(u) \/ LsSetSent(u) \/ \E r \in lsRows[u] : LsStore(u, r)

\* Client.Send returns, with or without failures.
SendsOff(id) ==
  \E acc, res \in SUBSET dlRcpts[id] : \E ok \in SUBSET (acc \cap res) : SendResult(id, acc, res, ok)

\* The deliverer collects, sends, logs or marks.
DlChange ==
  /\ UNCHANGED <<procVars, lsVars, boxVars>>
  /\ \/ DlCollect
     \/ \E id \in StagingIDs : SendsOff(id) \/ \E a \in Addrs : DlLogResult(id, a) \/ DlMarkDone(id, a)

\* A step of one of the loops.
LoopChange ==
  /\ UNCHANGED <<msgs, raw, nsub, authOf, rcptsOf, acked, smtpVars>>
  /\ Rest \/ ProcChange \/ LsChange \/ DlChange

\* A step of a session is one of these.
LEMMA SmtpCases ==
  ASSUME TypeInv, NEW s \in Sessions, SmtpStep(s)
  PROVE  SmtpChange(s)
<1> USE DEF TypeInv, TypeOK, SmtpTypeOK, At, Active, Early, SmtpPcs, Fault
<1>1. ASSUME NEW pc \in SmtpPcs, Goto(s, pc) PROVE Moves(s, pc)
  BY <1>1 DEF Goto, Moves
<1>2. ASSUME Forget(s) PROVE Moves(s, "none")
  BY <1>2 DEF Forget, Moves
<1>3. CASE Write(s)
  BY <1>1, <1>3 DEF Write, Turn, SmtpStep, SmtpChange, tables
<1>4. CASE Cancel(s)
  BY <1>1, <1>4 DEF Cancel, Turn, SmtpStep, SmtpChange, tables
<1>5. CASE CloseEarly(s)
  BY <1>2, <1>5 DEF CloseEarly, Turn, SmtpStep, SmtpChange, tables
<1>6. CASE CloseInsertRaw(s)
  BY <1>1, <1>6 DEF CloseInsertRaw, Turn, SmtpStep, SmtpChange
<1>7. CASE CloseWriteRaw(s)
  BY <1>1, <1>7 DEF CloseWriteRaw, Turn, SmtpStep, SmtpChange
<1>8. CASE CloseSaveFails(s)
  BY <1>1, <1>8 DEF CloseSaveFails, Turn, SmtpStep, SmtpChange, tables
<1>9. CASE CloseRemoteFails(s)
  BY <1>1, <1>9 DEF CloseRemoteFails, Turn, SmtpStep, SmtpChange, tables
<1>10. CASE RemoveFails(s)
  BY <1>1, <1>2, <1>10 DEF RemoveFails, Turn, SmtpStep, SmtpChange, tables
<1> QED
  BY <1>3, <1>4, <1>5, <1>6, <1>7, <1>8, <1>9, <1>10 DEF SmtpStep, SmtpSession, SmtpChange

\* And so is every other step, but a crash.
LEMMA StepCases ==
  ASSUME TypeInv, [Next]_vars
  PROVE  (\E s \in Sessions : SmtpChange(s)) \/ LoopChange \/ Crash
<1> USE DEF TypeInv, TypeOK, LsTypeOK, DlTypeOK, tables, history
<1>1. CASE ProcStep
  BY <1>1
  DEF ProcStep, ProcNext, ProcMessage, ProcCollect, ProcSave, ProcReject, ProcError, ProcStop, LoopChange,
    ProcChange, Rest, procVars, lsVars, boxVars, dlVars
<1>2. CASE LsStep
  <2>0. UNCHANGED <<msgs, raw, nsub, authOf, rcptsOf, acked, smtpVars, procVars, dlVars>>
    BY <1>2
    DEF LsStep, LsNext, LsUser, LsCollect, LsCollectMsgs, LsStore, LsSkip, LsSetSent, LsFinish, LsError,
      LsOpenFails, LsStop
  <2>1. ASSUME UNCHANGED <<tables, history, boxVars>>,
               \A u \in Users : lsRows'[u] \subseteq lsRows[u] /\ lsCur'[u] \in {lsCur[u], 0}
        PROVE  Rest
    BY <2>0, <2>1 DEF Rest, procVars, dlVars
  <2>2. ASSUME NEW u \in Users, NEW r, Dequeue(u, r) PROVE \A v \in Users : lsRows'[v] \subseteq lsRows[v]
    BY <2>2 DEF Dequeue
  <2>3. ASSUME NEW u \in Users, LsError(u) PROVE Rest
    BY <2>1, <2>2, <2>3 DEF LsError
  <2>4. ASSUME NEW u \in Users, NEW r \in lsRows[u], LsSkip(u, r) PROVE Rest
    BY <2>1, <2>2, <2>4 DEF LsSkip
  <2>5. CASE LsCollect \/ LsStop
    BY <2>1, <2>5, <2>0 DEF LsCollect, LsStop, lsVars, LoopChange
  <2>6. ASSUME NEW u \in Users, LsOpenFails(u) \/ LsFinish(u) PROVE Rest
    BY <2>1, <2>6 DEF LsOpenFails, LsFinish
  <2> QED
    BY <1>2, <2>0, <2>3, <2>4, <2>5, <2>6 DEF LsStep, LsNext, LsUser, LoopChange, LsChange
<1>3. CASE DlStep
  <2>0. UNCHANGED <<msgs, raw, nsub, authOf, rcptsOf, acked, smtpVars, procVars, lsVars, boxVars>>
    BY <1>3
    DEF DlStep, DlNext, DlMessage, DlScan, DlReject, DlCollect, DlSend, DlSendFails, SendResult, DlLogResult,
      DlMarkDone, DlRecordFails, DlStop
  <2>1. ASSUME NEW id \in StagingIDs, DlSend(id) PROVE SendsOff(id)
    BY <2>1 DEF DlSend, SendsOff
  <2>2. ASSUME NEW id \in StagingIDs, DlSendFails(id) PROVE SendsOff(id)
    BY <2>2 DEF DlSendFails, SendsOff
  <2>3. ASSUME NEW id \in StagingIDs, DlRecordFails(id) PROVE Rest
    BY <2>0, <2>3 DEF DlRecordFails, Rest, procVars, lsVars
  <2>4. CASE DlReject \/ DlStop
    BY <2>0, <2>4 DEF DlReject, DlStop, Rest, procVars, lsVars, dlVars, LoopChange
  <2> QED
    BY <1>3, <2>0, <2>1, <2>2, <2>3, <2>4 DEF DlStep, DlNext, DlMessage, DlScan, LoopChange, DlChange
<1>4. CASE UNCHANGED vars
  BY <1>4 DEF vars, LoopChange, Rest, procVars, lsVars, dlVars
<1> QED
  BY <1>1, <1>2, <1>3, <1>4, SmtpCases DEF Next

\* The loops only mark recipients that have a row, as received or as done.
LEMMA LoopRows ==
  ASSUME TypeInv, LoopChange, NEW id \in StagingIDs, NEW a \in Addrs
  PROVE  \/ recips'[id][a] = recips[id][a]
         \/ recips[id][a] # "NoRow" /\ recips'[id][a] \in {"Received", "Done"}
<1> USE DEF TypeInv, TypeOK, StagingTypeOK, LsTypeOK, tables, AnyState, SetState
<1>1. ASSUME NEW i \in StagingIDs, NEW who, NEW from \in SUBSET AnyState, NEW to \in {"Received", "Done"},
             SetState(i, who, from, to)
      PROVE  \/ recips'[id][a] = recips[id][a]
             \/ recips[id][a] # "NoRow" /\ recips'[id][a] \in {"Received", "Done"}
  BY <1>1
<1>2. ASSUME NEW u \in Users, LsSetSent(u)
      PROVE  lsCur[u] \in StagingIDs /\ SetState(lsCur[u], AddrsOf(u), {"Received"}, "Done")
  BY <1>2 DEF LsSetSent, StagingIDs
<1>3. {"Received"} \subseteq AnyState
  BY DEF DeliveryState
<1> HIDE DEF SetState, AnyState
<1> QED
  BY <1>1, <1>2, <1>3
  DEF LoopChange, Rest, ProcChange, LsChange, DlChange, ProcCollect, ProcSave, LsCollectMsgs, LsStore,
    DlCollect, SendsOff, SendResult, DlLogResult, DlMarkDone

\* RCPT makes one row, of one envelope.
LEMMA AddRow ==
  ASSUME TypeInv, NEW s \in Sessions, NEW a \in Addrs, AddRecipient(s, a)
  PROVE  /\ \A id \in StagingIDs, c \in Addrs :
              recips'[id][c] = IF id = smtpID[s] /\ c = a THEN "Receiving" ELSE recips[id][c]
         /\ \A b \in Subs : rcptsOf'[b] = IF b = smtpSub[s] THEN rcptsOf[b] \cup {a} ELSE rcptsOf[b]
         /\ smtpPc[s] = "envelope" /\ smtpID[s] \in StagingIDs /\ smtpSub[s] \in Subs
<1>1. /\ recips \in [StagingIDs -> [Addrs -> DeliveryState]] /\ rcptsOf \in [Subs -> SUBSET Addrs]
      /\ smtpPc[s] = "envelope" /\ smtpID[s] \in StagingIDs /\ smtpSub[s] \in Subs
  BY DEF TypeInv, TypeOK, StagingTypeOK, SmtpSane, Active, AddRecipient, At
<1>2. /\ recips' = [recips EXCEPT ![smtpID[s]][a] = "Receiving"]
      /\ rcptsOf' = [rcptsOf EXCEPT ![smtpSub[s]] = @ \cup {a}]
  BY DEF AddRecipient
<1>3. \A id \in StagingIDs, c \in Addrs :
        recips'[id][c] = IF id = smtpID[s] /\ c = a THEN "Receiving" ELSE recips[id][c]
  BY <1>1, <1>2
<1>4. \A b \in Subs : rcptsOf'[b] = IF b = smtpSub[s] THEN rcptsOf[b] \cup {a} ELSE rcptsOf[b]
  BY <1>1, <1>2
<1> QED
  BY <1>1, <1>3, <1>4

\* The UPDATE of a StagingID's rows.
LEMMA StateSet ==
  ASSUME TypeInv, NEW id \in StagingIDs, NEW who, NEW from, NEW to, SetState(id, who, from, to)
  PROVE  \A i \in StagingIDs, c \in Addrs :
           recips'[i][c] = IF i = id /\ c \in who /\ recips[i][c] \in from THEN to ELSE recips[i][c]
BY DEF TypeInv, TypeOK, StagingTypeOK, SetState

\* A session only changes rows of the StagingID it holds.
LEMMA SmtpRows ==
  ASSUME TypeInv, NEW s \in Sessions, SmtpChange(s), NEW id \in StagingIDs, recips'[id] # recips[id]
  PROVE  Active(s) /\ id = smtpID[s]
<1> USE DEF TypeInv, TypeOK, StagingTypeOK, SmtpTypeOK, At, Active
<1>1. Active(s)
  BY DEF SmtpChange, NewMessage, AddRecipient, Turn, CloseUnauth, CloseLocal, CloseRemote,
     RemoveRecipients, RemoveRow
<1>2. recips'[id] = recips[id] \/ id = smtpID[s]
  BY <1>1 DEF SmtpChange, NewMessage, AddRecipient, Turn, CloseUnauth, CloseLocal, CloseRemote,
     RemoveRecipients, RemoveRow, SetState, SmtpSane
<1> QED
  BY <1>1, <1>2

\* What the outside world has seen does not change.
LEMMA HistoryGrows ==
  ASSUME TypeInv, [Next]_vars
  PROVE  /\ acked \subseteq acked' /\ sent \subseteq sent' /\ deliveries \subseteq deliveries'
         /\ \A b \in Subs : rcptsOf[b] \subseteq rcptsOf'[b]
         /\ \A u \in Users, b \in Subs : copies[u][b] <= copies'[u][b]
<1> USE DEF TypeInv, TypeOK, StagingTypeOK, LsTypeOK, tables, history, boxVars
<1>1. acked \subseteq acked' /\ sent \subseteq sent' /\ deliveries \subseteq deliveries'
  BY StepCases
  DEF SmtpChange, NewMessage, AddRecipient, Turn, CloseUnauth, CloseLocal, CloseRemote, Acknowledge,
    RemoveRecipients, RemoveRow, LoopChange, Rest, ProcChange, LsChange, DlChange, ProcCollect, ProcSave,
    LsCollectMsgs, LsSetSent, LsStore, DlCollect, SendsOff, SendResult, DlLogResult, DlMarkDone, Crash
<1>2. \A b \in Subs : rcptsOf[b] \subseteq rcptsOf'[b]
  <2>1. CASE UNCHANGED rcptsOf
    BY <2>1
  <2>2. ASSUME NEW s \in Sessions, NEW a \in Addrs, AddRecipient(s, a)
        PROVE  \A b \in Subs : rcptsOf[b] \subseteq rcptsOf'[b]
    BY <2>2 DEF AddRecipient
  <2> QED
    BY <2>1, <2>2, StepCases
    DEF SmtpChange, NewMessage, Turn, CloseUnauth, CloseLocal, CloseRemote, RemoveRecipients, RemoveRow,
      LoopChange, Crash
<1>3. \A u \in Users, b \in Subs : copies[u][b] <= copies'[u][b]
  <2>1. CASE UNCHANGED copies
    BY <2>1
  <2>2. ASSUME NEW u \in Users, NEW r \in lsRows[u], LsStore(u, r),
               NEW v \in Users, NEW b \in Subs
        PROVE  copies[v][b] <= copies'[v][b]
    BY <2>2 DEF LsStore
  <2> QED
    BY <2>1, <2>2, StepCases
    DEF SmtpChange, LoopChange, Rest, ProcChange, LsChange, DlChange, LsCollectMsgs, LsSetSent, Crash
<1> QED
  BY <1>1, <1>2, <1>3

\* Only RCPT changes an envelope.
LEMMA RcptsKept ==
  ASSUME TypeInv, [Next]_vars, ~UNCHANGED rcptsOf
  PROVE  \E s \in Sessions, a \in Addrs : AddRecipient(s, a)
BY StepCases
DEF SmtpChange, NewMessage, Turn, CloseUnauth, CloseLocal, CloseRemote, RemoveRecipients, RemoveRow,
  LoopChange, Crash, history

(***************************************************************************)
(* StagingIDs.                                                             *)
(***************************************************************************)
\* A new StagingID has no row in Msgs.
LEMMA NewIsUnused ==
  ASSUME TypeInv, NEW id \in StagingIDs, IsNextRowID(id)
  PROVE  id \notin msgs
BY StagingAssumption DEF TypeInv, TypeOK, StagingTypeOK, IsNextRowID, StagingIDs

\* What a step does to the sessions: a new message has a StagingID without a
\* row, otherwise no session gets one.
LEMMA SessionsMove ==
  ASSUME TypeInv, [Next]_vars
  PROVE  \/ \E s \in Sessions, auth \in BOOLEAN : NewMessage(s, auth)
         \/ /\ \A t \in Sessions : Active(t)' =>
                 /\ Active(t) /\ smtpID'[t] = smtpID[t] /\ smtpSub'[t] = smtpSub[t]
                 /\ smtpPc'[t] \in Early => smtpPc[t] \in Early
                 /\ smtpPc'[t] = "localDone" => smtpPc[t] = "localDone" \/ CloseLocal(t)
                 /\ smtpPc[t] = "localDone" => smtpPc'[t] = "localDone" \/ "remoteUpdate" \in FaultKinds
                 /\ smtpPc'[t] = "removeRow" =>
                      smtpPc[t] = "removeRow" \/ RemoveRecipients(t) \/ "cleanup" \in FaultKinds
            /\ \/ UNCHANGED msgs
               \/ \E s \in Sessions : Active(s) /\ ~Active(s)' /\ msgs' = msgs \ {smtpID[s]}
            /\ nsub' = nsub /\ authOf' = authOf
<1> USE DEF TypeInv, TypeOK, SmtpTypeOK, At, Active, Early
<1> DEFINE Kept == \A t \in Sessions : Active(t)' =>
                     /\ Active(t) /\ smtpID'[t] = smtpID[t] /\ smtpSub'[t] = smtpSub[t]
                     /\ smtpPc'[t] \in Early => smtpPc[t] \in Early
                     /\ smtpPc'[t] = "localDone" => smtpPc[t] = "localDone" \/ CloseLocal(t)
                     /\ smtpPc[t] = "localDone" => smtpPc'[t] = "localDone" \/ "remoteUpdate" \in FaultKinds
                     /\ smtpPc'[t] = "removeRow" =>
                          smtpPc[t] = "removeRow" \/ RemoveRecipients(t) \/ "cleanup" \in FaultKinds
<1>1. ASSUME LoopChange \/ Crash PROVE Kept /\ UNCHANGED <<msgs, nsub, authOf>>
  BY <1>1 DEF LoopChange, Crash, smtpVars, tables, history
<1>2. ASSUME NEW s \in Sessions, SmtpChange(s), ~ \E auth \in BOOLEAN : NewMessage(s, auth)
      PROVE  /\ Kept /\ UNCHANGED <<nsub, authOf>>
             /\ UNCHANGED msgs \/ (Active(s) /\ ~Active(s)' /\ msgs' = msgs \ {smtpID[s]})
  <2>1. ASSUME NEW pc \in SmtpPcs \ {"localDone"}, Moves(s, pc), Active(s), pc \in Early => smtpPc[s] \in Early,
               smtpPc[s] = "localDone" => "remoteUpdate" \in FaultKinds,
               pc = "removeRow" => "cleanup" \in FaultKinds
        PROVE  Kept
    BY <2>1 DEF Moves
  <2>2. ASSUME NEW pc \in SmtpPcs, Goto(s, pc), Active(s), pc \notin Early, smtpPc[s] # "localDone",
               pc = "localDone" => CloseLocal(s), pc = "removeRow" => RemoveRecipients(s)
        PROVE  Kept
    BY <2>2 DEF Goto
  <2>3. ASSUME Forget(s) PROVE Kept /\ ~Active(s)'
    BY <2>3 DEF Forget
  <2>4. CASE Turn(s)
    BY <2>1, <2>4 DEF Turn, history
  <2>5. CASE \E a \in Addrs : AddRecipient(s, a)
    BY <2>5 DEF AddRecipient, smtpVars
  <2>6. CASE CloseUnauth(s) \/ CloseRemote(s)
    BY <2>3, <2>6 DEF CloseUnauth, CloseRemote, Acknowledge
  <2>7. CASE CloseLocal(s) \/ RemoveRecipients(s)
    <3>1. /\ Goto(s, IF CloseLocal(s) THEN "localDone" ELSE "removeRow")
          /\ Active(s) /\ smtpPc[s] # "localDone" /\ UNCHANGED <<msgs, nsub, authOf>>
      BY <2>7 DEF CloseLocal, RemoveRecipients, history
    <3> QED
      BY <2>2, <2>7, <3>1 DEF SmtpPcs
  <2>8. CASE RemoveRow(s)
    BY <2>3, <2>8 DEF RemoveRow, history
  <2> QED
    BY <1>2, <2>4, <2>5, <2>6, <2>7, <2>8 DEF SmtpChange
<1> QED
  BY <1>1, <1>2, StepCases

\* A session keeps its StagingID to itself, and what no session holds is not
\* removed or given to another message.
LEMMA NextID ==
  ASSUME TypeInv, IDInv, [Next]_vars
  PROVE  IDInv' /\ \A id \in msgs : Free(id) => id \in msgs' /\ Free(id)'
<1> USE DEF TypeInv, TypeOK, StagingTypeOK, SmtpTypeOK, Active, IDInv, Free
<1>1. ASSUME NEW s \in Sessions, NEW auth \in BOOLEAN, NewMessage(s, auth)
      PROVE  IDInv' /\ \A id \in msgs : Free(id) => id \in msgs' /\ Free(id)'
  <2>1. PICK new \in StagingIDs :
          /\ IsNextRowID(new) /\ msgs' = msgs \cup {new} /\ smtpID' = [smtpID EXCEPT ![s] = new]
    BY <1>1 DEF NewMessage
  <2>2. new \notin msgs
    BY <2>1, NewIsUnused
  <2>3. \A t \in Sessions \ {s} : smtpPc'[t] = smtpPc[t] /\ smtpID'[t] = smtpID[t]
    BY <1>1, <2>1 DEF NewMessage
  <2>4. smtpID'[s] = new
    BY <2>1
  <2> QED
    BY <2>1, <2>2, <2>3, <2>4
<1>2. CASE ~ \E s \in Sessions, auth \in BOOLEAN : NewMessage(s, auth)
  <2>1. \A t \in Sessions : Active(t)' => Active(t) /\ smtpID'[t] = smtpID[t]
    BY <1>2, SessionsMove
  <2>2. UNCHANGED msgs \/ \E s \in Sessions : Active(s) /\ ~Active(s)' /\ msgs' = msgs \ {smtpID[s]}
    BY <1>2, SessionsMove
  <2> QED
    BY <2>1, <2>2
<1> QED
  BY <1>1, <1>2

\* Only the last step of Close gives the deliverer a recipient, which Close
\* has not dealt with before.
LEMMA NewSending ==
  ASSUME TypeInv, [Next]_vars, NEW id \in StagingIDs, NEW a \in Addrs, recips'[id][a] = "Sending"
  PROVE  \/ recips[id][a] = "Sending"
         \/ \E s \in Sessions : CloseRemote(s) /\ id = smtpID[s] /\ recips[id][a] = "Receiving"
<1> USE DEF TypeInv, TypeOK, StagingTypeOK, tables
<1>1. CASE LoopChange
  BY <1>1, LoopRows
<1>2. CASE Crash
  BY <1>2 DEF Crash
<1>3. ASSUME NEW s \in Sessions, SmtpChange(s), recips[id][a] # "Sending"
      PROVE  CloseRemote(s) /\ id = smtpID[s] /\ recips[id][a] = "Receiving"
  <2>1. id = smtpID[s] /\ recips'[id] # recips[id]
    BY <1>3, SmtpRows
  <2>2. ~CloseUnauth(s) /\ ~CloseLocal(s)
    BY <1>3, <2>1 DEF CloseUnauth, CloseLocal, SetState
  <2>3. ~RemoveRecipients(s)
    BY <1>3, <2>1 DEF RemoveRecipients, NoRecipients
  <2>4. ASSUME NEW b \in Addrs, AddRecipient(s, b) PROVE FALSE
    <3> HIDE DEF TypeInv
    <3>1. recips'[id][a] \in {"Receiving", recips[id][a]}
      BY <2>4, AddRow
    <3> QED
      BY <1>3, <3>1
  <2>5. ~Turn(s) /\ ~RemoveRow(s) /\ ~ \E auth \in BOOLEAN : NewMessage(s, auth)
    BY <2>1 DEF NewMessage, Turn, RemoveRow
  <2>6. CloseRemote(s)
    BY <1>3, <2>2, <2>3, <2>4, <2>5 DEF SmtpChange
  <2>7. recips[id][a] = "Receiving"
    <3>1. SetState(id, Addrs, {"Receiving"}, "Sending")
      BY <2>1, <2>6 DEF CloseRemote
    <3>2. recips'[id][a] = IF recips[id][a] = "Receiving" THEN "Sending" ELSE recips[id][a]
      BY <3>1, StateSet
    <3> QED
      BY <1>3, <3>2
  <2> QED
    BY <2>1, <2>6, <2>7
<1> QED
  BY <1>1, <1>2, <1>3, StepCases

\* The deliverer has, or will find, something to do for the StagingID.
Outgoing(id) == Sends(id) \/ \E a \in Addrs : recips[id][a] = "Sending"

\* There is nothing to send for a StagingID unless there was before, or the
\* Close of its session has just handed it to the deliverer.
LEMMA NewOutgoing ==
  ASSUME TypeInv, [Next]_vars, NEW id \in StagingIDs, Outgoing(id)'
  PROVE  Outgoing(id) \/ \E s \in Sessions : CloseRemote(s) /\ id = smtpID[s]
<1> USE DEF TypeInv, TypeOK, StagingTypeOK, DlTypeOK, tables
<1>1. ASSUME NEW a \in Addrs, recips'[id][a] = "Sending"
      PROVE  recips[id][a] = "Sending" \/ \E s \in Sessions : CloseRemote(s) /\ id = smtpID[s]
  BY <1>1, NewSending
<1>2. ASSUME Sends(id)' PROVE Outgoing(id)
  <2> USE DEF Sends, Outgoing, dlVars
  <2>1. CASE DlCollect
    <3>1. PICK W \in SUBSET SendingRows : dlRcpts' = [i \in StagingIDs |-> {a \in Addrs : <<i, a>> \in W}]
      BY <2>1 DEF DlCollect, Windows
    <3>2. CASE dlRcpts'[id] # {}
      BY <3>1, <3>2 DEF SendingRows
    <3>3. CASE dlRcpts'[id] = {}
      BY <1>2, <2>1, <3>3 DEF DlCollect
    <3> QED
      BY <3>2, <3>3
  <2>2. ASSUME NEW i \in StagingIDs, SendsOff(i) PROVE Sends(id)
    BY <1>2, <2>2 DEF SendsOff, SendResult
  <2>3. ASSUME NEW i \in StagingIDs, NEW a \in Addrs, DlLogResult(i, a) \/ DlMarkDone(i, a) PROVE Sends(id)
    BY <1>2, <2>3 DEF DlLogResult, DlMarkDone
  <2>4. CASE Rest
    BY <1>2, <2>4 DEF Rest
  <2>5. CASE UNCHANGED dlVars
    BY <1>2, <2>5
  <2>6. CASE Crash
    BY <1>2, <2>6 DEF Crash, Nobody
  <2> QED
    BY <2>1, <2>2, <2>3, <2>4, <2>5, <2>6, StepCases DEF SmtpChange, LoopChange, ProcChange, LsChange, DlChange
<1> QED
  BY <1>1, <1>2 DEF Outgoing

\* The deliverer has to do with no message that a session still works on.
LEMMA NextDl ==
  ASSUME TypeInv, IDInv, DlInv, [Next]_vars
  PROVE  DlInv'
<1> SUFFICES ASSUME NEW id \in StagingIDs, Outgoing(id)' PROVE (id \in msgs /\ Free(id))'
  BY DEF DlInv, Outgoing
<1>1. CASE Outgoing(id)
  BY <1>1, NextID DEF DlInv, Outgoing
<1>2. ASSUME NEW s \in Sessions, CloseRemote(s), id = smtpID[s] PROVE (id \in msgs /\ Free(id))'
  BY <1>2
  DEF CloseRemote, Acknowledge, Forget, IDInv, Active, Free, At, TypeInv, TypeOK, SmtpTypeOK
<1> QED
  BY <1>1, <1>2, NewOutgoing
(***************************************************************************)
(* Accepted mail.                                                          *)
(***************************************************************************)
\* Only an authenticated session adds other than local recipients.
LEMMA NextLegal ==
  ASSUME TypeInv, RawInv, EnvelopesLegal, [Next]_vars
  PROVE  EnvelopesLegal'
<1> USE DEF TypeInv, TypeOK, StagingTypeOK, EnvelopesLegal
<1>1. ASSUME NEW s \in Sessions, NEW auth \in BOOLEAN, NewMessage(s, auth) PROVE EnvelopesLegal'
  <2>1. /\ nsub' = nsub + 1 /\ nsub \in Nat
        /\ authOf' = [authOf EXCEPT ![nsub + 1] = auth] /\ rcptsOf' = rcptsOf
    BY <1>1 DEF NewMessage
  <2>2. ASSUME NEW b \in Subs
        PROVE  (~authOf'[b] => rcptsOf[b] \subseteq LocalAddrs) /\ (b > nsub + 1 => rcptsOf[b] = {})
    <3>1. CASE b = nsub + 1
      BY <2>1, <3>1
    <3>2. CASE b # nsub + 1
      BY <2>1, <3>2 DEF Subs
    <3> QED
      BY <3>1, <3>2
  <2> QED
    BY <2>1, <2>2
<1>2. ASSUME NEW s \in Sessions, NEW a \in Addrs, AddRecipient(s, a) PROVE EnvelopesLegal'
  <2>1. /\ smtpSub[s] \in Subs /\ smtpSub[s] <= nsub
        /\ authOf[smtpSub[s]] \/ a \in LocalAddrs
        /\ UNCHANGED <<nsub, authOf>>
    BY <1>2, AddRow DEF AddRecipient, ValidRecipient, IsAuth, RawInv, SubInv, Active
  <2>2. \A b \in Subs : rcptsOf'[b] = IF b = smtpSub[s] THEN rcptsOf[b] \cup {a} ELSE rcptsOf[b]
    <3> HIDE DEF TypeInv
    <3> QED
      BY <1>2, AddRow
  <2>3. ASSUME NEW b \in Subs
        PROVE  (~authOf'[b] => rcptsOf'[b] \subseteq LocalAddrs) /\ (b > nsub' => rcptsOf'[b] = {})
    <3>1. CASE b = smtpSub[s]
      <4>1. ~(b > nsub')
        BY <2>1, <3>1 DEF Subs
      <4>2. ASSUME ~authOf'[b] PROVE rcptsOf'[b] \subseteq LocalAddrs
        <5>1. ~authOf[b]
          BY <2>1, <4>2
        <5>2. a \in LocalAddrs
          BY <2>1, <3>1, <5>1
        <5>3. rcptsOf[b] \subseteq LocalAddrs
          BY <5>1
        <5>4. rcptsOf'[b] = rcptsOf[b] \cup {a}
          BY <2>2, <3>1
        <5> QED
          BY <5>2, <5>3, <5>4
      <4> QED
        BY <4>1, <4>2
    <3>2. CASE b # smtpSub[s]
      BY <2>1, <2>2, <3>2
    <3> QED
      BY <3>1, <3>2
  <2> QED
    BY <2>3
<1>3. CASE ~ \E s \in Sessions, auth \in BOOLEAN : NewMessage(s, auth)
  BY <1>2, <1>3, SessionsMove, RcptsKept
<1> QED
  BY <1>1, <1>3

\* The rows of an envelope are there as long as its session works on it.
LEMMA NextSessionRows ==
  ASSUME TypeInv, RawInv, IDInv, AcceptInv, [Next]_vars
  PROVE  EarlyRows' /\ LocalDoneRows'
<1> USE DEF TypeInv, TypeOK, StagingTypeOK, SmtpTypeOK, SmtpSane, Active, Early
<1>1. ASSUME NEW s \in Sessions, NEW auth \in BOOLEAN, NewMessage(s, auth) PROVE EarlyRows' /\ LocalDoneRows'
  <2>1. /\ smtpPc' = [smtpPc EXCEPT ![s] = "envelope"]
        /\ smtpSub' = [smtpSub EXCEPT ![s] = nsub + 1]
        /\ nsub \in Nat /\ nsub + 1 \in Subs /\ UNCHANGED <<recips, rcptsOf>>
        /\ \A t \in Sessions \ {s} : smtpID'[t] = smtpID[t]
    BY <1>1, StagingAssumption DEF NewMessage, Subs
  <2>2. rcptsOf'[smtpSub'[s]] = {}
    BY <2>1 DEF AcceptInv, EnvelopesLegal
  <2> QED
    BY <2>1, <2>2 DEF AcceptInv, EarlyRows, LocalDoneRows
<1>2. CASE ~ \E s \in Sessions, auth \in BOOLEAN : NewMessage(s, auth)
  <2> SUFFICES ASSUME NEW t \in Sessions, smtpPc'[t] \in Early \cup {"localDone"},
                      NEW a \in rcptsOf'[smtpSub'[t]]
               PROVE  recips'[smtpID'[t]][a] \in
                        IF smtpPc'[t] = "localDone" /\ a \in LocalAddrs THEN LocalStates ELSE EarlyStates
    BY DEF EarlyRows, LocalDoneRows
  <2> DEFINE id == smtpID[t]
             b  == smtpSub[t]
  <2>1. /\ smtpPc'[t] # "none"
        /\ smtpID'[t] = id /\ id \in StagingIDs /\ smtpSub'[t] = b /\ b \in Subs
        /\ smtpPc'[t] \in Early => smtpPc[t] \in Early
        /\ smtpPc'[t] = "localDone" => smtpPc[t] = "localDone" \/ CloseLocal(t)
        /\ smtpPc[t] # "none"
    BY <1>2, SessionsMove
  <2>2. rcptsOf' \in [Subs -> SUBSET Addrs] /\ a \in Addrs
    BY <2>1, NextType
  <2> HIDE DEF id, b
  <2>3. CASE CloseLocal(t)
    <3>1. SetState(id, LocalAddrs, AnyState, "ToProcess") /\ rcptsOf' = rcptsOf /\ smtpPc[t] = "rawBody"
          /\ smtpPc'[t] = "localDone"
      BY <2>3 DEF CloseLocal, Goto, At, history, id
    <3>2. recips[id][a] \in EarlyStates
      BY <2>1, <3>1 DEF AcceptInv, EarlyRows, id, b
    <3>3. recips[id][a] \in AnyState
      BY <3>2 DEF EarlyStates, AnyState, DeliveryState
    <3>4. recips'[id][a] = IF a \in LocalAddrs THEN "ToProcess" ELSE recips[id][a]
      BY <2>1, <2>2, <3>1, <3>3, StateSet
    <3> QED
      BY <2>1, <3>1, <3>2, <3>4 DEF LocalStates
  <2>4. CASE smtpPc[t] = "localDone" \/ smtpPc'[t] \in Early
    <3> DEFINE States == IF smtpPc'[t] = "localDone" /\ a \in LocalAddrs THEN LocalStates ELSE EarlyStates
    <3> SUFFICES recips'[id][a] \in States
      BY <2>1
    <3>1. ASSUME a \in rcptsOf[b] PROVE recips[id][a] \in States
      BY <2>1, <2>4, <3>1 DEF AcceptInv, EarlyRows, LocalDoneRows, id, b
    <3>2. {"Received", "Done"} \subseteq States
      BY DEF LocalStates, EarlyStates
    <3>3. ASSUME NEW s \in Sessions, NEW c \in Addrs, AddRecipient(s, c) PROVE recips'[id][a] \in States
      <4>1. CASE s = t
        <5>1. smtpPc'[t] = "envelope"
          BY <3>3, <4>1, AddRow DEF AddRecipient, smtpVars
        <5>2. "Receiving" \in States
          BY <5>1 DEF EarlyStates
        <5>3. rcptsOf'[b] = rcptsOf[b] \cup {c}
          BY <2>1, <3>3, <4>1, AddRow DEF b
        <5>4. recips'[id][a] = IF a = c THEN "Receiving" ELSE recips[id][a]
          BY <2>1, <2>2, <3>3, <4>1, AddRow DEF id
        <5> HIDE DEF States
        <5> QED
          BY <2>1, <3>1, <5>2, <5>3, <5>4
      <4>2. CASE s # t
        <5>0. smtpPc[s] = "envelope"
          BY <3>3, AddRow
        <5>1. smtpID[s] # id /\ smtpSub[s] # b
          BY <2>1, <4>2, <5>0 DEF IDInv, RawInv, SubInv, id, b
        <5>2. rcptsOf'[b] = rcptsOf[b] /\ recips'[id][a] = recips[id][a]
          BY <2>1, <2>2, <3>3, <5>1, AddRow
        <5> QED
          BY <2>1, <3>1, <5>2
      <4> QED
        BY <4>1, <4>2
    <3>4. CASE ~ \E s \in Sessions, c \in Addrs : AddRecipient(s, c)
      <4> HIDE DEF States
      <4>0. UNCHANGED rcptsOf
        BY <3>4, RcptsKept
      <4>1. recips[id][a] \in States
        BY <2>1, <3>1, <4>0
      <4>2. CASE recips'[id] = recips[id]
        BY <4>1, <4>2
      <4>3. CASE LoopChange
        BY <2>1, <2>2, <3>2, <4>1, <4>3, LoopRows
      <4>4. ASSUME NEW s \in Sessions, SmtpChange(s), recips'[id] # recips[id] PROVE FALSE
        <5>1. s = t
          BY <2>1, <4>4, SmtpRows DEF IDInv, id
        <5>2. CloseUnauth(s) \/ CloseLocal(s) \/ CloseRemote(s) \/ RemoveRecipients(s)
          BY <3>4, <4>4 DEF SmtpChange, NewMessage, Turn, RemoveRow
        <5>3. smtpPc[t] \in Early \cup {"localDone"}
          BY <2>1, <2>4
        <5>4. ~RemoveRecipients(s)
          BY <5>1, <5>3 DEF RemoveRecipients, At
        <5>5. ~CloseUnauth(s) /\ ~CloseRemote(s)
          BY <2>1, <5>1 DEF CloseUnauth, CloseRemote, Acknowledge, Forget
        <5>6. ~CloseLocal(s)
          BY <2>4, <5>1 DEF CloseLocal, Goto, At
        <5> QED
          BY <5>2, <5>4, <5>5, <5>6
      <4>5. CASE Crash
        BY <2>1, <4>5 DEF Crash
      <4> QED
        BY <4>2, <4>3, <4>4, <4>5, StepCases
    <3> QED
      BY <2>1, <3>3, <3>4
  <2> QED
    BY <2>1, <2>3, <2>4
<1> QED
  BY <1>1, <1>2
\* What has been accepted stays stored and addressed.
LEMMA NextAcked ==
  ASSUME TypeInv, RawInv, IDInv, AcceptInv, [Next]_vars
  PROVE  AckedRows'
<1> USE DEF LocalStates, EarlyStates, RemoteStates
<1> DEFINE States(c) == IF c \in LocalAddrs THEN LocalStates ELSE RemoteStates
<1> SUFFICES ASSUME NEW b \in acked'
             PROVE  \E id \in msgs' :
                      raw'[id] = b /\ Free(id)' /\ \A a \in rcptsOf'[b] : recips'[id][a] \in States(a)
  BY DEF AckedRows, Free, Active
<1>0. acked \subseteq Subs /\ rcptsOf' \in [Subs -> SUBSET Addrs] /\ msgs \subseteq StagingIDs /\ b \in Subs
  BY NextType DEF TypeInv, TypeOK, StagingTypeOK
<1>1. CASE b \in acked
  <2>1. PICK id \in msgs :
          raw[id] = b /\ Free(id) /\ \A a \in rcptsOf[b] : recips[id][a] \in States(a)
    BY <1>1 DEF AcceptInv, AckedRows
  <2>2. id \in StagingIDs /\ id \in msgs' /\ Free(id)' /\ raw'[id] = b
    BY <1>0, <2>1, NextID, NextRaw
  <2>3. ASSUME NEW s \in Sessions, NEW c \in Addrs, AddRecipient(s, c) PROVE rcptsOf'[b] = rcptsOf[b]
    <3>1. smtpSub[s] # b
      BY <2>1, <2>2, <2>3, AddRow DEF RawInv, SubInv
    <3> QED
      BY <1>0, <2>3, <3>1, AddRow
  <2>4. rcptsOf'[b] = rcptsOf[b]
    BY <2>3, RcptsKept
  <2>5. ASSUME NEW a \in rcptsOf[b] PROVE recips'[id][a] \in States(a)
    <3>1. a \in Addrs /\ recips[id][a] \in States(a)
      BY <1>0, <2>1, <2>4
    <3>2. CASE LoopChange
      BY <2>2, <3>1, <3>2, LoopRows
    <3>3. ASSUME NEW s \in Sessions, SmtpChange(s) PROVE recips'[id] = recips[id]
      BY <2>1, <2>2, <3>3, SmtpRows DEF Free
    <3>4. CASE Crash
      BY <3>1, <3>4 DEF Crash, tables
    <3> HIDE DEF States
    <3> QED
      BY <3>1, <3>2, <3>3, <3>4, StepCases
  <2> QED
    BY <2>2, <2>4, <2>5
<1>2. ASSUME NEW s \in Sessions, CloseUnauth(s) \/ CloseRemote(s), b = smtpSub[s]
      PROVE  \E id \in msgs' :
               raw'[id] = b /\ Free(id)' /\ \A a \in rcptsOf'[b] : recips'[id][a] \in States(a)
  <2>0. PICK id : id = smtpID[s]
    OBVIOUS
  <2>1. /\ smtpPc[s] \in {"rawBody", "localDone"} /\ UNCHANGED <<msgs, raw, rcptsOf>>
        /\ smtpPc' = [smtpPc EXCEPT ![s] = "none"] /\ smtpID' = [smtpID EXCEPT ![s] = 0]
    BY <1>2 DEF CloseUnauth, CloseRemote, Acknowledge, Forget, At
  <2>2. id \in msgs /\ id \in StagingIDs /\ raw[id] = b
    BY <1>0, <1>2, <2>0, <2>1 DEF IDInv, Active, RawInv, RowInv
  <2>3. Free(id)'
    BY <2>0, <2>1 DEF IDInv, Active, Free, TypeInv, TypeOK, SmtpTypeOK
  <2>4. ASSUME NEW a \in rcptsOf[b] PROVE recips'[id][a] \in States(a)
    <3>0. a \in Addrs
      BY <1>0, <2>1
    <3>1. CASE CloseUnauth(s)
      <4>1. smtpPc[s] = "rawBody" /\ ~authOf[b] /\ SetState(id, Addrs, AnyState, "ToProcess")
        BY <2>0, <1>2, <3>1 DEF CloseUnauth, At, IsAuth
      <4>2. a \in LocalAddrs
        BY <1>0, <4>1 DEF AcceptInv, EnvelopesLegal
      <4>3. recips[id][a] \in EarlyStates
        BY <2>0, <1>2, <4>1 DEF AcceptInv, EarlyRows, Early
      <4>4. recips[id][a] \in AnyState
        BY <4>3 DEF AnyState, DeliveryState
      <4>5. recips'[id][a] = "ToProcess"
        BY <2>2, <3>0, <4>1, <4>4, StateSet
      <4> QED
        BY <4>2, <4>5
    <3>2. CASE CloseRemote(s)
      <4>1. smtpPc[s] = "localDone" /\ SetState(id, Addrs, {"Receiving"}, "Sending")
        BY <2>0, <1>2, <3>2 DEF CloseRemote, At
      <4>2. recips[id][a] \in IF a \in LocalAddrs THEN LocalStates ELSE EarlyStates
        BY <2>0, <1>2, <4>1 DEF AcceptInv, LocalDoneRows
      <4>3. recips'[id][a] = IF recips[id][a] = "Receiving" THEN "Sending" ELSE recips[id][a]
        BY <2>2, <3>0, <4>1, StateSet
      <4> QED
        BY <4>2, <4>3
    <3> QED
      BY <1>2, <3>1, <3>2
  <2> QED
    BY <2>1, <2>2, <2>3, <2>4
<1>3. ASSUME b \notin acked PROVE \E s \in Sessions : (CloseUnauth(s) \/ CloseRemote(s)) /\ b = smtpSub[s]
  BY <1>3, StepCases
  DEF SmtpChange, NewMessage, AddRecipient, Turn, CloseUnauth, CloseLocal, CloseRemote, Acknowledge,
    RemoveRecipients, RemoveRow, LoopChange, Crash, history
<1> QED
  BY <1>1, <1>2, <1>3

\* The queue as a session and its recipients' rows see it.
QueueIDs == TypeInv /\ RawInv /\ IDInv /\ DlInv /\ AcceptInv

\* The queue is empty in the beginning.
LEMMA InitQueue == Init => QueueIDs
<1> SUFFICES ASSUME Init PROVE QueueIDs
  OBVIOUS
<1>1. IDInv /\ DlInv
  BY DEF Init, StagingInit, SmtpInit, DlInit, IDInv, DlInv, Active, Sends, Nobody, NoRecipients
<1>2. AcceptInv
  BY DEF Init, StagingInit, SmtpInit, AcceptInv, EnvelopesLegal, EarlyRows, LocalDoneRows, AckedRows, Early
<1> QED
  BY <1>1, <1>2, InitType, InitRaw DEF QueueIDs

\* Every step keeps it, whatever fails.
LEMMA NextQueue == QueueIDs /\ [Next]_vars => QueueIDs'
BY NextType, NextRaw, NextID, NextDl, NextLegal, NextSessionRows, NextAcked DEF QueueIDs, AcceptInv

(***************************************************************************)
(* Delivered mail.                                                         *)
(***************************************************************************)
\* Recipients are marked done by setMsgsSent and by recordDelivery only.
LEMMA NewDone ==
  ASSUME TypeInv, [Next]_vars, NEW id \in StagingIDs, NEW a \in Addrs, recips'[id][a] = "Done"
  PROVE  \/ recips[id][a] = "Done"
         \/ recips[id][a] = "Received" /\ \E u \in Users : LsSetSent(u) /\ id = lsCur[u] /\ a \in AddrsOf(u)
         \/ recips[id][a] # "NoRow" /\ DlMarkDone(id, a)
<1> USE DEF TypeInv, TypeOK, StagingTypeOK, LsTypeOK, tables
<1>1. ASSUME NEW s \in Sessions, SmtpChange(s), recips[id][a] # "Done" PROVE FALSE
  <2>1. id = smtpID[s] /\ recips'[id] # recips[id]
    BY <1>1, SmtpRows
  <2>2. ~CloseUnauth(s) /\ ~CloseLocal(s) /\ ~CloseRemote(s)
    BY <1>1, <2>1 DEF CloseUnauth, CloseLocal, CloseRemote, SetState
  <2>3. ~RemoveRecipients(s)
    BY <1>1, <2>1 DEF RemoveRecipients, NoRecipients
  <2>4. ASSUME NEW b \in Addrs, AddRecipient(s, b) PROVE FALSE
    <3> HIDE DEF TypeInv
    <3>1. recips'[id][a] \in {"Receiving", recips[id][a]}
      BY <2>4, AddRow
    <3> QED
      BY <1>1, <3>1
  <2>5. ~Turn(s) /\ ~RemoveRow(s) /\ ~ \E auth \in BOOLEAN : NewMessage(s, auth)
    BY <2>1 DEF NewMessage, Turn, RemoveRow
  <2> QED
    BY <1>1, <2>2, <2>3, <2>4, <2>5 DEF SmtpChange
<1>2. CASE UNCHANGED recips
  BY <1>2
<1>3. ASSUME NEW i \in StagingIDs, NEW now \in Clock, ProcSave(i, now) PROVE recips[id][a] = "Done"
  <2> HIDE DEF TypeInv
  <2>1. SetState(i, Addrs, AnyState, "Received")
    BY <1>3 DEF ProcSave
  <2>2. recips'[id][a] \in {"Received", recips[id][a]}
    BY <2>1, StateSet
  <2> QED
    BY <2>2
<1>4. ASSUME NEW u \in Users, LsSetSent(u), recips[id][a] # "Done"
      PROVE  recips[id][a] = "Received" /\ id = lsCur[u] /\ a \in AddrsOf(u)
  <2>1. lsCur[u] \in StagingIDs /\ SetState(lsCur[u], AddrsOf(u), {"Received"}, "Done")
    BY <1>4 DEF LsSetSent, StagingIDs
  <2> HIDE DEF TypeInv
  <2> QED
    BY <1>4, <2>1, StateSet
<1>5. ASSUME NEW i \in StagingIDs, NEW c \in Addrs, DlMarkDone(i, c), recips[id][a] # "Done"
      PROVE  i = id /\ c = a /\ recips[id][a] # "NoRow"
  <2> HIDE DEF TypeInv
  <2>1. SetState(i, {c}, AnyState, "Done")
    BY <1>5 DEF DlMarkDone
  <2> QED
    BY <1>5, <2>1, StateSet DEF AnyState
<1> QED
  BY <1>1, <1>2, <1>3, <1>4, <1>5, StepCases
  DEF LoopChange, Rest, ProcChange, LsChange, DlChange, ProcCollect, LsCollectMsgs, LsStore, DlCollect,
    SendsOff, SendResult, DlLogResult, Crash

\* What the deliverer works on was Sending, and a success that it has still to
\* record happened and is logged, or will be before it is marked.
LEMMA DlWork ==
  ASSUME TypeInv, [Next]_vars, NEW id \in StagingIDs, NEW a \in Addrs
  PROVE  /\ a \in dlRcpts'[id] => a \in dlRcpts[id] \/ recips[id][a] = "Sending"
         /\ a \in dlOK'[id] =>
              \/ a \in dlOK[id] /\ (a \in dlLog[id] => a \in dlLog'[id] \/ <<id, a, 250>> \in deliveries')
              \/ a \in dlRcpts[id] /\ <<raw[id], a>> \in sent' /\ a \in dlLog'[id]
<1> USE DEF TypeInv, TypeOK, DlTypeOK
<1> DEFINE G == /\ a \in dlRcpts'[id] => a \in dlRcpts[id] \/ recips[id][a] = "Sending"
                /\ a \in dlOK'[id] =>
                     \/ a \in dlOK[id] /\ (a \in dlLog[id] => a \in dlLog'[id] \/ <<id, a, 250>> \in deliveries')
                     \/ a \in dlRcpts[id] /\ <<raw[id], a>> \in sent' /\ a \in dlLog'[id]
<1>1. CASE DlCollect
  <2>1. PICK W \in SUBSET SendingRows : dlRcpts' = [i \in StagingIDs |-> {c \in Addrs : <<i, c>> \in W}]
    BY <1>1 DEF DlCollect, Windows
  <2>2. a \in dlRcpts'[id] => recips[id][a] = "Sending"
    BY <2>1 DEF SendingRows
  <2> QED
    BY <1>1, <2>2 DEF DlCollect
<1>2. ASSUME NEW i \in StagingIDs, SendsOff(i) PROVE G
  <2>1. PICK acc \in SUBSET dlRcpts[i], res \in SUBSET dlRcpts[i], ok \in SUBSET dlRcpts[i] :
               ok \subseteq acc \cap res /\ SendResult(i, acc, res, ok)
    BY <1>2 DEF SendsOff
  <2> QED
    BY <2>1 DEF SendResult
<1>3. ASSUME NEW i \in StagingIDs, NEW c \in Addrs, DlLogResult(i, c) PROVE G
  BY <1>3 DEF DlLogResult
<1>4. ASSUME NEW i \in StagingIDs, NEW c \in Addrs, DlMarkDone(i, c) PROVE G
  BY <1>4 DEF DlMarkDone
<1>5. CASE Rest
  BY <1>5 DEF Rest
<1>6. CASE UNCHANGED dlVars
  BY <1>6 DEF dlVars
<1>7. CASE Crash
  BY <1>7 DEF Crash, Nobody
<1> HIDE DEF G
<1> QED
  BY <1>1, <1>2, <1>3, <1>4, <1>5, <1>6, <1>7, StepCases
  DEF SmtpChange, LoopChange, ProcChange, LsChange, DlChange, G
\* Nothing is marked done, or about to be, that has not been delivered.
LEMMA NextDone ==
  ASSUME QueueIDs, DoneInv, [Next]_vars
  PROVE  DoneInv'
<1> USE DEF QueueIDs
<1>0. /\ TypeInv' /\ recips \in [StagingIDs -> [Addrs -> DeliveryState]]
      /\ copies \in [Users -> [Subs -> Nat]] /\ copies' \in [Users -> [Subs -> Nat]]
      /\ dlRcpts' \in [StagingIDs -> SUBSET Addrs] /\ dlOK' \in [StagingIDs -> SUBSET Addrs]
      /\ dlRcpts \in [StagingIDs -> SUBSET Addrs]
      /\ lsCur \in [Users -> 0..MaxStagingID] /\ LocalAddrs \subseteq Addrs
      /\ \A id \in StagingIDs : raw[id] \in Subs => raw'[id] = raw[id]
  BY NextType, NextRaw, StagingAssumption
  DEF TypeInv, TypeOK, StagingTypeOK, LsTypeOK, DlTypeOK, LocalAddrs
<1>1. \A u \in Users, b \in Subs : copies[u][b] > 0 => copies'[u][b] > 0
  BY <1>0, HistoryGrows
<1>2. DoneMeansDelivered' /\ DoneSaved'
  <2> SUFFICES ASSUME NEW id \in StagingIDs, NEW a \in Addrs, recips'[id][a] = "Done"
               PROVE  /\ raw'[id] \in Subs
                      /\ a \in LocalAddrs => copies'[UserAddresses[a]][raw'[id]] > 0
                      /\ a \notin LocalAddrs => <<raw'[id], a>> \in sent' /\ <<id, a, 250>> \in deliveries'
    BY DEF DoneMeansDelivered, DoneSaved
  <2>1. CASE recips[id][a] = "Done"
    <3>1. raw[id] \in Subs /\ raw'[id] = raw[id]
      BY <1>0, <2>1 DEF DoneInv, DoneSaved
    <3>2. CASE a \in LocalAddrs
      <4>1. UserAddresses[a] \in Users
        BY <3>2 DEF Users
      <4>2. copies[UserAddresses[a]][raw[id]] > 0
        BY <2>1, <3>2 DEF DoneInv, DoneMeansDelivered
      <4> QED
        BY <1>1, <3>1, <3>2, <4>1, <4>2
    <3>3. CASE a \notin LocalAddrs
      BY <2>1, <3>1, <3>3, HistoryGrows DEF DoneInv, DoneMeansDelivered
    <3> QED
      BY <3>2, <3>3
  <2>2. ASSUME NEW u \in Users, LsSetSent(u), id = lsCur[u], a \in AddrsOf(u)
        PROVE  raw'[id] \in Subs /\ a \in LocalAddrs /\ copies'[UserAddresses[a]][raw'[id]] > 0
    <3>1. raw[id] \in Subs /\ copies[u][raw[id]] > 0
      BY <2>2 DEF LsSetSent, DoneInv, CurStored
    <3>2. a \in LocalAddrs /\ UserAddresses[a] = u
      BY <2>2 DEF AddrsOf
    <3> QED
      BY <1>0, <1>1, <3>1, <3>2
  <2>3. CASE DlMarkDone(id, a)
    <3>1. a \in dlOK[id] /\ dlLog[id] = {}
      BY <2>3 DEF DlMarkDone
    <3>2. raw[id] \in Subs /\ <<raw[id], a>> \in sent /\ <<id, a, 250>> \in deliveries /\ a \notin LocalAddrs
      BY <3>1 DEF DoneInv, ResultsTrue, SendingIsRemote
    <3> QED
      BY <1>0, <3>2, HistoryGrows
  <2> QED
    BY <2>1, <2>2, <2>3, NewDone
<1>3. CurStored'
  <2>1. ASSUME NEW u \in Users, lsCur'[u] # 0, lsCur'[u] = lsCur[u]
        PROVE  raw'[lsCur[u]] \in Subs /\ copies'[u][raw'[lsCur[u]]] > 0
    <3>1. lsCur[u] \in StagingIDs /\ raw[lsCur[u]] \in Subs /\ copies[u][raw[lsCur[u]]] > 0
      BY <1>0, <2>1 DEF DoneInv, CurStored, StagingIDs
    <3> QED
      BY <1>0, <1>1, <3>1
  <2>2. ASSUME NEW u \in Users, NEW r \in lsRows[u], LsStore(u, r)
        PROVE  lsCur' = [lsCur EXCEPT ![u] = r[1]] /\ raw'[r[1]] \in Subs /\ copies'[u][raw'[r[1]]] > 0
    <3>1. r[1] \in StagingIDs /\ full[r[1]] \in Subs /\ raw[r[1]] = full[r[1]]
      BY <2>2 DEF LsStore, CanStore, RawInv, StoreInv, TypeInv, TypeOK, LsTypeOK
    <3>2. copies' = [copies EXCEPT ![u][full[r[1]]] = @ + 1] /\ lsCur' = [lsCur EXCEPT ![u] = r[1]]
      BY <2>2 DEF LsStore
    <3>3. copies'[u][full[r[1]]] = copies[u][full[r[1]]] + 1 /\ copies[u][full[r[1]]] \in Nat
      BY <1>0, <3>1, <3>2
    <3> QED
      BY <1>0, <3>1, <3>2, <3>3
  <2>3. CASE \E u \in Users : \E r \in lsRows[u] : LsStore(u, r)
    BY <1>0, <2>1, <2>2, <2>3 DEF CurStored
  <2>4. CASE ~ \E u \in Users : \E r \in lsRows[u] : LsStore(u, r)
    <3>1. \A u \in Users : lsCur'[u] \in {lsCur[u], 0}
      BY <1>0, <2>4, StepCases
      DEF SmtpChange, LoopChange, Rest, ProcChange, LsChange, DlChange, LsCollectMsgs, LsSetSent, Crash, lsVars
    <3> QED
      BY <2>1, <3>1 DEF CurStored
  <2> QED
    BY <2>3, <2>4
<1>4. LocalsMarked'
  <2> SUFFICES ASSUME NEW t \in Sessions, smtpPc'[t] = "localDone", NEW a \in LocalAddrs,
                      recips'[smtpID'[t]][a] = "Receiving"
               PROVE  FALSE
    BY DEF LocalsMarked
  <2>0. PICK id : id = smtpID[t]
    OBVIOUS
  <2>1. ~ \E auth \in BOOLEAN : NewMessage(t, auth)
    BY DEF NewMessage, TypeInv, TypeOK, SmtpTypeOK
  <2>2. /\ smtpPc[t] # "none" /\ id \in StagingIDs /\ smtpID'[t] = id /\ a \in Addrs
        /\ smtpPc[t] = "localDone" \/ CloseLocal(t)
    <3>1. CASE \E s \in Sessions, auth \in BOOLEAN : NewMessage(s, auth)
      BY <1>0, <2>0, <2>1, <3>1 DEF NewMessage, TypeInv, TypeOK, SmtpTypeOK, SmtpSane, Active
    <3>2. CASE ~ \E s \in Sessions, auth \in BOOLEAN : NewMessage(s, auth)
      BY <1>0, <2>0, <3>2, SessionsMove DEF TypeInv, SmtpSane, Active
    <3> QED
      BY <3>1, <3>2
  <2>3. CASE CloseLocal(t)
    <3>1. SetState(id, LocalAddrs, AnyState, "ToProcess")
      BY <2>0, <2>3 DEF CloseLocal
    <3>2. recips'[id][a] = IF recips[id][a] \in AnyState THEN "ToProcess" ELSE recips[id][a]
      BY <2>2, <3>1, StateSet
    <3> QED
      BY <1>0, <2>2, <3>2 DEF AnyState, DeliveryState
  <2>4. CASE smtpPc[t] = "localDone"
    <3>1. recips[id][a] # "Receiving"
      BY <2>0, <2>4 DEF DoneInv, LocalsMarked
    <3>2. CASE LoopChange
      BY <2>2, <3>1, <3>2, LoopRows
    <3>3. ASSUME NEW s \in Sessions, SmtpChange(s) PROVE recips'[id] = recips[id]
      <4>1. CASE s = t
        BY <2>4, <3>3, <4>1
        DEF SmtpChange, NewMessage, AddRecipient, Turn, CloseUnauth, CloseLocal, CloseRemote, Acknowledge,
          Forget, RemoveRecipients, RemoveRow, At, TypeInv, TypeOK, SmtpTypeOK
      <4>2. CASE s # t
        BY <2>0, <2>2, <3>3, <4>2, SmtpRows DEF IDInv, Active
      <4> QED
        BY <4>1, <4>2
    <3>4. CASE Crash
      BY <3>4 DEF Crash
    <3> QED
      BY <2>2, <3>1, <3>2, <3>3, <3>4, StepCases
  <2> QED
    BY <2>2, <2>3, <2>4
<1>5. SendingIsRemote'
  <2> SUFFICES ASSUME NEW id \in StagingIDs, NEW a \in LocalAddrs
               PROVE  recips'[id][a] # "Sending" /\ a \notin dlRcpts'[id] \cup dlOK'[id]
    BY DEF SendingIsRemote
  <2>0. a \in Addrs /\ recips[id][a] # "Sending" /\ a \notin dlRcpts[id] \cup dlOK[id]
    BY <1>0 DEF DoneInv, SendingIsRemote
  <2>1. a \notin dlRcpts'[id] \cup dlOK'[id]
    BY <2>0, DlWork
  <2>2. ASSUME NEW s \in Sessions, CloseRemote(s), id = smtpID[s], recips[id][a] = "Receiving" PROVE FALSE
    BY <2>2 DEF CloseRemote, At, DoneInv, LocalsMarked
  <2> QED
    BY <2>0, <2>1, <2>2, NewSending
<1>6. ResultsTrue'
  <2> SUFFICES ASSUME NEW id \in StagingIDs, NEW a \in dlOK'[id]
               PROVE  /\ raw'[id] \in Subs /\ <<raw'[id], a>> \in sent'
                      /\ a \in dlLog'[id] \/ <<id, a, 250>> \in deliveries'
    BY DEF ResultsTrue
  <2>0. a \in Addrs
    BY <1>0
  <2>1. CASE a \in dlOK[id] /\ (a \in dlLog[id] => a \in dlLog'[id] \/ <<id, a, 250>> \in deliveries')
    BY <1>0, <2>1, HistoryGrows DEF DoneInv, ResultsTrue
  <2>2. CASE a \in dlRcpts[id] /\ <<raw[id], a>> \in sent' /\ a \in dlLog'[id]
    BY <1>0, <2>2 DEF TypeInv, SendingSaved
  <2> QED
    BY <2>0, <2>1, <2>2, DlWork
<1> QED
  BY <1>2, <1>3, <1>4, <1>5, <1>6 DEF DoneInv

\* Nothing is done in the beginning.
LEMMA InitDone == Init => DoneInv
BY StagingAssumption
   DEF Init, StagingInit, SmtpInit, LsInit, DlInit, DoneInv, DoneMeansDelivered, DoneSaved, CurStored,
     LocalsMarked, SendingIsRemote, ResultsTrue, NoRecipients, Nobody, LocalAddrs

\* A recipient marked Done has got the mail, into the mailbox or from the
\* remote server and with the delivery on record, whatever failed or was
\* started over in between.
THEOREM DoneIsDelivered == Spec => []DoneMeansDelivered
<1>1. DoneInv => DoneMeansDelivered
  BY DEF DoneInv
<1>2. QueueIDs /\ DoneInv /\ [Next]_vars => DoneInv'
  BY NextDone
<1> QED
  BY <1>1, <1>2, InitQueue, NextQueue, InitDone, PTL DEF Spec
(***************************************************************************)
(* What a loop finds it can load.                                          *)
(***************************************************************************)
\* Only Close hands recipients to the processor.
LEMMA NewToProcess ==
  ASSUME TypeInv, [Next]_vars, NEW id \in StagingIDs, NEW a \in Addrs, recips'[id][a] = "ToProcess"
  PROVE  \/ recips[id][a] = "ToProcess"
         \/ \E s \in Sessions : (CloseUnauth(s) \/ CloseLocal(s)) /\ id = smtpID[s]
<1>1. CASE LoopChange
  BY <1>1, LoopRows
<1>2. CASE Crash
  BY <1>2 DEF Crash, tables
<1>3. ASSUME NEW s \in Sessions, SmtpChange(s), recips[id][a] # "ToProcess"
      PROVE  (CloseUnauth(s) \/ CloseLocal(s)) /\ id = smtpID[s]
  <2>1. id = smtpID[s] /\ recips'[id] # recips[id]
    BY <1>3, SmtpRows
  <2>2. ~CloseRemote(s)
    <3>1. ASSUME CloseRemote(s) PROVE SetState(id, Addrs, {"Receiving"}, "Sending")
      BY <2>1, <3>1 DEF CloseRemote
    <3> QED
      BY <1>3, <3>1, StateSet
  <2>3. ~RemoveRecipients(s)
    BY <1>3, <2>1 DEF RemoveRecipients, NoRecipients, TypeInv, TypeOK, StagingTypeOK
  <2>4. ASSUME NEW b \in Addrs, AddRecipient(s, b) PROVE FALSE
    <3>1. recips'[id][a] \in {"Receiving", recips[id][a]}
      BY <2>4, AddRow
    <3> QED
      BY <1>3, <3>1
  <2>5. ~Turn(s) /\ ~RemoveRow(s) /\ ~ \E auth \in BOOLEAN : NewMessage(s, auth)
    BY <2>1 DEF NewMessage, Turn, RemoveRow
  <2> QED
    BY <1>3, <2>1, <2>2, <2>3, <2>4, <2>5 DEF SmtpChange
<1> QED
  BY <1>1, <1>2, <1>3, StepCases

\* Only processSave makes recipients Received.
LEMMA NewReceived ==
  ASSUME TypeInv, [Next]_vars, NEW id \in StagingIDs, NEW a \in Addrs, recips'[id][a] = "Received"
  PROVE  recips[id][a] = "Received" \/ (recips[id][a] # "NoRow" /\ \E now \in Clock : ProcSave(id, now))
<1> USE DEF tables
<1>1. ASSUME NEW s \in Sessions, SmtpChange(s), recips[id][a] # "Received" PROVE FALSE
  <2>1. id = smtpID[s] /\ recips'[id] # recips[id]
    BY <1>1, SmtpRows
  <2>2. ASSUME CloseUnauth(s) \/ CloseLocal(s) \/ CloseRemote(s) PROVE FALSE
    <3>1. \E who, from : SetState(id, who, from, "ToProcess") \/ SetState(id, who, from, "Sending")
      BY <2>1, <2>2 DEF CloseUnauth, CloseLocal, CloseRemote
    <3> QED
      BY <1>1, <3>1, StateSet
  <2>3. ~RemoveRecipients(s)
    BY <1>1, <2>1 DEF RemoveRecipients, NoRecipients, TypeInv, TypeOK, StagingTypeOK
  <2>4. ASSUME NEW b \in Addrs, AddRecipient(s, b) PROVE FALSE
    <3>1. recips'[id][a] \in {"Receiving", recips[id][a]}
      BY <2>4, AddRow
    <3> QED
      BY <1>1, <3>1
  <2>5. ~Turn(s) /\ ~RemoveRow(s) /\ ~ \E auth \in BOOLEAN : NewMessage(s, auth)
    BY <2>1 DEF NewMessage, Turn, RemoveRow
  <2> QED
    BY <1>1, <2>2, <2>3, <2>4, <2>5 DEF SmtpChange
<1>2. CASE UNCHANGED recips
  BY <1>2
<1>3. ASSUME NEW i \in StagingIDs, NEW now \in Clock, ProcSave(i, now), recips[id][a] # "Received"
      PROVE  i = id /\ recips[id][a] # "NoRow"
  <2>1. SetState(i, Addrs, AnyState, "Received")
    BY <1>3 DEF ProcSave
  <2> QED
    BY <1>3, <2>1, StateSet DEF AnyState
<1>4. ASSUME NEW u \in Users, LsSetSent(u) PROVE recips[id][a] = "Received"
  <2>1. lsCur[u] \in StagingIDs /\ SetState(lsCur[u], AddrsOf(u), {"Received"}, "Done")
    BY <1>4 DEF LsSetSent, StagingIDs, TypeInv, TypeOK, LsTypeOK
  <2> QED
    BY <2>1, StateSet
<1>5. ASSUME NEW i \in StagingIDs, NEW c \in Addrs, DlMarkDone(i, c) PROVE recips[id][a] = "Received"
  <2>1. SetState(i, {c}, AnyState, "Done")
    BY <1>5 DEF DlMarkDone
  <2> QED
    BY <2>1, StateSet
<1> QED
  BY <1>1, <1>2, <1>3, <1>4, <1>5, StepCases
  DEF LoopChange, Rest, ProcChange, LsChange, DlChange, ProcCollect, LsCollectMsgs, LsStore, DlCollect,
    SendsOff, SendResult, DlLogResult, Crash

\* Close marks rows of its own StagingID.
Handing(s) == CloseUnauth(s) \/ CloseLocal(s) \/ CloseRemote(s)

\* A recipient gets into the hands of a loop by Close, by processSave of a
\* StagingID that is being processed, or by recordDelivery.
LEMMA NewHanded ==
  ASSUME TypeInv, [Next]_vars, NEW id \in StagingIDs, NEW a \in Addrs, recips'[id][a] \in Handed
  PROVE  \/ recips[id][a] \in Handed
         \/ \E s \in Sessions : Handing(s) /\ id = smtpID[s]
         \/ recips[id][a] # "NoRow" /\ \E now \in Clock : ProcSave(id, now)
         \/ DlMarkDone(id, a)
BY NewToProcess, NewSending, NewReceived, NewDone DEF Handed, Handing

\* Only RCPT makes a row.
LEMMA RowsAdded ==
  ASSUME TypeInv, [Next]_vars, NEW id \in StagingIDs, NEW a \in Addrs, recips'[id][a] # "NoRow"
  PROVE  recips[id][a] # "NoRow" \/ \E s \in Sessions : AddRecipient(s, a) /\ id = smtpID[s]
<1>1. CASE LoopChange
  BY <1>1, LoopRows
<1>2. CASE Crash
  BY <1>2 DEF Crash, tables
<1>3. ASSUME NEW s \in Sessions, SmtpChange(s), recips[id][a] = "NoRow" PROVE AddRecipient(s, a) /\ id = smtpID[s]
  <2>1. id = smtpID[s] /\ recips'[id] # recips[id]
    BY <1>3, SmtpRows
  <2>2. ASSUME Handing(s) PROVE FALSE
    <3>1. \E who, to : SetState(id, who, AnyState, to) \/ SetState(id, who, {"Receiving"}, to)
      BY <2>1, <2>2 DEF CloseUnauth, CloseLocal, CloseRemote, Handing
    <3> QED
      BY <1>3, <3>1, StateSet DEF AnyState
  <2>3. ~RemoveRecipients(s)
    BY <1>3, <2>1 DEF RemoveRecipients, NoRecipients, TypeInv, TypeOK, StagingTypeOK
  <2>4. ASSUME NEW b \in Addrs, AddRecipient(s, b) PROVE a = b
    BY <1>3, <2>4, AddRow
  <2>5. ~Turn(s) /\ ~RemoveRow(s) /\ ~ \E auth \in BOOLEAN : NewMessage(s, auth)
    BY <2>1 DEF NewMessage, Turn, RemoveRow
  <2> QED
    BY <1>3, <2>1, <2>2, <2>3, <2>4, <2>5 DEF SmtpChange, Handing
<1> QED
  BY <1>1, <1>2, <1>3, StepCases

\* collectToProcess takes what is ToProcess.
LEMMA NewBatch ==
  ASSUME TypeInv, [Next]_vars, NEW id \in StagingIDs, id \in procBatch'
  PROVE  id \in procBatch \/ \E a \in Addrs : recips[id][a] = "ToProcess"
<1>1. CASE ProcCollect
  BY <1>1 DEF ProcCollect, Lowest, ToProcessIDs
<1> QED
  BY <1>1, StepCases
  DEF SmtpChange, LoopChange, Rest, ProcChange, LsChange, DlChange, ProcSave, Crash, procVars

\* Only removeMsg deletes from Msgs, and only processSave stores and dates.
LEMMA MsgKept ==
  ASSUME TypeInv, [Next]_vars, NEW id \in msgs,
         ~ \E s \in Sessions : RemoveRow(s) /\ id = smtpID[s]
  PROVE  /\ id \in msgs'
         /\ (~ \E now \in Clock : ProcSave(id, now)) => readyDate'[id] = readyDate[id] /\ full'[id] = full[id]
<1> USE DEF TypeInv, TypeOK, StagingTypeOK
<1>1. CASE UNCHANGED <<msgs, readyDate, full>>
  BY <1>1
<1>2. ASSUME NEW s \in Sessions, NEW auth \in BOOLEAN, NewMessage(s, auth)
      PROVE  id \in msgs' /\ UNCHANGED <<readyDate, full>>
  BY <1>2 DEF NewMessage
<1>3. ASSUME NEW s \in Sessions, RemoveRow(s)
      PROVE  id \in msgs' /\ readyDate'[id] = readyDate[id] /\ full' = full
  BY <1>3 DEF RemoveRow
<1>4. ASSUME NEW i \in StagingIDs, NEW now \in Clock, ProcSave(i, now)
      PROVE  id \in msgs' /\ (i # id => readyDate'[id] = readyDate[id] /\ full'[id] = full[id])
  BY <1>4 DEF ProcSave
<1> QED
  BY <1>1, <1>2, <1>3, <1>4, StepCases, ZenonT(60)
  DEF SmtpChange, AddRecipient, Turn, CloseUnauth, CloseLocal, CloseRemote, RemoveRecipients, LoopChange,
    Rest, ProcChange, ProcCollect, LsChange, LsCollectMsgs, LsStore, LsSetSent, DlChange, DlCollect,
    SendsOff, SendResult, DlLogResult, DlMarkDone, Crash, tables
(***************************************************************************)
(* Recipients of accepted mail in the hands of the processor.              *)
(***************************************************************************)
\* The processor gets a StagingID from Close and nobody else.
LEMMA NewCollectable ==
  ASSUME TypeInv, [Next]_vars, NEW id \in StagingIDs, Collectable(id)'
  PROVE  Collectable(id) \/ \E s \in Sessions : (CloseUnauth(s) \/ CloseLocal(s)) /\ id = smtpID[s]
BY NewToProcess, NewBatch DEF Collectable

\* It marks what it has collected.
LEMMA NewProcessed ==
  ASSUME TypeInv, [Next]_vars, NEW id \in StagingIDs, Processed(id)'
  PROVE  Processed(id) \/ (id \in procBatch /\ raw[id] \in Subs /\ \E now \in Clock : ProcSave(id, now))
BY NewReceived DEF Processed, ProcSave, CanProcess

\* A message in Close has its StagingID for itself.
LEMMA LiveAlone ==
  ASSUME TypeInv, RawInv, IDInv, AcceptInv, NEW id \in StagingIDs, Live(id),
         NEW s \in Sessions, Active(s), smtpID[s] = id
  PROVE  smtpPc[s] = "localDone"
<1>1. CASE raw[id] \in acked
  <2>1. PICK i \in msgs : raw[i] = raw[id] /\ Free(i)
    BY <1>1 DEF AcceptInv, AckedRows
  <2>2. i = id
    BY <1>1, <2>1 DEF RawInv, StoreInv, TypeInv, TypeOK, StagingTypeOK
  <2> QED
    BY <2>1, <2>2 DEF Free
<1>2. CASE \E t \in Sessions : smtpPc[t] = "localDone" /\ smtpID[t] = id
  BY <1>2 DEF IDInv, Active
<1> QED
  BY <1>1, <1>2 DEF Live

\* A message that Close is not done with was not accepted before.
LEMMA NewLive ==
  ASSUME TypeInv, RawInv, IDInv, AcceptInv, [Next]_vars, NEW id \in StagingIDs, Live(id)'
  PROVE  Live(id) \/ \E s \in Sessions : (CloseUnauth(s) \/ CloseLocal(s)) /\ id = smtpID[s]
<1> USE DEF Active
<1>1. ASSUME NEW s \in Sessions, smtpPc'[s] = "localDone", smtpID'[s] = id
      PROVE  Live(id) \/ (CloseLocal(s) /\ id = smtpID[s])
  <2>1. ASSUME NEW t \in Sessions, NEW auth \in BOOLEAN, NewMessage(t, auth)
        PROVE  smtpPc[s] = "localDone" /\ smtpID[s] = id
    BY <1>1, <2>1 DEF NewMessage, TypeInv, TypeOK, SmtpTypeOK
  <2> QED
    BY <1>1, <2>1, SessionsMove DEF Live
<1>2. ASSUME raw'[id] \in acked PROVE Live(id)
  <2>1. PICK i \in msgs : raw[i] = raw'[id]
    BY <1>2 DEF AcceptInv, AckedRows
  <2>2. i \in StagingIDs /\ raw[i] \in Subs
    BY <1>2, <2>1 DEF TypeInv, TypeOK, StagingTypeOK
  <2>3. raw'[i] = raw'[id]
    BY <2>1, <2>2, NextRaw
  <2>4. i = id
    BY <2>1, <2>2, <2>3, NextRaw DEF RawInv, StoreInv
  <2> QED
    BY <1>2, <2>1, <2>4 DEF Live
<1>3. ASSUME NEW s \in Sessions, CloseUnauth(s) \/ CloseRemote(s), raw'[id] = smtpSub[s]
      PROVE  id = smtpID[s] /\ (CloseRemote(s) => Live(id))
  <2>1. smtpPc[s] \in {"rawBody", "localDone"} /\ UNCHANGED raw /\ (CloseRemote(s) => smtpPc[s] = "localDone")
    BY <1>3 DEF CloseUnauth, CloseRemote, At
  <2>2. smtpID[s] \in StagingIDs /\ raw[smtpID[s]] = smtpSub[s] /\ smtpSub[s] \in Subs
    BY <2>1 DEF TypeInv, SmtpSane, RawInv, RowInv
  <2>3. id = smtpID[s]
    BY <1>3, <2>1, <2>2 DEF RawInv, StoreInv
  <2> QED
    BY <2>1, <2>3 DEF Live
<1>4. ASSUME raw'[id] \in acked', raw'[id] \notin acked
      PROVE  \E s \in Sessions : (CloseUnauth(s) \/ CloseRemote(s)) /\ raw'[id] = smtpSub[s]
  BY <1>4, StepCases
  DEF SmtpChange, NewMessage, AddRecipient, Turn, CloseUnauth, CloseLocal, CloseRemote, Acknowledge,
    RemoveRecipients, RemoveRow, LoopChange, Crash, history
<1> QED
  BY <1>1, <1>2, <1>3, <1>4 DEF Live

\* A row of such a message only gets further on its way.
LEMMA LiveRow ==
  ASSUME TypeInv, RawInv, IDInv, AcceptInv, [Next]_vars, NEW id \in StagingIDs, Live(id), NEW a \in Addrs
  PROVE  /\ recips[id][a] \in LocalStates => recips'[id][a] \in LocalStates
         /\ recips[id][a] \in {"Received", "Done"} => recips'[id][a] \in {"Received", "Done"}
<1> USE DEF LocalStates
<1>1. CASE LoopChange
  BY <1>1, LoopRows
<1>2. CASE Crash
  BY <1>2 DEF Crash, tables
<1>3. ASSUME NEW s \in Sessions, SmtpChange(s), recips'[id] # recips[id]
      PROVE  SetState(id, Addrs, {"Receiving"}, "Sending")
  <2>1. Active(s) /\ id = smtpID[s] /\ smtpPc[s] = "localDone"
    BY <1>3, SmtpRows, LiveAlone
  <2> QED
    BY <1>3, <2>1
    DEF SmtpChange, NewMessage, AddRecipient, Turn, CloseUnauth, CloseLocal, CloseRemote,
      RemoveRecipients, RemoveRow, At
<1>4. ASSUME SetState(id, Addrs, {"Receiving"}, "Sending")
      PROVE  recips'[id][a] = IF recips[id][a] = "Receiving" THEN "Sending" ELSE recips[id][a]
  BY <1>4, StateSet
<1>5. ASSUME recips'[id] = recips[id] PROVE recips'[id][a] = recips[id][a]
  BY <1>5
<1> QED
  BY <1>1, <1>2, <1>3, <1>4, <1>5, StepCases

\* Its envelope is complete, and its body stored.
LEMMA LiveEnvelope ==
  ASSUME TypeInv, RawInv, [Next]_vars, NEW id \in StagingIDs, Live(id)
  PROVE  raw[id] \in Subs /\ raw'[id] = raw[id] /\ rcptsOf'[raw[id]] = rcptsOf[raw[id]]
<1>1. raw[id] \in Subs
  BY DEF Live, TypeInv, TypeOK, StagingTypeOK, SmtpSane, Active
<1>2. ASSUME NEW s \in Sessions, NEW c \in Addrs, AddRecipient(s, c)
      PROVE  rcptsOf'[raw[id]] = rcptsOf[raw[id]]
  <2>0. PICK b \in Subs : b = raw[id]
    BY <1>1
  <2>1. smtpSub[s] # b
    BY <1>2, <2>0, AddRow DEF RawInv, SubInv
  <2>2. rcptsOf'[b] = IF b = smtpSub[s] THEN rcptsOf[b] \cup {c} ELSE rcptsOf[b]
    BY <1>2, AddRow
  <2> QED
    BY <2>0, <2>1, <2>2
<1> QED
  BY <1>1, <1>2, NextRaw, RcptsKept

LEMMA NextCollected ==
  ASSUME TypeInv, RawInv, RemoteInv, [Next]_vars
  PROVE  CollectedSaved'
<1> SUFFICES ASSUME NEW id \in StagingIDs, Collectable(id)' \/ Processed(id)' PROVE raw'[id] \in Subs
  BY DEF CollectedSaved
<1>1. ASSUME NEW s \in Sessions, CloseUnauth(s) \/ CloseLocal(s), id = smtpID[s] PROVE raw[id] \in Subs
  BY <1>1 DEF CloseUnauth, CloseLocal, At, TypeInv, SmtpSane, Active
<1>2. raw[id] \in Subs
  BY <1>1, NewCollectable, NewProcessed DEF RemoteInv, CollectedSaved
<1> QED
  BY <1>2, NextRaw

LEMMA NextFresh ==
  ASSUME TypeInv, RawInv, IDInv, RemoteInv, [Next]_vars
  PROVE  BodyFresh'
<1> SUFFICES ASSUME NEW s \in Sessions, smtpPc'[s] = "rawBody"
             PROVE  (~Collectable(smtpID[s]) /\ ~Processed(smtpID[s]))'
  BY DEF BodyFresh
<1>0. PICK id : id = smtpID[s]
  OBVIOUS
<1>1. smtpPc[s] \in Early /\ Active(s) /\ smtpID'[s] = id /\ smtpSub'[s] = smtpSub[s]
  <2>1. ASSUME NEW t \in Sessions, NEW auth \in BOOLEAN, NewMessage(t, auth)
        PROVE  smtpPc'[s] = smtpPc[s] /\ smtpID'[s] = id /\ smtpSub'[s] = smtpSub[s]
    BY <1>0, <2>1 DEF NewMessage, TypeInv, TypeOK, SmtpTypeOK
  <2> QED
    BY <1>0, <2>1, SessionsMove DEF Active, Early
<1>2. id \in StagingIDs /\ smtpSub[s] \in Subs
  BY <1>0, <1>1 DEF TypeInv, SmtpSane
<1>3. ~Collectable(id) /\ ~Processed(id)
  <2>1. CASE smtpPc[s] = "rawBody"
    BY <1>0, <2>1 DEF RemoteInv, BodyFresh
  <2>2. CASE smtpPc[s] # "rawBody"
    <3>1. raw[id] # smtpSub[s]
      BY <1>1, <1>2, <2>2 DEF RawInv, SubInv, Early
    <3>2. raw'[id] = smtpSub[s]
      BY <1>1, NextRaw DEF RawInv, RowInv
    <3> QED
      BY <1>2, <3>1, <3>2, NextRaw DEF RemoteInv, CollectedSaved
  <2> QED
    BY <2>1, <2>2
<1>4. ASSUME NEW t \in Sessions, CloseUnauth(t) \/ CloseLocal(t), id = smtpID[t] PROVE FALSE
  <2>1. smtpPc[t] = "rawBody" /\ smtpPc'[t] # "rawBody"
    BY <1>4 DEF CloseUnauth, CloseLocal, Acknowledge, Forget, Goto, At, TypeInv, TypeOK, SmtpTypeOK
  <2> QED
    BY <1>0, <1>1, <1>4, <2>1 DEF IDInv, Active
<1>5. ~Collectable(id)' /\ ~Processed(id)'
  BY <1>2, <1>3, <1>4, NewCollectable, NewProcessed DEF Collectable
<1> QED
  BY <1>1, <1>5 DEF Collectable, Processed

LEMMA NextLive ==
  ASSUME TypeInv, RawInv, IDInv, AcceptInv, RemoteInv, [Next]_vars
  PROVE  LiveRows'
<1> USE DEF TypeInv, TypeOK, StagingTypeOK
<1> DEFINE InStates(i) == \E l \in LocalAddrs : recips[i][l] \in LocalStates
           Goal(i) == \/ rcptsOf[raw[i]] \subseteq LocalAddrs
                      \/ (Collectable(i) => InStates(i)) /\ (Processed(i) => LocalProcessed(i))
<1>0. LocalAddrs \subseteq Addrs
  BY StagingAssumption DEF LocalAddrs
<1> SUFFICES ASSUME NEW id \in StagingIDs, Live(id)' PROVE Goal(id)'
  BY DEF LiveRows
<1>1. CASE Live(id)
  <2>1. Goal(id)
    BY <1>1 DEF RemoteInv, LiveRows
  <2>2. raw'[id] = raw[id] /\ rcptsOf'[raw[id]] = rcptsOf[raw[id]]
    BY <1>1, LiveEnvelope
  <2>3. InStates(id) => InStates(id)'
    BY <1>0, <1>1, LiveRow
  <2>4. LocalProcessed(id) => LocalProcessed(id)'
    BY <1>0, <1>1, LiveRow DEF LocalProcessed
  <2>5. ASSUME NEW s \in Sessions, CloseUnauth(s) \/ CloseLocal(s), id = smtpID[s] PROVE FALSE
    BY <1>1, <2>5, LiveAlone DEF CloseUnauth, CloseLocal, At, Active
  <2>6. Collectable(id)' => Collectable(id)
    BY <2>5, NewCollectable
  <2>7. ASSUME NEW now \in Clock, ProcSave(id, now), InStates(id) PROVE LocalProcessed(id)'
    <3>1. PICK l \in LocalAddrs : recips[id][l] \in LocalStates
      BY <2>7
    <3>2. SetState(id, Addrs, AnyState, "Received")
      BY <2>7 DEF ProcSave
    <3>3. recips'[id][l] = "Received"
      BY <1>0, <3>1, <3>2, StateSet DEF LocalStates, AnyState, DeliveryState
    <3> QED
      BY <3>3 DEF LocalProcessed
  <2>8. ASSUME NEW now \in Clock, ProcSave(id, now) PROVE Collectable(id)
    BY <2>8 DEF ProcSave, Collectable
  <2> HIDE DEF InStates
  <2>9. ASSUME ~(rcptsOf[raw[id]] \subseteq LocalAddrs)
        PROVE  (Collectable(id)' => InStates(id)') /\ (Processed(id)' => LocalProcessed(id)')
    BY <2>1, <2>3, <2>4, <2>6, <2>7, <2>8, <2>9, NewProcessed
  <2> QED
    BY <2>2, <2>9
<1>2. ASSUME NEW s \in Sessions, CloseUnauth(s), id = smtpID[s] PROVE Goal(id)'
  <2>1. smtpPc[s] = "rawBody" /\ ~authOf[smtpSub[s]] /\ UNCHANGED <<raw, rcptsOf>>
    BY <1>2 DEF CloseUnauth, At, IsAuth
  <2>2. raw[id] = smtpSub[s] /\ smtpSub[s] \in Subs
    BY <1>2, <2>1 DEF RawInv, RowInv, SmtpSane, Active
  <2> QED
    BY <2>1, <2>2 DEF AcceptInv, EnvelopesLegal
<1>3. ASSUME NEW s \in Sessions, CloseLocal(s), id = smtpID[s] PROVE Goal(id)'
  <2>1. smtpPc[s] = "rawBody" /\ SetState(id, LocalAddrs, AnyState, "ToProcess")
    BY <1>3 DEF CloseLocal, At
  <2>2. ~Collectable(id) /\ ~Processed(id)
    BY <1>3, <2>1 DEF RemoteInv, BodyFresh
  <2>3. UNCHANGED procBatch
    BY <1>3, StepCases
    DEF SmtpChange, LoopChange, CloseLocal, Goto, At, Crash, procVars, smtpVars, SmtpTypeOK
  <2>4. \A a \in Addrs : recips'[id][a] = IF a \in LocalAddrs /\ recips[id][a] \in AnyState
                                            THEN "ToProcess" ELSE recips[id][a]
    BY <2>1, StateSet
  <2>5. ~Processed(id)'
    BY <2>2, <2>4 DEF Processed
  <2>6. Collectable(id)' => InStates(id)'
    BY <2>2, <2>3, <2>4 DEF Collectable, LocalStates
  <2> QED
    BY <2>5, <2>6
<1> QED
  BY <1>1, <1>2, <1>3, NewLive

\* A mail that was answered with 250 is in the queue for good, stored
\* completely and with every recipient: not even a failed second UPDATE of
\* Close, or a failed cleanup, of another message takes it away.  A remote
\* recipient is only passed over where processSave has marked a local one of
\* the same StagingID, also when the StagingID is used for the second time.
THEOREM NothingAcceptedIsLost == Spec => []AcceptedNotLost
<1>1. Init => RemoteInv
  BY DEF Init, StagingInit, SmtpInit, ProcInit, NoRecipients, RemoteInv, CollectedSaved, BodyFresh, LiveRows, Live,
    Collectable, Processed
<1>2. QueueIDs /\ RemoteInv /\ [Next]_vars => RemoteInv'
  BY NextCollected, NextFresh, NextLive DEF QueueIDs, RemoteInv
<1>3. QueueIDs /\ RemoteInv => AcceptedNotLost
  <2> SUFFICES ASSUME QueueIDs, RemoteInv, NEW b \in acked
               PROVE  \E id \in msgs : raw[id] = b /\ \A a \in rcptsOf[b] :
                        \/ a \in LocalAddrs /\ recips[id][a] \in {"ToProcess", "Received", "Done"}
                        \/ a \notin LocalAddrs /\ recips[id][a] \in {"Sending", "Done"}
                        \/ recips[id][a] = "Received" /\ LocalProcessed(id)
    BY DEF AcceptedNotLost
  <2>1. PICK id \in msgs :
          /\ raw[id] = b
          /\ \A a \in rcptsOf[b] : recips[id][a] \in IF a \in LocalAddrs THEN LocalStates ELSE RemoteStates
    BY DEF QueueIDs, AcceptInv, AckedRows
  <2>2. id \in StagingIDs /\ rcptsOf[b] \subseteq Addrs /\ Live(id)
    BY <2>1 DEF QueueIDs, TypeInv, TypeOK, StagingTypeOK, Live
  <2>3. ASSUME NEW a \in rcptsOf[b], a \notin LocalAddrs, recips[id][a] = "Received" PROVE LocalProcessed(id)
    BY <2>1, <2>2, <2>3 DEF RemoteInv, LiveRows, Processed
  <2> QED
    BY <2>1, <2>3 DEF LocalStates, RemoteStates
<1> QED
  BY <1>1, <1>2, <1>3, InitQueue, NextQueue, PTL DEF Spec

\* Close and removeMsg leave nothing behind that a loop could not load, as long
\* as not both the second UPDATE of Close and a DELETE of removeMsg may fail.
LEMMA NextQueueInv ==
  ASSUME ~({"remoteUpdate", "cleanup"} \subseteq FaultKinds), QueueIDs, DoneInv, QueueInv, [Next]_vars
  PROVE  QueueInv'
<1> USE DEF QueueIDs
<1>0. /\ msgs \subseteq StagingIDs /\ procBatch' \subseteq StagingIDs
      /\ recips' \in [StagingIDs -> [Addrs -> DeliveryState]]
      /\ \A id \in StagingIDs : raw[id] \in Subs => raw'[id] = raw[id]
  BY NextType, NextRaw DEF TypeInv, TypeOK, StagingTypeOK, ProcTypeOK
<1>1. ASSUME NEW s \in Sessions, RemoveRow(s), NEW a \in Addrs PROVE recips[smtpID[s]][a] \notin Handed
  <2>1. smtpPc[s] = "removeRow"
    BY <1>1 DEF RemoveRow, At
  <2>2. CASE "cleanup" \notin FaultKinds
    BY <2>1, <2>2 DEF QueueInv, RemovedEmpty, Handed
  <2>3. CASE "remoteUpdate" \notin FaultKinds
    BY <2>1, <2>3 DEF QueueInv, BatchHeld, Active
  <2> QED
    BY <2>2, <2>3
<1>2. ASSUME NEW id \in StagingIDs, NEW a \in Addrs, recips[id][a] \in Handed
      PROVE  id \in msgs /\ id \in msgs' /\ raw[id] \in Subs /\ raw'[id] = raw[id]
  <2>1. id \in msgs /\ raw[id] \in Subs
    BY <1>2 DEF QueueInv, HandedSaved
  <2>2. ~ \E s \in Sessions : RemoveRow(s) /\ id = smtpID[s]
    BY <1>1, <1>2
  <2> QED
    BY <1>0, <2>1, <2>2, MsgKept
<1>3. ASSUME NEW s \in Sessions, Handing(s)
      PROVE  smtpID[s] \in msgs' /\ raw'[smtpID[s]] \in Subs
  BY <1>3 DEF Handing, CloseUnauth, CloseLocal, CloseRemote, At, IDInv, Active, TypeInv, SmtpSane
<1>4. ASSUME NEW id \in StagingIDs, NEW a \in Addrs, recips[id][a] # "NoRow", NEW now \in Clock, ProcSave(id, now)
      PROVE  /\ id \in msgs /\ id \in msgs' /\ raw'[id] \in Subs
             /\ readyDate'[id] > 0 /\ full'[id] = raw'[id]
  <2>1. id \in procBatch /\ raw[id] \in Subs /\ UNCHANGED <<msgs, raw>>
    BY <1>4 DEF ProcSave, CanProcess
  <2>2. id \in msgs
    BY <1>4, <2>1 DEF QueueInv, RemovedEmpty, BatchHeld
  <2>3. /\ maxReadyDate' = NextReadyDate(now) /\ readyDate' = [readyDate EXCEPT ![id] = maxReadyDate']
        /\ full' = [full EXCEPT ![id] = raw[id]]
    BY <1>4, <2>2 DEF ProcSave
  <2>4. NextReadyDate(now) > 0
    BY ProcessorAssumption DEF NextReadyDate, Clock, TypeInv, TypeOK, ProcTypeOK
  <2> QED
    BY <2>1, <2>2, <2>3, <2>4 DEF TypeInv, TypeOK, StagingTypeOK
<1>5. ASSUME NEW id \in StagingIDs, NEW a \in Addrs, DlMarkDone(id, a)
      PROVE  id \in msgs' /\ raw'[id] \in Subs /\ Free(id)
  <2>1. a \in dlOK[id] /\ UNCHANGED <<msgs, raw>>
    BY <1>5 DEF DlMarkDone
  <2>2. id \in msgs /\ Free(id)
    BY <2>1 DEF DlInv, Sends
  <2>3. raw[id] \in Subs
    BY <2>1 DEF DoneInv, ResultsTrue
  <2> QED
    BY <2>1, <2>2, <2>3
<1>6. HandedSaved'
  <2> SUFFICES ASSUME NEW id \in StagingIDs, NEW a \in Addrs, recips'[id][a] \in Handed
               PROVE  id \in msgs' /\ raw'[id] \in Subs
    BY DEF HandedSaved, Handed
  <2> QED
    BY <1>2, <1>3, <1>4, <1>5, NewHanded
<1>7. QueueLoadable'
  <2>1. ASSUME NEW id \in StagingIDs, NEW a \in Addrs, recips'[id][a] = "Received"
        PROVE  id \in msgs' /\ readyDate'[id] > 0 /\ full'[id] = raw'[id]
    <3>1. CASE \E now \in Clock : ProcSave(id, now) /\ recips[id][a] # "NoRow"
      BY <1>4, <3>1
    <3>2. CASE ~ \E now \in Clock : ProcSave(id, now) /\ recips[id][a] # "NoRow"
      <4>1. recips[id][a] = "Received"
        BY <2>1, <3>2, NewReceived
      <4>2. id \in msgs /\ raw'[id] = raw[id]
        BY <1>2, <4>1 DEF Handed
      <4>3. readyDate[id] > 0 /\ full[id] = raw[id]
        BY <4>1 DEF QueueInv, QueueLoadable
      <4>4. ~ \E s \in Sessions : RemoveRow(s) /\ id = smtpID[s]
        BY <1>1, <4>1 DEF Handed
      <4>5. ~ \E now \in Clock : ProcSave(id, now)
        BY <3>2, <4>1
      <4> QED
        BY <4>2, <4>3, <4>4, <4>5, MsgKept
    <3> QED
      BY <3>1, <3>2
  <2> QED
    BY <1>6, <2>1 DEF HandedSaved, Handed, QueueLoadable
<1>8. ASSUME "cleanup" \notin FaultKinds PROVE RemovedEmpty'
  <2>0. RemovedEmpty
    BY <1>8 DEF QueueInv
  <2>1. ASSUME NEW id \in StagingIDs, NEW a \in Addrs, recips[id][a] = "NoRow", recips'[id][a] # "NoRow"
        PROVE  \E s \in Sessions : smtpPc[s] = "envelope" /\ id = smtpID[s] /\ id \in msgs /\ id \in msgs'
    <3>1. PICK s \in Sessions : AddRecipient(s, a) /\ id = smtpID[s]
      BY <2>1, RowsAdded
    <3>2. smtpPc[s] = "envelope" /\ UNCHANGED msgs
      BY <3>1 DEF AddRecipient, At
    <3> QED
      BY <3>1, <3>2 DEF IDInv, Active
  <2>2. ASSUME NEW id \in StagingIDs \ msgs', NEW a \in Addrs PROVE recips'[id][a] = "NoRow"
    <3>1. CASE id \notin msgs
      BY <2>0, <2>1, <3>1 DEF RemovedEmpty
    <3>2. CASE id \in msgs
      <4>1. PICK s \in Sessions : RemoveRow(s) /\ id = smtpID[s]
        BY <2>2, <3>2, MsgKept
      <4> QED
        BY <2>0, <4>1 DEF RemoveRow, At, RemovedEmpty
    <3> QED
      BY <3>1, <3>2
  <2>3. ASSUME NEW t \in Sessions, smtpPc'[t] = "removeRow", NEW a \in Addrs PROVE recips'[smtpID'[t]][a] = "NoRow"
    <3>1. ASSUME NEW s \in Sessions, NEW auth \in BOOLEAN, NewMessage(s, auth)
          PROVE  recips'[smtpID'[t]][a] = "NoRow"
      <4>1. s # t
        BY <2>3, <3>1 DEF NewMessage, TypeInv, TypeOK, SmtpTypeOK
      <4>2. smtpPc[t] = "removeRow" /\ smtpID'[t] = smtpID[t] /\ recips' = recips
        BY <2>3, <3>1, <4>1 DEF NewMessage, TypeInv, TypeOK, SmtpTypeOK
      <4> QED
        BY <2>0, <4>2 DEF RemovedEmpty
    <3>2. CASE ~ \E s \in Sessions, auth \in BOOLEAN : NewMessage(s, auth)
      <4>1. /\ smtpPc[t] # "none" /\ smtpID'[t] = smtpID[t] /\ smtpID[t] \in StagingIDs
            /\ smtpPc[t] = "removeRow" \/ RemoveRecipients(t)
        BY <1>8, <2>3, <3>2, SessionsMove DEF Active, TypeInv, SmtpSane
      <4>2. CASE RemoveRecipients(t)
        BY <4>1, <4>2 DEF RemoveRecipients, NoRecipients, TypeInv, TypeOK, StagingTypeOK
      <4>3. CASE smtpPc[t] = "removeRow"
        <5>1. recips[smtpID[t]][a] = "NoRow"
          BY <2>0, <4>3 DEF RemovedEmpty
        <5>2. ASSUME NEW s \in Sessions, smtpPc[s] = "envelope", smtpID[t] = smtpID[s] PROVE FALSE
          BY <4>3, <5>2 DEF IDInv, Active
        <5> QED
          BY <2>1, <4>1, <5>1, <5>2
      <4> QED
        BY <4>1, <4>2, <4>3
    <3> QED
      BY <3>1, <3>2
  <2> QED
    BY <2>2, <2>3 DEF RemovedEmpty
<1>9. ASSUME "remoteUpdate" \notin FaultKinds PROVE BatchHeld'
  <2>0. BatchHeld
    BY <1>9 DEF QueueInv
  <2>1. ASSUME NEW id \in StagingIDs, id \in procBatch' PROVE id \in msgs'
    <3>1. CASE id \in procBatch
      <4>1. ASSUME NEW s \in Sessions, RemoveRow(s), id = smtpID[s] PROVE FALSE
        BY <2>0, <3>1, <4>1 DEF RemoveRow, At, BatchHeld, Active
      <4> QED
        BY <2>0, <3>1, <4>1, MsgKept DEF BatchHeld
    <3>2. CASE id \notin procBatch
      BY <1>2, <2>1, <3>2, NewBatch DEF Handed
    <3> QED
      BY <3>1, <3>2
  <2>2. ASSUME NEW t \in Sessions, smtpPc'[t] # "none", smtpPc'[t] # "localDone"
        PROVE  smtpID'[t] \notin procBatch' /\ \A a \in Addrs : recips'[smtpID'[t]][a] \notin Handed
    <3>1. ASSUME NEW s \in Sessions, NEW auth \in BOOLEAN, NewMessage(s, auth)
          PROVE  smtpID'[t] \notin procBatch' /\ \A a \in Addrs : recips'[smtpID'[t]][a] \notin Handed
      <4>0. UNCHANGED <<recips, procBatch>>
        <5>1. recips' = recips
          BY <3>1 DEF NewMessage
        <5>2. nsub' # nsub
          BY <3>1 DEF NewMessage, TypeInv, TypeOK, StagingTypeOK
        <5> QED
          BY <5>1, <5>2, StepCases DEF SmtpChange, LoopChange, Crash, procVars, history
      <4>1. CASE s # t
        <5>1. smtpPc[t] = smtpPc'[t] /\ smtpID'[t] = smtpID[t]
          BY <3>1, <4>1 DEF NewMessage, TypeInv, TypeOK, SmtpTypeOK
        <5> QED
          BY <2>0, <2>2, <4>0, <5>1 DEF BatchHeld, Active
      <4>2. CASE s = t
        <5>1. PICK new \in StagingIDs : IsNextRowID(new) /\ smtpID' = [smtpID EXCEPT ![s] = new]
          BY <3>1 DEF NewMessage
        <5>2. new \notin msgs
          BY <5>1, NewIsUnused
        <5>3. smtpID'[t] = new
          BY <4>2, <5>1 DEF TypeInv, TypeOK, SmtpTypeOK
        <5> QED
          BY <1>2, <2>0, <4>0, <5>2, <5>3 DEF BatchHeld
      <4> QED
        BY <4>1, <4>2
    <3>2. CASE ~ \E s \in Sessions, auth \in BOOLEAN : NewMessage(s, auth)
      <4>0. PICK id : id = smtpID[t]
        OBVIOUS
      <4>1. smtpPc[t] # "none" /\ smtpPc[t] # "localDone" /\ smtpID'[t] = id /\ id \in StagingIDs
        BY <1>9, <2>2, <3>2, <4>0, SessionsMove DEF Active, TypeInv, SmtpSane
      <4>2. id \notin procBatch /\ \A a \in Addrs : recips[id][a] \notin Handed
        BY <2>0, <4>0, <4>1 DEF BatchHeld, Active
      <4>3. id \notin procBatch'
        BY <4>1, <4>2, NewBatch DEF Handed
      <4>4. ASSUME NEW s \in Sessions, Handing(s), id = smtpID[s] PROVE FALSE
        <5>1. s = t
          BY <4>0, <4>1, <4>4 DEF Handing, CloseUnauth, CloseLocal, CloseRemote, At, IDInv, Active
        <5> QED
          BY <2>2, <4>4, <5>1
          DEF Handing, CloseUnauth, CloseLocal, CloseRemote, Acknowledge, Forget, Goto, TypeInv, TypeOK, SmtpTypeOK
      <4>5. ~ \E now \in Clock : ProcSave(id, now)
        BY <4>2 DEF ProcSave
      <4>6. ASSUME NEW a \in Addrs, DlMarkDone(id, a) PROVE FALSE
        BY <1>5, <4>0, <4>1, <4>6 DEF Free, Active
      <4> QED
        BY <4>1, <4>2, <4>3, <4>4, <4>5, <4>6, NewHanded
    <3> QED
      BY <3>1, <3>2
  <2>3. \A t \in Sessions : Active(t)' /\ smtpPc'[t] # "localDone" =>
          smtpID'[t] \notin procBatch' /\ \A a \in Addrs : recips'[smtpID'[t]][a] \notin Handed
    BY <2>2 DEF Active
  <2> QED
    BY <1>0, <2>1, <2>3 DEF BatchHeld, Handed
<1> QED
  BY <1>6, <1>7, <1>8, <1>9 DEF QueueInv

\* An empty queue can be loaded.
LEMMA InitQueueInv == Init => QueueInv
BY DEF Init, StagingInit, SmtpInit, ProcInit, QueueInv, QueueLoadable, HandedSaved, RemovedEmpty, BatchHeld,
     NoRecipients, Handed, Active

\* Whatever a loop collects has its row in Msgs, its body and, for the local
\* sender, its ReadyDate and its processed form, unless both the second UPDATE
\* of a Close and the DELETE of the rows after it fail.
THEOREM QueueIsLoadable ==
  ASSUME ~({"remoteUpdate", "cleanup"} \subseteq FaultKinds)
  PROVE  Spec => []QueueLoadable
<1>1. QueueInv => QueueLoadable
  BY DEF QueueInv
<1>2. QueueIDs /\ DoneInv /\ QueueInv /\ [Next]_vars => QueueInv'
  BY NextQueueInv
<1>3. QueueIDs /\ DoneInv /\ [Next]_vars => DoneInv'
  BY NextDone
<1> QED
  BY <1>1, <1>2, <1>3, InitQueue, NextQueue, InitDone, InitQueueInv, PTL DEF Spec
(***************************************************************************)
(* Envelopes.                                                              *)
(***************************************************************************)
\* A remote server takes a mail for recipients the deliverer had to send to.
LEMMA NewSent ==
  ASSUME TypeInv, [Next]_vars, NEW d \in sent', d \notin sent
  PROVE  \E id \in StagingIDs : \E a \in dlRcpts[id] : d = <<raw[id], a>>
<1>1. PICK id \in StagingIDs : SendsOff(id)
  BY StepCases
  DEF SmtpChange, NewMessage, AddRecipient, Turn, CloseUnauth, CloseLocal, CloseRemote, RemoveRecipients,
    RemoveRow, LoopChange, Rest, ProcChange, ProcCollect, ProcSave, LsChange, LsCollectMsgs, LsStore,
    LsSetSent, DlChange, DlCollect, DlLogResult, DlMarkDone, Crash, history
<1>2. PICK acc \in SUBSET dlRcpts[id] : sent' = sent \cup {<<raw[id], a>> : a \in acc}
  BY <1>1 DEF SendsOff, SendResult
<1> QED
  BY <1>2

\* Only what was accepted is sent.
LEMMA NextRelayed ==
  ASSUME QueueIDs, RelayedInv, [Next]_vars
  PROVE  RelayedInv'
<1> USE DEF QueueIDs
<1>0. acked \subseteq Subs /\ \A id \in StagingIDs : raw[id] \in Subs => raw'[id] = raw[id]
  BY NextRaw DEF TypeInv, TypeOK, StagingTypeOK
<1>1. ASSUME NEW d \in sent' PROVE d[1] \in acked'
  <2>1. CASE d \in sent
    BY <2>1, HistoryGrows DEF RelayedInv
  <2>2. CASE d \notin sent
    <3>1. PICK id \in StagingIDs : \E a \in dlRcpts[id] : d = <<raw[id], a>>
      BY <2>2, NewSent
    <3>2. raw[id] \in acked
      BY <3>1 DEF RelayedInv, Sends
    <3> QED
      BY <3>1, <3>2, HistoryGrows
  <2> QED
    BY <2>1, <2>2
<1>2. ASSUME NEW id \in StagingIDs, Outgoing(id)' PROVE raw'[id] \in acked'
  <2>1. CASE Outgoing(id)
    BY <1>0, <2>1, HistoryGrows DEF RelayedInv, Outgoing
  <2>2. ASSUME NEW s \in Sessions, CloseRemote(s), id = smtpID[s] PROVE raw'[id] \in acked'
    BY <2>2 DEF CloseRemote, Acknowledge, At, RawInv, RowInv
  <2> QED
    BY <1>2, <2>1, <2>2, NewOutgoing
<1> QED
  BY <1>1, <1>2 DEF RelayedInv, Outgoing

\* A new message in a box: where it comes from, and that it was not there.
LEMMA Stored ==
  ASSUME TypeInv, RawInv, BoxInv, NEW u \in Users, NEW r \in lsRows[u], LsStore(u, r)
  PROVE  \E b \in Subs :
           /\ r[1] \in StagingIDs /\ raw[r[1]] = b /\ copies[u][b] = 0
           /\ \A v \in Users, c \in Subs : copies'[v][c] = IF v = u /\ c = b THEN 1 ELSE copies[v][c]
<1>1. PICK b : b = full[r[1]]
  OBVIOUS
<1>2. r[1] \in StagingIDs /\ b \in Subs /\ raw[r[1]] = b /\ r[1] \notin boxIDs[u]
  BY <1>1 DEF LsStore, CanStore, RawInv, StoreInv, TypeInv, TypeOK, LsTypeOK
<1>3. copies[u][b] = 0
  <2>1. copies[u][b] \in Nat /\ copies[u][b] <= 1
    BY <1>2 DEF BoxInv, TypeInv, TypeOK, LsTypeOK
  <2>2. ASSUME copies[u][b] = 1 PROVE FALSE
    <3>1. PICK i \in boxIDs[u] : raw[i] = b
      BY <1>2, <2>2 DEF BoxInv
    <3>2. i \in StagingIDs
      BY DEF TypeInv, TypeOK, LsTypeOK
    <3> QED
      BY <1>2, <3>1, <3>2 DEF RawInv, StoreInv
  <2> QED
    BY <2>1, <2>2
<1>4. copies' = [copies EXCEPT ![u][b] = @ + 1] /\ copies \in [Users -> [Subs -> Nat]]
  BY <1>1 DEF LsStore, TypeInv, TypeOK, LsTypeOK
<1>5. \A v \in Users, c \in Subs : copies'[v][c] = IF v = u /\ c = b THEN copies[v][c] + 1 ELSE copies[v][c]
  BY <1>2, <1>4
<1> QED
  BY <1>2, <1>3, <1>5

\* Only the local sender changes a box.
LEMMA NewCopies ==
  ASSUME TypeInv, [Next]_vars, ~UNCHANGED copies
  PROVE  \E u \in Users : \E r \in lsRows[u] : LsStore(u, r)
BY StepCases
DEF SmtpChange, LoopChange, Rest, ProcChange, LsChange, LsCollectMsgs, LsSetSent, DlChange, Crash, boxVars

\* What the local sender collects is Received, and the user's.
LEMMA NewRows ==
  ASSUME TypeInv, [Next]_vars, NEW u \in Users, NEW r \in lsRows'[u], r \notin lsRows[u]
  PROVE  r[1] \in StagingIDs /\ r[2] \in AddrsOf(u) /\ recips[r[1]][r[2]] = "Received" /\ UNCHANGED recips
<1> USE DEF TypeInv, TypeOK, LsTypeOK
<1>1. CASE \E v \in Users : LsCollectMsgs(v)
  <2>1. PICK v \in Users : \E W \in SUBSET WaitingRows(v) : lsRows' = [lsRows EXCEPT ![v] = W]
    BY <1>1 DEF LsCollectMsgs, Windows
  <2>2. v = u /\ r \in WaitingRows(u)
    BY <2>1
  <2> QED
    BY <1>1, <2>2 DEF WaitingRows, LsCollectMsgs, tables
<1>2. ASSUME NEW v \in Users, NEW q \in lsRows[v], LsStore(v, q) PROVE lsRows'[u] \subseteq lsRows[u]
  BY <1>2 DEF LsStore, Dequeue
<1>3. CASE ~ \E v \in Users : LsCollectMsgs(v)
  <2>1. lsRows'[u] \subseteq lsRows[u]
    BY <1>2, <1>3, StepCases
    DEF SmtpChange, LoopChange, Rest, ProcChange, LsChange, LsSetSent, DlChange, Crash, lsVars
  <2> QED
    BY <2>1
<1> QED
  BY <1>1, <1>3

\* A StagingID becomes busy when Close hands its recipients on.
LEMMA NewBusy ==
  ASSUME TypeInv, [Next]_vars, NEW id \in StagingIDs, Busy(id)'
  PROVE  Busy(id) \/ \E s \in Sessions : Handing(s) /\ id = smtpID[s]
<1>1. CASE id \in procBatch'
  BY <1>1, NewBatch DEF Busy, Handed
<1>2. CASE Sends(id)'
  BY <1>2, NewOutgoing DEF Outgoing, Busy, Handed, Handing
<1>3. ASSUME NEW a \in Addrs, recips'[id][a] \in Handed
      PROVE  Busy(id) \/ \E s \in Sessions : Handing(s) /\ id = smtpID[s]
  <2>1. ASSUME NEW now \in Clock, ProcSave(id, now) PROVE Busy(id)
    BY <2>1 DEF ProcSave, Busy
  <2>2. CASE DlMarkDone(id, a)
    BY <2>2 DEF DlMarkDone, Busy, Sends
  <2> QED
    BY <1>3, <2>1, <2>2, NewHanded DEF Busy
<1> QED
  BY <1>1, <1>2, <1>3 DEF Busy, Handed
\* Everything that is inductive together.
FullInv == QueueIDs /\ BoxInv /\ RelayInv /\ DoneInv /\ QueueInv /\ RelayedInv

\* As long as Close's second UPDATE and the DELETEs of removeMsg succeed, no row
\* outlives its envelope, and whoever uses a StagingID finds its own rows.
LEMMA NextEnvelope ==
  ASSUME "remoteUpdate" \notin FaultKinds, "cleanup" \notin FaultKinds, FullInv, EnvelopeInv, [Next]_vars
  PROVE  EnvelopeInv'
<1> USE DEF QueueIDs, FullInv
<1>0. /\ RemovedEmpty /\ BatchHeld
      /\ rcptsOf' \in [Subs -> SUBSET Addrs] /\ recips \in [StagingIDs -> [Addrs -> DeliveryState]]
      /\ dlRcpts' \in [StagingIDs -> SUBSET Addrs] /\ LocalAddrs \subseteq Addrs
      /\ lsRows' \in [Users -> SUBSET (StagingIDs \X Addrs)] /\ lsRows \in [Users -> SUBSET (StagingIDs \X Addrs)]
      /\ sent \subseteq Subs \X Addrs
      /\ \A id \in StagingIDs : raw[id] \in Subs => raw'[id] = raw[id]
      /\ \A b \in Subs : rcptsOf[b] \subseteq rcptsOf'[b]
  BY NextType, NextRaw, HistoryGrows, StagingAssumption
  DEF QueueInv, TypeInv, TypeOK, StagingTypeOK, LsTypeOK, DlTypeOK, LocalAddrs
<1>1. EnvelopeRespected'
  <2>1. ASSUME NEW d \in sent' PROVE d[2] \in rcptsOf'[d[1]]
    <3>1. CASE d \in sent
      BY <1>0, <3>1 DEF EnvelopeInv, EnvelopeRespected
    <3>2. CASE d \notin sent
      <4>1. PICK id \in StagingIDs : \E a \in dlRcpts[id] : d = <<raw[id], a>>
        BY <3>2, NewSent
      <4>2. raw[id] \in Subs
        BY <4>1 DEF TypeInv, SendingSaved
      <4> QED
        BY <1>0, <4>1, <4>2 DEF EnvelopeInv, WorkAddressed
    <3> QED
      BY <3>1, <3>2
  <2>2. ASSUME NEW u \in Users, NEW b \in Subs, copies'[u][b] > 0 PROVE AddrsOf(u) \cap rcptsOf'[b] # {}
    <3>1. CASE copies'[u][b] = copies[u][b]
      BY <1>0, <2>2, <3>1 DEF EnvelopeInv, EnvelopeRespected
    <3>2. CASE copies'[u][b] # copies[u][b]
      <4>1. PICK v \in Users : \E r \in lsRows[v] : LsStore(v, r)
        BY <3>2, NewCopies
      <4>2. PICK r \in lsRows[v] : LsStore(v, r)
        BY <4>1
      <4>3. raw[r[1]] = b /\ u = v
        BY <3>2, <4>2, Stored
      <4>4. r[2] \in AddrsOf(u) \cap rcptsOf[b]
        BY <4>3 DEF EnvelopeInv, WorkAddressed
      <4> QED
        BY <1>0, <4>4
    <3> QED
      BY <3>1, <3>2
  <2> QED
    BY <2>1, <2>2 DEF EnvelopeRespected, AddrsOf
<1>2. SessionRows'
  <2> SUFFICES ASSUME NEW t \in Sessions, smtpPc'[t] \in Early \cup {"localDone"}, NEW a \in Addrs,
                      recips'[smtpID'[t]][a] # "NoRow"
               PROVE  a \in rcptsOf'[smtpSub'[t]]
    BY DEF SessionRows, Early
  <2>1. ASSUME NEW s \in Sessions, NEW auth \in BOOLEAN, NewMessage(s, auth) PROVE a \in rcptsOf'[smtpSub'[t]]
    <3>1. CASE s # t
      <4>1. smtpPc'[t] = smtpPc[t] /\ smtpID'[t] = smtpID[t] /\ smtpSub'[t] = smtpSub[t] /\ UNCHANGED <<recips, rcptsOf>>
        BY <2>1, <3>1 DEF NewMessage, TypeInv, TypeOK, SmtpTypeOK
      <4> QED
        BY <4>1 DEF EnvelopeInv, SessionRows
    <3>2. CASE s = t
      <4>1. PICK new \in StagingIDs : IsNextRowID(new) /\ smtpID' = [smtpID EXCEPT ![s] = new]
        BY <2>1 DEF NewMessage
      <4>2. smtpID'[t] = new /\ UNCHANGED recips /\ new \notin msgs
        BY <2>1, <3>2, <4>1, NewIsUnused DEF NewMessage, TypeInv, TypeOK, SmtpTypeOK
      <4> QED
        BY <1>0, <4>2 DEF RemovedEmpty
    <3> QED
      BY <3>1, <3>2
  <2>2. CASE ~ \E s \in Sessions, auth \in BOOLEAN : NewMessage(s, auth)
    <3>1. /\ smtpPc[t] # "none" /\ smtpID'[t] = smtpID[t] /\ smtpSub'[t] = smtpSub[t]
          /\ smtpID[t] \in StagingIDs /\ smtpSub[t] \in Subs /\ smtpPc[t] \in Early \cup {"localDone"}
      BY <2>2, SessionsMove DEF Active, Early, TypeInv, SmtpSane, CloseLocal, At
    <3>2. CASE recips[smtpID[t]][a] # "NoRow"
      BY <1>0, <3>1, <3>2 DEF EnvelopeInv, SessionRows
    <3>3. CASE recips[smtpID[t]][a] = "NoRow"
      <4>1. PICK s \in Sessions : AddRecipient(s, a) /\ smtpID[t] = smtpID[s]
        BY <3>1, <3>3, RowsAdded
      <4>2. smtpPc[s] = "envelope"
        BY <4>1, AddRow
      <4>3. s = t
        BY <3>1, <4>1, <4>2 DEF IDInv, Active
      <4>4. rcptsOf'[smtpSub[t]] = rcptsOf[smtpSub[t]] \cup {a}
        BY <3>1, <4>1, <4>3, AddRow
      <4> QED
        BY <3>1, <4>4
    <3> QED
      BY <3>2, <3>3
  <2> QED
    BY <2>1, <2>2
<1>3. BusyRows'
  <2> SUFFICES ASSUME NEW id \in StagingIDs, Busy(id)'
               PROVE  /\ raw'[id] \in Subs
                      /\ \A a \in Addrs : recips'[id][a] # "NoRow" => a \in rcptsOf'[raw'[id]]
    BY DEF BusyRows
  <2>1. CASE Busy(id)
    <3>1. raw[id] \in Subs /\ raw'[id] = raw[id]
      BY <1>0, <2>1 DEF EnvelopeInv, BusyRows
    <3>2. ASSUME NEW s \in Sessions, smtpPc[s] = "envelope", id = smtpID[s] PROVE FALSE
      <4>1. id \notin procBatch /\ \A a \in Addrs : recips[id][a] \notin Handed
        BY <1>0, <3>2 DEF BatchHeld, Active
      <4>2. Sends(id)
        BY <2>1, <4>1 DEF Busy
      <4> QED
        BY <3>2, <4>2 DEF DlInv, Free, Active
    <3>3. ASSUME NEW a \in Addrs, recips'[id][a] # "NoRow" PROVE a \in rcptsOf'[raw[id]]
      <4>1. recips[id][a] # "NoRow"
        BY <3>2, <3>3, RowsAdded, AddRow
      <4> QED
        BY <1>0, <2>1, <3>1, <4>1 DEF EnvelopeInv, BusyRows
    <3> QED
      BY <3>1, <3>3
  <2>2. ASSUME NEW s \in Sessions, Handing(s), id = smtpID[s]
        PROVE  /\ raw'[id] \in Subs
               /\ \A a \in Addrs : recips'[id][a] # "NoRow" => a \in rcptsOf'[raw'[id]]
    <3>1. smtpPc[s] \in {"rawBody", "localDone"} /\ UNCHANGED <<raw, rcptsOf>>
      BY <2>2 DEF Handing, CloseUnauth, CloseLocal, CloseRemote, At, history
    <3>2. raw[id] = smtpSub[s] /\ raw[id] \in Subs
      BY <2>2, <3>1 DEF RawInv, RowInv, TypeInv, SmtpSane, Active
    <3>3. ASSUME NEW a \in Addrs, recips'[id][a] # "NoRow" PROVE a \in rcptsOf[raw[id]]
      <4>1. ASSUME NEW t \in Sessions, AddRecipient(t, a), id = smtpID[t] PROVE FALSE
        <5>1. smtpPc[t] = "envelope"
          BY <4>1, AddRow
        <5> QED
          BY <2>2, <3>1, <4>1, <5>1 DEF IDInv, Active
      <4>2. recips[id][a] # "NoRow"
        BY <3>3, <4>1, RowsAdded
      <4> QED
        BY <2>2, <3>1, <3>2, <4>2 DEF EnvelopeInv, SessionRows, Early
    <3> QED
      BY <3>1, <3>2, <3>3
  <2> QED
    BY <2>1, <2>2, NewBusy
<1>4. WorkAddressed'
  <2>1. ASSUME NEW id \in StagingIDs, NEW a \in dlRcpts'[id] PROVE a \in rcptsOf'[raw'[id]]
    <3>0. a \in Addrs
      BY <1>0
    <3>1. CASE a \in dlRcpts[id]
      <4>1. raw[id] \in Subs /\ a \in rcptsOf[raw[id]]
        BY <3>1 DEF TypeInv, SendingSaved, EnvelopeInv, WorkAddressed
      <4> QED
        BY <1>0, <4>1
    <3>2. CASE recips[id][a] = "Sending"
      <4>1. raw[id] \in Subs /\ a \in rcptsOf[raw[id]]
        BY <3>0, <3>2 DEF EnvelopeInv, BusyRows, Busy, Handed
      <4> QED
        BY <1>0, <4>1
    <3> QED
      BY <3>0, <3>1, <3>2, DlWork
  <2>2. ASSUME NEW u \in Users, NEW r \in lsRows'[u]
        PROVE  raw'[r[1]] \in Subs /\ r[2] \in AddrsOf(u) \cap rcptsOf'[raw'[r[1]]]
    <3>1. CASE r \in lsRows[u]
      <4>1. r[1] \in StagingIDs /\ raw[r[1]] \in Subs /\ r[2] \in AddrsOf(u) \cap rcptsOf[raw[r[1]]]
        BY <1>0, <3>1 DEF EnvelopeInv, WorkAddressed
      <4> QED
        BY <1>0, <4>1
    <3>2. CASE r \notin lsRows[u]
      <4>1. r[1] \in StagingIDs /\ r[2] \in AddrsOf(u) /\ recips[r[1]][r[2]] = "Received"
        BY <3>2, NewRows
      <4>2. r[2] \in Addrs
        BY <1>0, <4>1 DEF AddrsOf
      <4>3. raw[r[1]] \in Subs /\ r[2] \in rcptsOf[raw[r[1]]]
        BY <4>1, <4>2 DEF EnvelopeInv, BusyRows, Busy, Handed
      <4> QED
        BY <1>0, <4>1, <4>3
    <3> QED
      BY <3>1, <3>2
  <2> QED
    BY <2>1, <2>2 DEF WorkAddressed, AddrsOf
<1> QED
  BY <1>1, <1>2, <1>3, <1>4 DEF EnvelopeInv

\* All of it holds of a new server.
LEMMA InitFull == Init => FullInv /\ EnvelopeInv
<1> SUFFICES ASSUME Init PROVE FullInv /\ EnvelopeInv
  OBVIOUS
<1>1. BoxInv
  BY DEF Init, LsInit, BoxInv
<1>2. RelayInv /\ RelayedInv
  BY DEF Init, StagingInit, SmtpInit, DlInit, RelayInv, RelayedInv, Sends, NoRecipients, Nobody
<1>3. EnvelopeInv
  BY DEF Init, StagingInit, SmtpInit, ProcInit, LsInit, DlInit, EnvelopeInv, EnvelopeRespected, SessionRows,
     BusyRows, Busy, WorkAddressed, Sends, Early, Handed, NoRecipients, Nobody
<1> QED
  BY <1>1, <1>2, <1>3, InitQueue, InitDone, InitQueueInv DEF FullInv

\* Every step keeps what does not concern the envelopes.
LEMMA NextFull ==
  ASSUME ~({"remoteUpdate", "cleanup"} \subseteq FaultKinds)
  PROVE  FullInv /\ [Next]_vars => FullInv'
<1> SUFFICES ASSUME FullInv, [Next]_vars PROVE FullInv'
  OBVIOUS
<1>1. TypeInv /\ RawInv /\ QueueIDs /\ BoxInv /\ RelayInv /\ DoneInv /\ QueueInv /\ RelayedInv
  BY DEF FullInv, QueueIDs
<1>2. QueueIDs'
  BY <1>1, NextQueue
<1>3. BoxInv' /\ RelayInv'
  BY <1>1, NextBox, NextRelay
<1>4. DoneInv' /\ QueueInv' /\ RelayedInv'
  BY <1>1, NextDone, NextQueueInv, NextRelayed
<1> QED
  BY <1>2, <1>3, <1>4 DEF FullInv

\* Mail only ever gets to the addressees of its own SMTP transaction, although
\* StagingIDs are used again and each loop works on what it has collected
\* earlier, unless the second UPDATE of a Close or a DELETE of removeMsg fails.
THEOREM OnlyAddressees ==
  ASSUME "remoteUpdate" \notin FaultKinds, "cleanup" \notin FaultKinds
  PROVE  Spec => []EnvelopeRespected
<1>1. EnvelopeInv => EnvelopeRespected
  BY DEF EnvelopeInv
<1>2. FullInv /\ [Next]_vars => FullInv'
  BY NextFull
<1>3. FullInv /\ EnvelopeInv /\ [Next]_vars => EnvelopeInv'
  BY NextEnvelope
<1> QED
  BY <1>1, <1>2, <1>3, InitFull, PTL DEF Spec
(***************************************************************************)
(* The pipeline implements MailDelivery.                                   *)
(***************************************************************************)
\* The steps that clients and correspondents see.
LEMMA Unseen ==
  ASSUME TypeInv, [Next]_vars,
         ~ \E s \in Sessions, auth \in BOOLEAN : NewMessage(s, auth),
         ~ \E s \in Sessions, a \in Addrs : AddRecipient(s, a),
         ~ \E s \in Sessions : CloseUnauth(s) \/ CloseRemote(s),
         ~ \E u \in Users : \E r \in lsRows[u] : LsStore(u, r),
         ~ \E id \in StagingIDs : SendsOff(id)
  PROVE  UNCHANGED <<nsub, authOf, rcptsOf, acked, copies, sent>>
BY StepCases
DEF SmtpChange, Turn, CloseLocal, RemoveRecipients, RemoveRow, LoopChange, Rest, ProcChange, ProcCollect,
  ProcSave, LsChange, LsCollectMsgs, LsSetSent, DlChange, DlCollect, DlLogResult, DlMarkDone, Crash,
  history, boxVars

\* The steps of one kind leave the others' variables alone.
LEMMA SeenAlone ==
  ASSUME TypeInv, [Next]_vars, NEW s \in Sessions
  PROVE  /\ \A auth \in BOOLEAN : NewMessage(s, auth) => UNCHANGED <<rcptsOf, acked, copies, sent>>
         /\ \A a \in Addrs : AddRecipient(s, a) => UNCHANGED <<nsub, authOf, acked, copies, sent>>
         /\ CloseUnauth(s) \/ CloseRemote(s) => UNCHANGED <<nsub, authOf, rcptsOf, copies, sent>>
<1> USE DEF TypeInv, TypeOK, SmtpTypeOK
<1>1. ASSUME ~UNCHANGED copies PROVE UNCHANGED <<nsub, rcptsOf, smtpPc>>
  <2>1. PICK u \in Users : \E r \in lsRows[u] : LsStore(u, r)
    BY <1>1, NewCopies
  <2> QED
    BY <1>1, <2>1, StepCases DEF SmtpChange, LoopChange, LsStore, boxVars, history, smtpVars, Crash
<1>2. ASSUME NEW auth \in BOOLEAN, NewMessage(s, auth) PROVE UNCHANGED <<rcptsOf, acked, copies, sent>>
  BY <1>1, <1>2 DEF NewMessage, StagingTypeOK
<1>3. ASSUME NEW a \in Addrs, AddRecipient(s, a) PROVE UNCHANGED <<nsub, authOf, acked, copies, sent>>
  <2>1. CASE UNCHANGED copies
    BY <1>3, <2>1 DEF AddRecipient
  <2>2. CASE ~UNCHANGED copies
    <3>1. PICK u \in Users : \E r \in lsRows[u] : LsStore(u, r)
      BY <2>2, NewCopies
    <3>2. recips'[smtpID[s]][a] = "Receiving" /\ recips[smtpID[s]][a] = "NoRow"
      <4> HIDE DEF TypeInv
      <4>1. recips[smtpID[s]][a] = "NoRow"
        BY <1>3 DEF AddRecipient
      <4>2. smtpID[s] \in StagingIDs
        BY <1>3, AddRow
      <4>3. recips'[smtpID[s]][a] = "Receiving"
        BY <1>3, <4>2, AddRow
      <4> QED
        BY <4>1, <4>3
    <3> QED
      BY <3>1, <3>2 DEF LsStore, tables
  <2> QED
    BY <2>1, <2>2
<1>4. ASSUME CloseUnauth(s) \/ CloseRemote(s) PROVE UNCHANGED <<nsub, authOf, rcptsOf, copies, sent>>
  BY <1>1, <1>4 DEF CloseUnauth, CloseRemote, Acknowledge, Forget, At
<1> QED
  BY <1>2, <1>3, <1>4

\* Every step is a step of MailDelivery or leaves its variables unchanged.
LEMMA StepImplements ==
  ASSUME FullInv, EnvelopeInv, [Next]_vars
  PROVE  [Mail!Next]_(Mail!vars)
<1> USE DEF FullInv, QueueIDs
<1>0. /\ nsub \in 0..MaxSubs /\ authOf \in [Subs -> BOOLEAN] /\ acked \subseteq Subs
      /\ copies \in [Users -> [Subs -> Nat]] /\ copies' \in [Users -> [Subs -> Nat]]
      /\ sent \subseteq Subs \X Addrs /\ rcptsOf \in [Subs -> SUBSET Addrs]
  BY NextType DEF TypeInv, TypeOK, StagingTypeOK, LsTypeOK
<1>1. ASSUME NEW s \in Sessions, NEW auth \in BOOLEAN, NewMessage(s, auth) PROVE Mail!Next
  <2>1. nsub + 1 \in Subs /\ nsub' = nsub + 1 /\ authOf' = [authOf EXCEPT ![nsub + 1] = auth]
    BY <1>0, <1>1, StagingAssumption DEF NewMessage, Subs
  <2>2. UNCHANGED <<rcptsOf, acked, copies, sent>>
    BY <1>1, SeenAlone
  <2>3. Mail!Open(nsub + 1, auth)
    BY <2>1, <2>2 DEF Mail!Open, Inbox
  <2> QED
    BY <2>1, <2>3 DEF Mail!Next
<1>2. ASSUME NEW s \in Sessions, NEW a \in Addrs, AddRecipient(s, a) PROVE Mail!Next
  <2>0. PICK b : b = smtpSub[s]
    OBVIOUS
  <2>1. /\ smtpPc[s] = "envelope" /\ b \in Subs /\ b <= nsub
        /\ \A id \in StagingIDs : raw[id] # b
    BY <1>2, <2>0, AddRow DEF RawInv, SubInv, Active
  <2>2. b \notin acked
    <3>1. msgs \subseteq StagingIDs
      BY DEF TypeInv, TypeOK, StagingTypeOK
    <3> QED
      BY <2>1, <3>1 DEF AcceptInv, AckedRows
  <2>3. ASSUME NEW d \in Inbox PROVE d[1] # b
    <3>1. d[1] \in Subs /\ d[2] \in Users /\ copies[d[2]][d[1]] > 0
      BY DEF Inbox
    <3>2. copies[d[2]][d[1]] = 1
      BY <1>0, <3>1 DEF BoxInv
    <3>3. PICK id \in boxIDs[d[2]] : raw[id] = d[1]
      BY <3>1, <3>2 DEF BoxInv
    <3> QED
      BY <2>1, <3>1, <3>3 DEF TypeInv, TypeOK, LsTypeOK
  <2>4. ASSUME NEW d \in sent PROVE d[1] # b
    BY <2>2 DEF RelayedInv
  <2>5. authOf[b] \/ a \in LocalAddrs
    BY <1>2, <2>0 DEF AddRecipient, ValidRecipient, IsAuth
  <2>6. UNCHANGED <<nsub, authOf, acked, copies, sent>> /\ rcptsOf' = [rcptsOf EXCEPT ![b] = @ \cup {a}]
    BY <1>2, <2>0, SeenAlone DEF AddRecipient
  <2>7. Mail!Address(b, a)
    BY <2>1, <2>2, <2>3, <2>4, <2>5, <2>6 DEF Mail!Address, Mail!LocalAddrs, LocalAddrs, Inbox
  <2> QED
    BY <2>1, <2>7 DEF Mail!Next
<1>3. ASSUME NEW s \in Sessions, CloseUnauth(s) \/ CloseRemote(s) PROVE Mail!Next
  <2>0. PICK b : b = smtpSub[s]
    OBVIOUS
  <2>1. smtpPc[s] \in {"rawBody", "localDone"} /\ acked' = acked \cup {b}
    BY <1>3, <2>0 DEF CloseUnauth, CloseRemote, Acknowledge, At
  <2>2. b \in Subs /\ b <= nsub /\ smtpID[s] \in StagingIDs /\ raw[smtpID[s]] = b
    BY <2>0, <2>1 DEF RawInv, SubInv, RowInv, TypeInv, SmtpSane, Active
  <2>3. ASSUME b \in acked PROVE FALSE
    <3>1. PICK id \in msgs : raw[id] = b /\ Free(id)
      BY <2>3 DEF AcceptInv, AckedRows
    <3>2. id \in StagingIDs
      BY DEF TypeInv, TypeOK, StagingTypeOK
    <3>3. id = smtpID[s]
      BY <2>2, <3>1, <3>2 DEF RawInv, StoreInv
    <3> QED
      BY <2>1, <3>1, <3>3 DEF Free, Active
  <2>4. UNCHANGED <<nsub, authOf, rcptsOf, copies, sent>>
    BY <1>3, SeenAlone
  <2>5. Mail!Accept(b)
    BY <2>1, <2>2, <2>3, <2>4 DEF Mail!Accept, Inbox
  <2> QED
    BY <2>2, <2>5 DEF Mail!Next
<1>4. ASSUME NEW u \in Users, NEW r \in lsRows[u], LsStore(u, r) PROVE Mail!Next
  <2>1. PICK b \in Subs :
          /\ r[1] \in StagingIDs /\ raw[r[1]] = b /\ copies[u][b] = 0
          /\ \A v \in Users, c \in Subs : copies'[v][c] = IF v = u /\ c = b THEN 1 ELSE copies[v][c]
    BY <1>4, Stored
  <2>2. UNCHANGED <<nsub, authOf, rcptsOf, acked, sent>>
    BY <1>4 DEF LsStore, history
  <2>3. r[2] \in LocalAddrs /\ UserAddresses[r[2]] = u /\ r[2] \in rcptsOf[b]
    BY <2>1 DEF EnvelopeInv, WorkAddressed, AddrsOf
  <2>4. <<b, u>> \notin Inbox
    BY <2>1 DEF Inbox
  <2>5. Inbox' = Inbox \cup {<<b, u>>}
    <3>1. ASSUME NEW d \in Subs \X Users PROVE copies'[d[2]][d[1]] > 0 <=> copies[d[2]][d[1]] > 0 \/ d = <<b, u>>
      BY <1>0, <2>1
    <3>2. <<b, u>> \in Subs \X Users
      OBVIOUS
    <3> QED
      BY <3>1, <3>2 DEF Inbox
  <2>6. Mail!Deliver(b, u)
    BY <2>2, <2>3, <2>4, <2>5 DEF Mail!Deliver, Mail!LocalAddrs, LocalAddrs
  <2> QED
    BY <2>6 DEF Mail!Next, Users, Mail!LocalAddrs, LocalAddrs
<1>5. ASSUME NEW id \in StagingIDs, SendsOff(id) PROVE Mail!Next
  <2>1. PICK acc \in SUBSET dlRcpts[id] : /\ sent' = sent \cup {<<raw[id], a>> : a \in acc}
                                         /\ dlRcpts[id] # {} /\ dlRcpts'[id] = {}
    BY <1>5 DEF SendsOff, SendResult, TypeInv, TypeOK, DlTypeOK
  <2>0. PICK b : b = raw[id]
    OBVIOUS
  <2>2. b \in Subs /\ b \in acked /\ authOf[b]
    BY <1>0, <2>0, <2>1 DEF RelayedInv, RelayInv, Sends
  <2>3. acc \subseteq rcptsOf[b] \ LocalAddrs /\ acc \subseteq Addrs
    BY <2>0, <2>1, <2>2 DEF EnvelopeInv, WorkAddressed, DoneInv, SendingIsRemote, TypeInv, TypeOK, DlTypeOK
  <2>4. UNCHANGED <<nsub, authOf, rcptsOf, acked>>
    BY <1>5 DEF SendsOff, SendResult
  <2>5. UNCHANGED copies
    <3>1. ASSUME ~UNCHANGED copies PROVE FALSE
      <4>1. PICK u \in Users : \E r \in lsRows[u] : LsStore(u, r)
        BY <3>1, NewCopies
      <4>2. LoopChange /\ ~ProcChange /\ ~DlChange /\ ~Rest
        BY <3>1, StepCases DEF SmtpChange, ProcChange, DlChange, Rest, boxVars, Crash
      <4> QED
        BY <2>1, <4>2 DEF LoopChange, LsChange, dlVars
    <3> QED
      BY <3>1
  <2>6. Mail!Relay(b, acc)
    BY <2>0, <2>1, <2>2, <2>3, <2>4, <2>5 DEF Mail!Relay, Mail!LocalAddrs, LocalAddrs, Inbox
  <2> QED
    BY <2>2, <2>3, <2>6 DEF Mail!Next
<1>6. ASSUME UNCHANGED <<nsub, authOf, rcptsOf, acked, copies, sent>> PROVE UNCHANGED Mail!vars
  BY <1>6 DEF Mail!vars, Inbox
<1> QED
  BY <1>1, <1>2, <1>3, <1>4, <1>5, <1>6, Unseen

\* What clients and correspondents see of the pipeline, with its queues, its
\* loops and its crashes, is what MailDelivery promises.
THEOREM PipelineImplementsMailDelivery ==
  ASSUME "remoteUpdate" \notin FaultKinds, "cleanup" \notin FaultKinds
  PROVE  Spec => ImplementsMailDelivery
<1>1. Init => Mail!Init
  BY DEF Init, StagingInit, LsInit, Mail!Init, Inbox
<1>2. FullInv /\ [Next]_vars => FullInv'
  BY NextFull
<1>3. FullInv /\ EnvelopeInv /\ [Next]_vars => EnvelopeInv'
  BY NextEnvelope
<1>4. FullInv /\ EnvelopeInv /\ [Next]_vars => [Mail!Next]_(Mail!vars)
  BY StepImplements
<1> QED
  BY <1>1, <1>2, <1>3, <1>4, InitFull, PTL DEF Spec, ImplementsMailDelivery, Mail!Spec
=============================================================================
