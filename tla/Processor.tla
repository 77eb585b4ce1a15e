----------------------------- MODULE Processor -----------------------------
(***************************************************************************)
(* The processor of incoming mail (spilldb/processor).  Its Run loop wakes *)
(* up on a message or every two seconds, collects a batch of StagingIDs    *)
(* and runs one goroutine per StagingID, which checks DKIM, embeds the     *)
(* HTML's assets, rebuilds the message and stores it with processSave, one *)
(* transaction that also gives the message its ReadyDate.                  *)
(***************************************************************************)
EXTENDS StagingDB

CONSTANTS
  ProcLimit,      \* collectToProcess: limit (8 in the code)
  Unprocessable,  \* submissions whose bytes Cleave, Embed or Build rejects
  MaxClock        \* bound: time.Now().UnixNano() is in 1..MaxClock

ASSUME ProcessorAssumption ==
  /\ ProcLimit \in Nat
  /\ Unprocessable \subseteq Subs
  /\ MaxClock \in Nat

VARIABLES
  procBatch,     \* StagingIDs whose goroutine has not finished
  maxReadyDate   \* Processor.maxReadyDate

procVars == <<procBatch, maxReadyDate>>

ProcInit ==
  /\ procBatch = {}
  /\ maxReadyDate = 0

ProcTypeOK ==
  /\ procBatch \subseteq StagingIDs
  /\ maxReadyDate \in Nat

ToProcessIDs == {id \in StagingIDs : \E a \in Addrs : recips[id][a] = "ToProcess"}

\* The clock of the machine can be set back at any time.
Clock == 1..MaxClock

\* Mutant of NextReadyDate: the clock is trusted.
NextReadyDateClock(now) == now

\* The ReadyDate for a message stored at time now, also the new maxReadyDate.
NextReadyDate(now) == IF now > maxReadyDate THEN now ELSE maxReadyDate + 1

\* loadMaxReadyDate: SELECT ifnull(max(ReadyDate), 0) FROM Msgs.
IsMaxReadyDate(d) ==
  /\ \A id \in msgs : readyDate[id] <= d
  /\ d = 0 \/ \E id \in msgs : readyDate[id] = d

-----------------------------------------------------------------------------
ProcCollect ==
  /\ "processor" \in running
  /\ procBatch = {}
  /\ ToProcessIDs # {}
  /\ procBatch' = Lowest(ToProcessIDs, ProcLimit)
  /\ NoFault
  /\ UNCHANGED <<tables, history, running, maxReadyDate>>

\* The message can be loaded and rebuilt, and MsgFull has no row for it yet.
CanProcess(id) == raw[id] \in Subs \ Unprocessable /\ full[id] = NoRow

\* Mutant of ProcSave: the message gets no ReadyDate.
ProcSaveUndated(id, now) ==
  /\ id \in procBatch
  /\ CanProcess(id)
  /\ full' = [full EXCEPT ![id] = raw[id]]
  /\ SetState(id, Addrs, AnyState, "Received")
  /\ maxReadyDate' = NextReadyDate(now)
  /\ procBatch' = procBatch \ {id}
  /\ NoFault
  /\ UNCHANGED <<msgs, readyDate, raw, deliveries, history, running>>

\* processSave, one transaction: MsgFull, the state of all recipients of the
\* StagingID, ReadyDate.  Updating a Msgs row that is gone changes nothing.
ProcSave(id, now) ==
  /\ id \in procBatch
  /\ CanProcess(id)
  /\ full' = [full EXCEPT ![id] = raw[id]]
  /\ SetState(id, Addrs, AnyState, "Received")
  /\ maxReadyDate' = NextReadyDate(now)
  /\ readyDate' = IF id \in msgs THEN [readyDate EXCEPT ![id] = maxReadyDate'] ELSE readyDate
  /\ procBatch' = procBatch \ {id}
  /\ NoFault
  /\ UNCHANGED <<msgs, raw, deliveries, history, running>>

\* process returns an error that the same message will cause again.
ProcReject(id) ==
  /\ id \in procBatch
  /\ ~CanProcess(id)
  /\ procBatch' = procBatch \ {id}
  /\ NoFault
  /\ UNCHANGED <<tables, history, running, maxReadyDate>>

\* process returns an error that need not happen again; processSave may have
\* advanced maxReadyDate before its transaction was rolled back.
ProcError(id) ==
  /\ id \in procBatch
  /\ Fault("process")
  /\ procBatch' = procBatch \ {id}
  /\ maxReadyDate' \in {maxReadyDate} \cup {NextReadyDate(now) : now \in Clock}
  /\ UNCHANGED <<tables, history, running>>

\* collectToProcess fails: Run returns, and nothing starts it again.
ProcStop ==
  /\ "processor" \in running
  /\ procBatch = {}
  /\ Fault("collect")
  /\ running' = running \ {"processor"}
  /\ UNCHANGED <<tables, history, procVars>>

ProcMessage(id) ==
  \/ \E now \in Clock : ProcSave(id, now)
  \/ ProcReject(id)

ProcNext ==
  \/ ProcCollect
  \/ \E id \in StagingIDs : ProcMessage(id)
  \/ \E id \in StagingIDs : ProcError(id)
  \/ ProcStop
=============================================================================
