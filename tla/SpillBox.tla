------------------------------ MODULE SpillBox ------------------------------
(***************************************************************************)
(* A user's mail database (spilldb/spillbox) and the IMAP mailbox          *)
(* operations on it (spilldb/imapdb).  Every operation is a savepoint of   *)
(* one SQLite connection, and the connections share a cache, so while one  *)
(* has written the others wait.  The operations that work message by       *)
(* message, calling back after each, are transactions of several steps     *)
(* that may fail at any of them.                                           *)
(***************************************************************************)
EXTENDS Integers, FiniteSets, Sequences

CONSTANTS
  Sessions,   \* IMAP sessions of this user
  Names,      \* mailbox names that can be created, without "/"
  Reserved,   \* the names DeleteMailbox refuses
  Inbox,      \* where assignMailbox puts mail that has no mailbox yet
  MaxBoxes,   \* bound: mailboxes ever created
  MaxMsgs,    \* bound: rows of Msgs
  MaxModSeq,  \* bound: NextModSequence of a name
  SeqSets,    \* sets of commands: <<of UIDs?, sequence of <<min, max>>>>
  StoreCmds,  \* <<mode, flags, UNCHANGEDSINCE>> of STORE commands
  AppendFlags,\* sets of flags that APPEND commands give
  Deleted, Seen, \* the flags \Deleted and \Seen
  Flags       \* the flags in use, these two among them

ASSUME SizeAssumption == MaxBoxes \in Nat /\ MaxMsgs \in Nat /\ MaxModSeq \in Nat
ASSUME NameAssumption ==
  Inbox \in Reserved /\ Reserved \subseteq Names /\ "" \notin Names /\ IsFiniteSet(Reserved)
ASSUME FlagAssumption == Deleted \in Flags /\ Seen \in Flags /\ AppendFlags \subseteq SUBSET Flags
ASSUME CommandAssumption ==
  /\ \A q \in SeqSets : q[1] \in BOOLEAN /\ q[2] \in Seq(Nat \X Nat)
  /\ \A c \in StoreCmds : c[1] \in {"add", "remove", "replace"} /\ c[2] \subseteq Flags /\ c[3] \in Nat

BoxIDs == 1..MaxBoxes
MsgIDs == 1..MaxMsgs
NoName == ""        \* NULL
Star   == 0         \* '*' in a sequence set
MaxUint32 == MaxMsgs + 1

VARIABLES
  boxes,   \* Mailboxes: MailboxID -> name, nextUID, uidValidity; uidValidity 0: no row
  modNext, \* MailboxSequencing: name -> NextModSequence; 0: no row
  msgs,    \* Msgs: MsgID -> row
  txn,     \* the transaction under way
  saved,   \* the tables as they were when it began
  shown,   \* the UIDs that the client of the transaction has in its list, and
  firstNew,\* the first UID that is too new for it
  selected,\* session -> MailboxID of Conn.mailbox, 0 if nil
  target,  \* session -> MailboxID a command has looked up by name, 0 if none
  history  \* the <<name, UIDVALIDITY, MailboxID>> that clients have seen

tables == <<boxes, modNext, msgs>>
txnVars == <<txn, saved, shown, firstNew>>
vars == <<tables, txnVars, selected, target, history>>

NoRow == [state |-> "none", box |-> 0, uid |-> 0, modSeq |-> 0, flags |-> {}]
NoBox == [name |-> NoName, nextUID |-> 0, uidValidity |-> 0]

\* The states of a row.  A tombstone of Move has State MsgExpunged too, but
\* never held a message.
MsgStates == {"none", "Ready", "Expunged", "Tombstone"}

Idle == [kind |-> "none", src |-> 0, dst |-> 0, modSeq |-> 0, useUID |-> FALSE, seqs |-> <<>>,
         work |-> {}, num |-> [i \in MsgIDs |-> 0], rangeSeqDelta |-> 0, seqDelta |-> 0,
         mode |-> "none", flags |-> {}, since |-> 0]
NoTables == [boxes |-> [m \in BoxIDs |-> NoBox], modNext |-> [n \in Names |-> 0],
             msgs |-> [i \in MsgIDs |-> NoRow]]
NoTxn == txn.kind = "none"

-----------------------------------------------------------------------------
(***************************************************************************)
(* Queries                                                                 *)
(***************************************************************************)
Ready(m) == {i \in MsgIDs : msgs[i].state = "Ready" /\ msgs[i].box = m}

\* row_number() OVER (ORDER BY UID) among the ready messages of a mailbox
SeqNum(i) == Cardinality({j \in Ready(msgs[i].box) : msgs[j].uid <= msgs[i].uid})

BoxNamed(n) == {m \in BoxIDs : boxes[m].uidValidity # 0 /\ boxes[m].name = n}

\* v is max(UIDValidity) + 1 of the mailboxes of S.  Each mailbox gets a
\* UIDVALIDITY when it is created and one when it is deleted.
UIDValidities == 0..2 * MaxBoxes
IsNextUIDValidity(v, S) ==
  /\ \A m \in S : boxes[m].uidValidity < v
  /\ v = 1 \/ \E m \in S : boxes[m].uidValidity = v - 1

Named == {<<boxes[m].name, boxes[m].uidValidity, m>> : m \in {k \in BoxIDs : boxes[k].name # NoName}}

\* The UIDs of the messages of m older than first, in order.
UIDList(m, first) ==
  LET uids == {msgs[i].uid : i \in Ready(m)} \cap (0..first - 1)
  IN  [k \in 1..Cardinality(uids) |-> CHOOSE u \in uids : Cardinality({v \in uids : v <= u}) = k]

\* Messages of m that a range <<min, max>> of UIDs or of numbers selects.
InRange(m, useUID, min, max) ==
  {i \in Ready(m) : LET v == IF useUID THEN msgs[i].uid ELSE SeqNum(i) IN min <= v /\ v <= max}

\* InsertRandID takes any MsgID that is free.
NewRow == CHOOSE i \in MsgIDs : msgs[i].state = "none"
HasRoom == \E i \in MsgIDs : msgs[i].state = "none"

\* NextMsgModSeq finds a row only while the mailbox has a name.
HasModSeq(m) == boxes[m].name # NoName /\ modNext[boxes[m].name] \in 1..MaxModSeq
NextMsgModSeq(m) == [modNext EXCEPT ![boxes[m].name] = @ + 1]
NextMsgUID(m) == [boxes EXCEPT ![m].nextUID = @ + 1]

\* sqlitex.Save, with what the transaction is to do.
Begin(t) ==
  /\ txn' = t
  /\ saved' = [boxes |-> boxes, modNext |-> modNext, msgs |-> msgs]
  /\ shown' = UIDList(t.src, boxes[t.src].nextUID)
  /\ firstNew' = boxes[t.src].nextUID

End == txn' = Idle /\ saved' = NoTables /\ shown' = <<>> /\ firstNew' = 0

Without(q, n) == [k \in 1..Len(q) - 1 |-> IF k < n THEN q[k] ELSE q[k + 1]]
-----------------------------------------------------------------------------
(***************************************************************************)
(* Mailboxes                                                               *)
(***************************************************************************)
\* Mutant: UIDs start at 0.
CreateMailboxUIDZero(n) ==
  /\ NoTxn
  /\ BoxNamed(n) = {}
  /\ \E m \in BoxIDs, v \in UIDValidities :
       /\ boxes[m] = NoBox /\ \A k \in 1..m - 1 : boxes[k] # NoBox
       /\ IsNextUIDValidity(v, BoxIDs)
       /\ boxes' = [boxes EXCEPT ![m] = [name |-> n, nextUID |-> 0, uidValidity |-> v]]
  /\ modNext' = [modNext EXCEPT ![n] = IF @ = 0 THEN 1 ELSE @]
  /\ UNCHANGED <<msgs, txnVars, selected, target>>

\* Mutant: only mailboxes that still have a name count for max(UIDValidity).
CreateMailboxMaxOfNamed(n) ==
  /\ NoTxn
  /\ BoxNamed(n) = {}
  /\ \E m \in BoxIDs, v \in UIDValidities :
       /\ boxes[m] = NoBox /\ \A k \in 1..m - 1 : boxes[k] # NoBox
       /\ IsNextUIDValidity(v, {k \in BoxIDs : boxes[k].name # NoName})
       /\ boxes' = [boxes EXCEPT ![m] = [name |-> n, nextUID |-> 1, uidValidity |-> v]]
  /\ modNext' = [modNext EXCEPT ![n] = IF @ = 0 THEN 1 ELSE @]
  /\ UNCHANGED <<msgs, txnVars, selected, target>>

CreateMailbox(n) ==
  /\ NoTxn
  /\ BoxNamed(n) = {}
  /\ \E m \in BoxIDs, v \in UIDValidities :
       /\ boxes[m] = NoBox /\ \A k \in 1..m - 1 : boxes[k] # NoBox
       /\ IsNextUIDValidity(v, BoxIDs)
       /\ boxes' = [boxes EXCEPT ![m] = [name |-> n, nextUID |-> 1, uidValidity |-> v]]
  /\ modNext' = [modNext EXCEPT ![n] = IF @ = 0 THEN 1 ELSE @]
  /\ UNCHANGED <<msgs, txnVars, selected, target>>

\* The trigger MailboxRenameUIDValidity runs on the update of Name.
DeleteMailbox(n) ==
  /\ NoTxn
  /\ n \notin Reserved
  /\ \E m \in BoxNamed(n), v \in UIDValidities :
       /\ IsNextUIDValidity(v, BoxIDs)
       /\ boxes' = [boxes EXCEPT ![m].name = NoName, ![m].uidValidity = v]
  /\ UNCHANGED <<modNext, msgs, txnVars, selected, target>>

\* cmdSelect: the session keeps the MailboxID, whatever happens to the name;
\* a mailbox it cannot find leaves it without one.
Select(s, n) ==
  /\ NoTxn
  /\ selected' = [selected EXCEPT ![s] = IF BoxNamed(n) = {} THEN 0 ELSE CHOOSE m \in BoxNamed(n) : TRUE]
  /\ UNCHANGED <<tables, txnVars, target>>

\* cmdAppend and cmdCopyOrMove look up the mailbox they are given.
LookUp(s, n) ==
  /\ NoTxn
  /\ target[s] = 0
  /\ \E m \in BoxNamed(n) : target' = [target EXCEPT ![s] = m]
  /\ UNCHANGED <<tables, txnVars, selected>>

-----------------------------------------------------------------------------
(***************************************************************************)
(* Messages in                                                             *)
(***************************************************************************)
\* insertMsg, setMsgFetched, assignMailbox: the new row is ready in m.
InsertMsg(m, fl) ==
  /\ HasRoom
  /\ HasModSeq(m)
  /\ msgs' = [msgs EXCEPT ![NewRow] = [state |-> "Ready", box |-> m, uid |-> boxes[m].nextUID,
       modSeq |-> modNext[boxes[m].name], flags |-> fl]]
  /\ boxes' = NextMsgUID(m)
  /\ modNext' = NextMsgModSeq(m)
  /\ UNCHANGED <<txnVars, selected>>

\* Box.InsertMsg for mail from the staging database; that a StagingID is
\* inserted once is in LocalSender.
Deliver ==
  /\ NoTxn
  /\ \E m \in BoxNamed(Inbox) : InsertMsg(m, {})
  /\ UNCHANGED target

\* mailbox.Append; with the mailbox gone NextMsgModSeq fails, and so does it.
Append_(s, fl) ==
  /\ NoTxn
  /\ target[s] # 0
  /\ \/ InsertMsg(target[s], fl)
     \/ boxes[target[s]].name = NoName /\ UNCHANGED <<tables, txnVars, selected>>
  /\ target' = [target EXCEPT ![s] = 0]

\* FETCH of a body without PEEK marks the message, with the MODSEQ it has.
SetSeen(s, i) ==
  /\ NoTxn
  /\ selected[s] # 0 /\ i \in Ready(selected[s])
  /\ Seen \notin msgs[i].flags
  /\ msgs' = [msgs EXCEPT ![i].flags = @ \cup {Seen}]
  /\ UNCHANGED <<boxes, modNext, txnVars, selected, target>>

-----------------------------------------------------------------------------
(***************************************************************************)
(* Transactions that work message by message                               *)
(***************************************************************************)
\* mailbox.Store takes a new mod-sequence before it looks at a message.
Store(s, useUID, seqs, mode, fl, since) ==
  /\ NoTxn
  /\ selected[s] # 0
  /\ HasModSeq(selected[s])
  /\ Begin([Idle EXCEPT !.kind = "store", !.src = selected[s],
                         !.modSeq = modNext[boxes[selected[s]].name], !.useUID = useUID,
                         !.seqs = seqs, !.mode = mode, !.flags = fl, !.since = since])
  /\ modNext' = NextMsgModSeq(selected[s])
  /\ UNCHANGED <<boxes, msgs, selected, target>>

\* Mutant: the mod-sequence is taken from the source mailbox.
CopyOrMoveSourceModSeq(s, kind, useUID, seqs) ==
  /\ NoTxn
  /\ selected[s] # 0 /\ target[s] # 0
  /\ \/ /\ HasModSeq(selected[s])
        /\ Begin([Idle EXCEPT !.kind = kind, !.src = selected[s], !.dst = target[s],
                               !.modSeq = modNext[boxes[selected[s]].name], !.useUID = useUID,
                               !.seqs = seqs])
        /\ modNext' = NextMsgModSeq(selected[s])
     \/ boxes[target[s]].name = NoName /\ UNCHANGED <<modNext, txnVars>>
  /\ target' = [target EXCEPT ![s] = 0]
  /\ UNCHANGED <<boxes, msgs, selected>>

\* mailbox.Copy and mailbox.Move take the mod-sequence of the destination.
CopyOrMove(s, kind, useUID, seqs) ==
  /\ NoTxn
  /\ selected[s] # 0 /\ target[s] # 0
  /\ \/ /\ HasModSeq(target[s])
        /\ Begin([Idle EXCEPT !.kind = kind, !.src = selected[s], !.dst = target[s],
                               !.modSeq = modNext[boxes[target[s]].name], !.useUID = useUID,
                               !.seqs = seqs])
        /\ modNext' = NextMsgModSeq(target[s])
     \/ boxes[target[s]].name = NoName /\ UNCHANGED <<modNext, txnVars>>
  /\ target' = [target EXCEPT ![s] = 0]
  /\ UNCHANGED <<boxes, msgs, selected>>

\* Mutant: UID EXPUNGE does not look at the flags.
ExpungeAnyFlags(s, uids) ==
  /\ NoTxn
  /\ selected[s] # 0
  /\ LET gone == {i \in Ready(selected[s]) : msgs[i].uid \in uids} IN
       /\ gone # {}
       /\ Begin([Idle EXCEPT !.kind = "expunge", !.src = selected[s], !.work = gone,
                              !.num = [i \in MsgIDs |-> IF i \in gone THEN SeqNum(i) ELSE 0]])
  /\ UNCHANGED <<tables, selected, target>>

\* mailbox.Expunge collects the messages marked \Deleted, all of them or,
\* for UID EXPUNGE, the ones of a set of UIDs.
Expunge(s, uids) ==
  /\ NoTxn
  /\ selected[s] # 0
  /\ LET gone == {i \in Ready(selected[s]) : Deleted \in msgs[i].flags /\ msgs[i].uid \in uids} IN
       /\ gone # {}
       /\ Begin([Idle EXCEPT !.kind = "expunge", !.src = selected[s], !.work = gone,
                              !.num = [i \in MsgIDs |-> IF i \in gone THEN SeqNum(i) ELSE 0]])
  /\ UNCHANGED <<tables, selected, target>>

\* The next range of the sequence set is queried; Move corrects a range of
\* numbers by what it has moved so far.
NextRange ==
  /\ txn.kind \in {"store", "copy", "move"}
  /\ txn.work = {} /\ txn.seqs # <<>>
  /\ LET range == Head(txn.seqs)
         top   == IF range[2] = Star THEN MaxUint32 ELSE range[2]
         delta == IF txn.kind = "move" /\ ~txn.useUID THEN txn.rangeSeqDelta ELSE 0
         hit   == InRange(txn.src, txn.useUID, range[1] - delta, top - delta)
     IN  txn' = [txn EXCEPT !.seqs = Tail(@), !.work = hit, !.seqDelta = 0,
                            !.num = [i \in MsgIDs |-> IF i \in hit THEN SeqNum(i) ELSE 0]]
  /\ UNCHANGED <<tables, saved, shown, firstNew, selected, target>>

\* Messages are visited in the order of the numbers the query gave them.
First(i) == i \in txn.work /\ \A j \in txn.work : txn.num[i] <= txn.num[j]

\* UNCHANGEDSINCE counts for FLAGS only, not for +FLAGS and -FLAGS.
StoreMsg(i) ==
  /\ txn.kind = "store" /\ First(i)
  /\ LET old  == msgs[i].flags
         new  == CASE txn.mode = "add"     -> old \cup txn.flags
                   [] txn.mode = "remove"  -> old \ txn.flags
                   [] txn.mode = "replace" -> txn.flags
         skip == txn.mode = "replace" /\ txn.since # 0 /\ msgs[i].modSeq > txn.since
     IN  msgs' = IF skip \/ new = old THEN msgs
                 ELSE [msgs EXCEPT ![i].flags = new, ![i].modSeq = txn.modSeq]
  /\ txn' = [txn EXCEPT !.work = @ \ {i}]
  /\ UNCHANGED <<boxes, modNext, saved, shown, firstNew, selected, target>>

CopyMsg(i) ==
  /\ txn.kind = "copy" /\ First(i)
  /\ HasRoom
  /\ msgs' = [msgs EXCEPT ![NewRow] = [state |-> "Ready", box |-> txn.dst,
       uid |-> boxes[txn.dst].nextUID, modSeq |-> txn.modSeq, flags |-> msgs[i].flags]]
  /\ boxes' = NextMsgUID(txn.dst)
  /\ txn' = [txn EXCEPT !.work = @ \ {i}]
  /\ UNCHANGED <<modNext, saved, shown, firstNew, selected, target>>

\* Mutant: the message keeps the UID it had in the source.
MoveMsgKeepsUID(i) ==
  /\ txn.kind = "move" /\ First(i)
  /\ HasRoom
  /\ msgs' = [msgs EXCEPT
       ![i].box = txn.dst, ![i].modSeq = txn.modSeq,
       ![NewRow] = [NoRow EXCEPT !.state = "Tombstone", !.box = txn.src, !.uid = msgs[i].uid,
                                 !.modSeq = txn.modSeq]]
  /\ boxes' = NextMsgUID(txn.dst)
  /\ txn' = [txn EXCEPT !.work = @ \ {i}, !.seqDelta = @ + 1, !.rangeSeqDelta = @ + 1]
  /\ shown' = Without(shown, txn.num[i] - txn.seqDelta)
  /\ UNCHANGED <<modNext, saved, firstNew, selected, target>>

\* The row goes to the destination and leaves a tombstone with its old UID
\* and the mod-sequence of the destination; the client is told its number.
MoveMsg(i) ==
  /\ txn.kind = "move" /\ First(i)
  /\ HasRoom
  /\ msgs' = [msgs EXCEPT
       ![i].box = txn.dst, ![i].uid = boxes[txn.dst].nextUID, ![i].modSeq = txn.modSeq,
       ![NewRow] = [NoRow EXCEPT !.state = "Tombstone", !.box = txn.src, !.uid = msgs[i].uid,
                                 !.modSeq = txn.modSeq]]
  /\ boxes' = NextMsgUID(txn.dst)
  /\ txn' = [txn EXCEPT !.work = @ \ {i}, !.seqDelta = @ + 1, !.rangeSeqDelta = @ + 1]
  /\ shown' = Without(shown, txn.num[i] - txn.seqDelta)
  /\ UNCHANGED <<modNext, saved, firstNew, selected, target>>

\* Mutant: the numbers are those of the query, not of what is left.
ExpungeMsgNoDelta(i) ==
  /\ txn.kind = "expunge" /\ First(i)
  /\ msgs' = [msgs EXCEPT ![i].state = "Expunged"]
  /\ txn' = [txn EXCEPT !.work = @ \ {i}]
  /\ shown' = Without(shown, txn.num[i])
  /\ UNCHANGED <<boxes, modNext, saved, firstNew, selected, target>>

ExpungeMsg(i) ==
  /\ txn.kind = "expunge" /\ First(i)
  /\ msgs' = [msgs EXCEPT ![i].state = "Expunged"]
  /\ txn' = [txn EXCEPT !.work = @ \ {i}, !.seqDelta = @ + 1]
  /\ shown' = Without(shown, txn.num[i] - txn.seqDelta)
  /\ UNCHANGED <<boxes, modNext, saved, firstNew, selected, target>>

Commit ==
  /\ ~NoTxn
  /\ txn.work = {} /\ txn.seqs = <<>>
  /\ End
  /\ UNCHANGED <<tables, selected, target>>

\* A statement fails, or the context ends: sqlitex.Save rolls back.
Rollback ==
  /\ ~NoTxn
  /\ boxes' = saved.boxes /\ modNext' = saved.modNext /\ msgs' = saved.msgs
  /\ End
  /\ UNCHANGED <<selected, target>>

\* The process dies; SQLite rolls back when the file is opened again.
Crash ==
  /\ boxes' = IF NoTxn THEN boxes ELSE saved.boxes
  /\ modNext' = IF NoTxn THEN modNext ELSE saved.modNext
  /\ msgs' = IF NoTxn THEN msgs ELSE saved.msgs
  /\ End
  /\ selected' = [s \in Sessions |-> 0]
  /\ target' = [s \in Sessions |-> 0]

-----------------------------------------------------------------------------
\* Box.Init has created the reserved mailboxes.
Init ==
  /\ boxes \in {f \in [BoxIDs -> {NoBox} \cup [name : Reserved, nextUID : {1}, uidValidity : BoxIDs]] :
       /\ \A m \in BoxIDs : f[m] # NoBox <=> m <= Cardinality(Reserved)
       /\ \A m \in 1..Cardinality(Reserved) : f[m].uidValidity = m
       /\ {f[m].name : m \in 1..Cardinality(Reserved)} = Reserved}
  /\ modNext = [n \in Names |-> IF n \in Reserved THEN 1 ELSE 0]
  /\ msgs = [i \in MsgIDs |-> NoRow]
  /\ txn = Idle /\ saved = NoTables /\ shown = <<>> /\ firstNew = 0
  /\ selected = [s \in Sessions |-> 0]
  /\ target = [s \in Sessions |-> 0]
  /\ history = Named

SessionStep(s) ==
  \/ \E n \in Names : Select(s, n) \/ LookUp(s, n)
  \/ \E fl \in AppendFlags : Append_(s, fl)
  \/ \E i \in MsgIDs : SetSeen(s, i)
  \/ \E q \in SeqSets :
       \/ \E c \in StoreCmds : Store(s, q[1], q[2], c[1], c[2], c[3])
       \/ \E kind \in {"copy", "move"} : CopyOrMove(s, kind, q[1], q[2])
  \/ \E uids \in {1..MaxMsgs} \cup {{u} : u \in 1..MaxMsgs} : Expunge(s, uids)

TxnStep ==
  \/ NextRange
  \/ \E i \in MsgIDs : StoreMsg(i) \/ CopyMsg(i) \/ MoveMsg(i) \/ ExpungeMsg(i)
  \/ Commit
  \/ Rollback

Next ==
  /\ \/ \E n \in Names : CreateMailbox(n) \/ DeleteMailbox(n)
     \/ Deliver
     \/ \E s \in Sessions : SessionStep(s)
     \/ TxnStep
     \/ Crash
  /\ history' = history \cup Named'

Spec == Init /\ [][Next]_vars

-----------------------------------------------------------------------------
(***************************************************************************)
(* Properties                                                              *)
(***************************************************************************)
Row == [state : MsgStates, box : BoxIDs \cup {0}, uid : Nat, modSeq : Nat,
        flags : SUBSET Flags]
Box == [name : Names \cup {NoName}, nextUID : Nat, uidValidity : UIDValidities]

Txn == [kind : {"none", "store", "copy", "move", "expunge"}, src : BoxIDs \cup {0},
        dst : BoxIDs \cup {0}, modSeq : Nat, useUID : BOOLEAN, seqs : Seq(Nat \X Nat),
        work : SUBSET MsgIDs, num : [MsgIDs -> Nat], rangeSeqDelta : Nat, seqDelta : Nat,
        mode : {"none", "add", "remove", "replace"}, flags : SUBSET Flags, since : Nat]

\* Every variable has its type; a UID is not 0.
TypeOK ==
  /\ boxes \in [BoxIDs -> Box]
  /\ modNext \in [Names -> Nat]
  /\ msgs \in [MsgIDs -> Row]
  /\ \A i \in MsgIDs : msgs[i].state # "none" => msgs[i].uid > 0
  /\ txn \in Txn
  /\ saved \in [boxes : [BoxIDs -> Box], modNext : [Names -> Nat], msgs : [MsgIDs -> Row]]
  /\ firstNew \in Nat
  /\ selected \in [Sessions -> BoxIDs \cup {0}]
  /\ target \in [Sessions -> BoxIDs \cup {0}]

\* A mailbox name and a UIDVALIDITY never stand for two mailboxes, although
\* DeleteMailbox frees a name for CreateMailbox: a client that kept both, and
\* UIDs, does not take one message for another.
UIDValidityUnique ==
  \A h, k \in history : h[1] = k[1] /\ h[2] = k[2] => h[3] = k[3]

\* No two rows of a mailbox share a UID, the tombstones that Move leaves and
\* expunged rows included, and NextUID is above all of them.
UIDsUnique ==
  \A i, j \in MsgIDs :
    /\ msgs[i].state # "none" => msgs[i].box # 0 /\ msgs[i].uid < boxes[msgs[i].box].nextUID
    /\ i # j /\ msgs[i].state # "none" /\ msgs[j].state # "none" /\ msgs[i].box = msgs[j].box
         => msgs[i].uid # msgs[j].uid

\* The list of the client, after the numbers that Expunge and Move have
\* reported so far, each applied to the list the previous one left.
ListFits == ~NoTxn => shown = UIDList(txn.src, firstNew)

\* The numbers that Expunge and Move report (imap.go:60) turn the list of the
\* client into the mailbox, for every sequence set, unless the client moves
\* messages to the mailbox that it has selected.
ExpungeNumbering == ~(txn.kind = "move" /\ txn.dst = txn.src) => ListFits

\* Move does not ask whether the destination is the mailbox itself: messages
\* that it has moved are there, above the UIDs the client knows, and a later
\* range of the set can select them again.
MoveNumbering == ListFits

\* What a connection that waits for the transaction will see if it fails.
CommittedMsgs == IF NoTxn THEN msgs ELSE saved.msgs

\* STORE, COPY, MOVE, APPEND and delivery give the messages they change a
\* MODSEQ above that of every message of the mailbox, so a client that has
\* seen those asks for the change with CHANGEDSINCE.
NewModSeqIsHigher ==
  [][CommittedMsgs' # CommittedMsgs => \A i \in MsgIDs :
       LET old == CommittedMsgs
           new == CommittedMsgs'
       IN  new[i].state = "Ready" /\ new[i].modSeq # old[i].modSeq =>
             \A j \in MsgIDs : old[j].state = "Ready" /\ old[j].box = new[i].box =>
                                 old[j].modSeq < new[i].modSeq]_vars

\* The mod-sequence of a mailbox name only grows (sql_spillbox.go:46), so what
\* changes gets a MODSEQ above the HIGHESTMODSEQ that Info has reported.
AboveHighestModSeq ==
  [][CommittedMsgs' # CommittedMsgs => \A i \in MsgIDs :
       LET old == CommittedMsgs
           new == CommittedMsgs'
       IN  new[i].state = "Ready" /\ new[i].modSeq # old[i].modSeq =>
             \A j \in MsgIDs : old[j].state # "none" /\ old[j].box = new[i].box =>
                                 old[j].modSeq < new[i].modSeq]_vars

\* Where a message is for MailStore, and whether it carries \Deleted.
Place(r) == CASE r.state = "Ready" -> r.box [] r.state = "Expunged" -> -1 [] OTHER -> 0
Where == [i \in MsgIDs |-> Place(CommittedMsgs[i])]
Carrying == {i \in MsgIDs : Deleted \in CommittedMsgs[i].flags}

Store_ == INSTANCE MailStore WITH
  Messages <- MsgIDs, Boxes <- BoxIDs, NoMsg <- 0, Gone <- -1, where <- Where, deleted <- Carrying

\* A transaction is seen whole or not at all, and what it does is a step of
\* MailStore: nothing is lost or doubled by Move, by a failure in the middle
\* of a command or by a crash, and only messages marked \Deleted go away.
ImplementsMailStore == Store_!Spec

=============================================================================
