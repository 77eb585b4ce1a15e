--------------------------- MODULE SpillBoxProofs ---------------------------
(***************************************************************************)
(* Theorems about the mail database of a user, for any number of           *)
(* mailboxes, messages and sessions: types, UIDs, UIDVALIDITY,             *)
(* mod-sequences, the numbers that clients are told, and the refinement of *)
(* MailStore.                                                              *)
(***************************************************************************)
EXTENDS SpillBox, FiniteSetTheorems, FunctionTheorems, TLAPS

Boxes == [BoxIDs -> Box]
Rows  == [MsgIDs -> Row]

\* The rows that a statement may count on: UIDs are not 0, below NextUID of
\* their mailbox and not shared.
RowsOK(b, m) ==
  /\ \A i \in MsgIDs : m[i].state # "none" => m[i].uid > 0 /\ m[i].box # 0 /\ m[i].uid < b[m[i].box].nextUID
  /\ \A i, j \in MsgIDs :
       i # j /\ m[i].state # "none" /\ m[j].state # "none" /\ m[i].box = m[j].box => m[i].uid # m[j].uid
  /\ \A k \in BoxIDs : b[k].name # NoName => b[k].nextUID > 0

\* What a transaction has begun with still holds while it works: the messages
\* ahead are in the source, and the destination is a mailbox.
TxnInv ==
  /\ ~NoTxn => txn.src # 0 /\ \A i \in txn.work : msgs[i].state = "Ready" /\ msgs[i].box = txn.src
  /\ txn.kind \in {"copy", "move"} => txn.dst # 0 /\ boxes[txn.dst].nextUID > 0
  /\ txn.kind = "store" => txn.mode # "none"
  /\ NoTxn => txn = Idle

Inv ==
  /\ TypeOK
  /\ RowsOK(boxes, msgs)
  /\ RowsOK(saved.boxes, saved.msgs)
  /\ TxnInv

-----------------------------------------------------------------------------
LEMMA IdleType == Idle \in Txn
<1>1. <<>> \in Seq(Nat \X Nat)
  OBVIOUS
<1>2. [i \in MsgIDs |-> 0] \in [MsgIDs -> Nat]
  OBVIOUS
<1>3. {} \in SUBSET MsgIDs /\ {} \in SUBSET Flags /\ 0 \in BoxIDs \cup {0} /\ 0 \in Nat
  OBVIOUS
<1> QED
  BY <1>1, <1>2, <1>3 DEF Idle, Txn

LEMMA NullTypes == NoBox \in Box /\ NoRow \in Row
<1>1. 0 \in UIDValidities
  BY SizeAssumption DEF UIDValidities
<1> QED
  BY <1>1 DEF NoBox, NoRow, Box, Row, MsgStates, NoName

LEMMA NoTablesType ==
  NoTables \in [boxes : [BoxIDs -> Box], modNext : [Names -> Nat], msgs : [MsgIDs -> Row]]
BY NullTypes DEF NoTables

LEMMA NoTablesOK == RowsOK(NoTables.boxes, NoTables.msgs)
BY DEF RowsOK, NoTables, NoBox, NoRow, NoName

\* The number of a message is a number.
LEMMA SeqNumType ==
  ASSUME NEW i \in MsgIDs
  PROVE  SeqNum(i) \in Nat
<1> DEFINE S == {j \in Ready(msgs[i].box) : msgs[j].uid <= msgs[i].uid}
<1>1. S \subseteq 1..MaxMsgs
  BY DEF Ready, MsgIDs
<1>2. IsFiniteSet(1..MaxMsgs)
  <2>1. 1 \in Int /\ MaxMsgs \in Int
    BY SizeAssumption
  <2> QED
    BY <2>1, FS_Interval
<1>3. IsFiniteSet(S)
  BY <1>1, <1>2, FS_Subset
<1>4. Cardinality(S) \in Nat
  BY <1>3, FS_CardinalityType
<1> QED
  BY <1>4 DEF SeqNum

\* A row with the next UID of a mailbox can be added.
LEMMA AddRow ==
  ASSUME NEW b \in Boxes, NEW m \in Rows, RowsOK(b, m),
         NEW n \in MsgIDs, m[n].state = "none",
         NEW k \in BoxIDs, b[k].nextUID > 0,
         NEW r \in Row, r.state # "none", r.box = k, r.uid = b[k].nextUID,
         NEW c, c = [b EXCEPT ![k].nextUID = @ + 1],
         NEW d, d = [m EXCEPT ![n] = r]
  PROVE  c \in Boxes /\ d \in Rows /\ RowsOK(c, d)
<1>1. c \in Boxes /\ d \in Rows
  BY DEF Boxes, Rows, Box
<1>2. /\ \A l \in BoxIDs : /\ c[l].nextUID \in Nat /\ b[l].nextUID \in Nat
                           /\ c[l].nextUID >= b[l].nextUID /\ c[l].name = b[l].name
      /\ c[k].nextUID = b[k].nextUID + 1
  BY DEF Boxes, Box
<1>3. /\ \A i \in MsgIDs : i # n => d[i] = m[i]
      /\ d[n] = r
      /\ \A i \in MsgIDs : d[i].uid \in Nat /\ d[i].box \in BoxIDs \cup {0} /\ m[i].uid \in Nat /\ m[i].box \in BoxIDs \cup {0}
  BY DEF Rows, Row
<1>4. \A i \in MsgIDs : d[i].state # "none" => d[i].uid > 0 /\ d[i].box # 0 /\ d[i].uid < c[d[i].box].nextUID
  <2> TAKE i \in MsgIDs
  <2>1. CASE i = n
    BY <2>1, <1>2, <1>3, 0 \notin BoxIDs DEF BoxIDs
  <2>2. CASE i # n
    BY <2>2, <1>2, <1>3 DEF RowsOK
  <2> QED
    BY <2>1, <2>2
<1>5. \A i, j \in MsgIDs :
        i # j /\ d[i].state # "none" /\ d[j].state # "none" /\ d[i].box = d[j].box => d[i].uid # d[j].uid
  BY <1>2, <1>3 DEF RowsOK
<1>6. \A l \in BoxIDs : c[l].name # NoName => c[l].nextUID > 0
  BY <1>2 DEF RowsOK
<1> QED
  BY <1>1, <1>4, <1>5, <1>6 DEF RowsOK

LEMMA TablesTyped == TypeOK => boxes \in Boxes /\ msgs \in Rows
BY DEF TypeOK, Boxes, Rows

LEMMA NewRowFree ==
  ASSUME HasRoom
  PROVE  NewRow \in MsgIDs /\ msgs[NewRow].state = "none"
BY DEF HasRoom, NewRow

\* Changes of a row or a mailbox that leave UIDs alone keep RowsOK.
LEMMA SameUIDs ==
  ASSUME NEW b \in Boxes, NEW m \in Rows, NEW c \in Boxes, NEW d \in Rows, RowsOK(b, m),
         \A i \in MsgIDs : /\ d[i].uid = m[i].uid /\ d[i].box = m[i].box
                           /\ d[i].state # "none" => m[i].state # "none",
         \A k \in BoxIDs : /\ c[k].nextUID >= b[k].nextUID
                           /\ c[k].name # NoName => c[k].nextUID > 0
  PROVE  RowsOK(c, d)
<1>1. \A i \in MsgIDs : m[i].uid \in Nat /\ m[i].box \in BoxIDs \cup {0}
  BY DEF Rows, Row
<1>2. \A k \in BoxIDs : c[k].nextUID \in Nat /\ b[k].nextUID \in Nat
  BY DEF Boxes, Box
<1> QED
  BY <1>1, <1>2 DEF RowsOK

-----------------------------------------------------------------------------
LEMMA InitInv == Init => Inv
<1> SUFFICES ASSUME Init PROVE Inv
  OBVIOUS
<1>2. boxes \in [BoxIDs -> Box]
  <2>1. [name : Reserved, nextUID : {1}, uidValidity : BoxIDs] \subseteq Box
    <3>1. BoxIDs \subseteq UIDValidities
      BY SizeAssumption DEF BoxIDs, UIDValidities
    <3>2. \A n \in Reserved : n \in Names \cup {NoName}
      BY Zenon, NameAssumption
    <3> QED
      BY <3>1, <3>2 DEF Box
  <2> QED
    BY NullTypes, <2>1 DEF Init
<1>3. msgs \in [MsgIDs -> Row] /\ modNext \in [Names -> Nat]
  BY NullTypes DEF Init
<1>4. TypeOK
  BY <1>2, <1>3, IdleType, NoTablesType DEF Init, TypeOK, NoRow
<1>5. RowsOK(boxes, msgs)
  <2>1. \A i \in MsgIDs : msgs[i].state = "none"
    BY DEF Init, NoRow
  <2>2. \A k \in BoxIDs : boxes[k].name # NoName => boxes[k].nextUID > 0
    BY DEF Init, NoBox
  <2> QED
    BY <2>1, <2>2 DEF RowsOK
<1>6. RowsOK(saved.boxes, saved.msgs)
  BY NoTablesOK DEF Init
<1>7. TxnInv
  BY DEF Init, TxnInv, NoTxn, Idle
<1> QED
  BY <1>4, <1>5, <1>6, <1>7 DEF Inv

LEMMA CreateMailboxInv ==
  ASSUME Inv, NEW n \in Names, CreateMailbox(n)
  PROVE  Inv'
<1> USE DEF Inv
<1>1. PICK m \in BoxIDs, v \in UIDValidities :
        /\ boxes[m] = NoBox
        /\ boxes' = [boxes EXCEPT ![m] = [name |-> n, nextUID |-> 1, uidValidity |-> v]]
  BY DEF CreateMailbox
<1>2. boxes' \in [BoxIDs -> Box]
  BY <1>1 DEF TypeOK, Box
<1>3. modNext' \in [Names -> Nat]
  BY DEF CreateMailbox, TypeOK
<1>4. TypeOK'
  BY <1>2, <1>3 DEF CreateMailbox, TypeOK, txnVars
<1>5. \A k \in BoxIDs : /\ boxes'[k].nextUID >= boxes[k].nextUID
                        /\ boxes'[k].name # NoName => boxes'[k].nextUID > 0
  BY <1>1 DEF TypeOK, Box, NoBox, RowsOK
<1>6. RowsOK(boxes', msgs)
  BY <1>2, <1>5, SameUIDs DEF TypeOK, Boxes, Rows
<1>7. TxnInv'
  BY DEF CreateMailbox, TxnInv, NoTxn, txnVars, Idle
<1> QED
  BY <1>4, <1>6, <1>7 DEF CreateMailbox, txnVars

LEMMA DeleteMailboxInv ==
  ASSUME Inv, NEW n \in Names, DeleteMailbox(n)
  PROVE  Inv'
<1> USE DEF Inv
<1>1. PICK m \in BoxIDs, v \in UIDValidities :
        boxes' = [boxes EXCEPT ![m].name = NoName, ![m].uidValidity = v]
  BY DEF DeleteMailbox, BoxNamed
<1>2. boxes' \in [BoxIDs -> Box]
  <2>1. NoName \in Names \cup {NoName}
    OBVIOUS
  <2>2. [[boxes[m] EXCEPT !.name = NoName] EXCEPT !.uidValidity = v] \in Box
    BY <2>1 DEF TypeOK, Box
  <2>3. boxes' = [boxes EXCEPT ![m] = [[boxes[m] EXCEPT !.name = NoName] EXCEPT !.uidValidity = v]]
    BY <1>1 DEF TypeOK
  <2> QED
    BY <2>2, <2>3 DEF TypeOK
<1>4. TypeOK'
  BY <1>2 DEF DeleteMailbox, TypeOK, txnVars
<1>5. \A k \in BoxIDs : /\ boxes'[k].nextUID >= boxes[k].nextUID
                        /\ boxes'[k].name # NoName => boxes'[k].nextUID > 0
  BY <1>1 DEF TypeOK, Box, RowsOK
<1>6. RowsOK(boxes', msgs)
  BY <1>2, <1>5, SameUIDs DEF TypeOK, Boxes, Rows
<1>7. TxnInv'
  BY DEF DeleteMailbox, TxnInv, NoTxn, txnVars, Idle
<1> QED
  BY <1>4, <1>6, <1>7 DEF DeleteMailbox, txnVars

\* SELECT and the lookup of a name write nothing.
LEMMA LookUpInv ==
  ASSUME Inv, NEW s \in Sessions, NEW n \in Names, Select(s, n) \/ LookUp(s, n)
  PROVE  Inv'
<1> USE DEF Inv
<1>1. UNCHANGED <<boxes, modNext, msgs, txn, saved, firstNew>>
  BY DEF Select, LookUp, tables, txnVars
<1>2. selected' \in [Sessions -> BoxIDs \cup {0}] /\ target' \in [Sessions -> BoxIDs \cup {0}]
  <2>1. BoxNamed(n) # {} => (CHOOSE m \in BoxNamed(n) : TRUE) \in BoxIDs
    BY DEF BoxNamed
  <2>2. CASE Select(s, n)
    BY <2>1, <2>2 DEF Select, TypeOK
  <2>3. CASE LookUp(s, n)
    BY <2>3 DEF LookUp, TypeOK, BoxNamed
  <2> QED
    BY <2>2, <2>3
<1>3. TypeOK'
  BY <1>1, <1>2 DEF TypeOK
<1>4. TxnInv'
  BY <1>1 DEF TxnInv, NoTxn, Idle
<1> QED
  BY <1>1, <1>3, <1>4

\* A new message is a row with the next UID of its mailbox.
LEMMA InsertMsgInv ==
  ASSUME Inv, NoTxn, NEW m \in BoxIDs, NEW fl \in SUBSET Flags, InsertMsg(m, fl),
         target' \in [Sessions -> BoxIDs \cup {0}]
  PROVE  Inv'
<1> USE DEF Inv
<1>1. NewRow \in MsgIDs /\ msgs[NewRow].state = "none"
  BY NewRowFree DEF InsertMsg
<1>2. boxes[m].name \in Names /\ modNext[boxes[m].name] \in Nat /\ boxes[m].nextUID \in Nat
  BY DEF InsertMsg, HasModSeq, TypeOK, Box
<1>3. boxes[m].nextUID > 0
  BY DEF InsertMsg, HasModSeq, RowsOK
<1> DEFINE r == [state |-> "Ready", box |-> m, uid |-> boxes[m].nextUID,
                 modSeq |-> modNext[boxes[m].name], flags |-> fl]
<1>4. r \in Row /\ r.state # "none" /\ r.box = m /\ r.uid = boxes[m].nextUID
  BY <1>2 DEF Row, MsgStates
<1>5. msgs' = [msgs EXCEPT ![NewRow] = r] /\ boxes' = [boxes EXCEPT ![m].nextUID = @ + 1]
  BY DEF InsertMsg, NextMsgUID
<1> HIDE DEF r
<1>6. boxes' \in Boxes /\ msgs' \in Rows /\ RowsOK(boxes', msgs')
  BY Zenon, <1>1, <1>3, <1>4, <1>5, TablesTyped, AddRow
<1>7. modNext' \in [Names -> Nat]
  BY <1>2 DEF InsertMsg, NextMsgModSeq, TypeOK
<1>8. TypeOK'
  BY <1>6, <1>7 DEF InsertMsg, TypeOK, txnVars, Boxes, Rows, RowsOK
<1>9. TxnInv'
  BY DEF InsertMsg, TxnInv, NoTxn, txnVars, Idle
<1> QED
  BY <1>6, <1>8, <1>9 DEF InsertMsg, txnVars

LEMMA ArrivalInv ==
  ASSUME Inv, Deliver \/ \E s \in Sessions, fl \in AppendFlags : Append_(s, fl)
  PROVE  Inv'
<1>1. CASE Deliver
  <2>1. PICK m \in BoxIDs : InsertMsg(m, {})
    BY <1>1 DEF Deliver, BoxNamed
  <2> QED
    BY <1>1, <2>1, InsertMsgInv DEF Deliver, Inv, TypeOK
<1>2. ASSUME NEW s \in Sessions, NEW fl \in AppendFlags, Append_(s, fl)
      PROVE  Inv'
  <2>1. target' \in [Sessions -> BoxIDs \cup {0}] /\ target[s] \in BoxIDs /\ fl \in SUBSET Flags
    BY <1>2, FlagAssumption DEF Append_, Inv, TypeOK
  <2>2. CASE InsertMsg(target[s], fl)
    BY <1>2, <2>1, <2>2, InsertMsgInv DEF Append_
  <2>3. CASE UNCHANGED <<tables, txnVars, selected>>
    BY <2>1, <2>3 DEF tables, txnVars, Inv, TypeOK, TxnInv, NoTxn, Idle
  <2> QED
    BY <1>2, <2>2, <2>3 DEF Append_
<1> QED
  BY <1>1, <1>2

LEMMA SetSeenInv ==
  ASSUME Inv, NEW s \in Sessions, NEW i \in MsgIDs, SetSeen(s, i)
  PROVE  Inv'
<1> USE DEF Inv
<1>1. msgs' = [msgs EXCEPT ![i] = [msgs[i] EXCEPT !.flags = msgs[i].flags \cup {Seen}]]
  BY DEF SetSeen
<1>2. [msgs[i] EXCEPT !.flags = msgs[i].flags \cup {Seen}] \in Row
  <2>1. msgs[i] \in Row /\ msgs[i].flags \cup {Seen} \in SUBSET Flags
    BY FlagAssumption DEF TypeOK, Row
  <2> QED
    BY <2>1 DEF Row
<1>3. msgs' \in Rows
  BY <1>1, <1>2 DEF TypeOK, Rows
<1>4. \A j \in MsgIDs : /\ msgs'[j].uid = msgs[j].uid /\ msgs'[j].box = msgs[j].box
                        /\ msgs'[j].state = msgs[j].state
  BY <1>1 DEF TypeOK, Row
<1>5. \A k \in BoxIDs : /\ boxes[k].nextUID >= boxes[k].nextUID
                        /\ boxes[k].name # NoName => boxes[k].nextUID > 0
  BY DEF TypeOK, Box, RowsOK
<1>6. RowsOK(boxes, msgs')
  BY <1>3, <1>4, <1>5, TablesTyped, SameUIDs
<1>7. TypeOK'
  BY <1>3, <1>4 DEF SetSeen, TypeOK, txnVars, Rows
<1>8. TxnInv'
  BY DEF SetSeen, TxnInv, NoTxn, txnVars, Idle
<1> QED
  BY <1>6, <1>7, <1>8 DEF SetSeen, txnVars

-----------------------------------------------------------------------------
\* A transaction begins with the tables as they are.
LEMMA BeginInv ==
  ASSUME Inv, NEW t \in Txn, Begin(t), t.kind # "none", t.src # 0,
         \A i \in t.work : msgs[i].state = "Ready" /\ msgs[i].box = t.src,
         t.kind \in {"copy", "move"} => t.dst # 0 /\ boxes[t.dst].nextUID > 0,
         t.kind = "store" => t.mode # "none",
         UNCHANGED <<boxes, msgs, selected>>, modNext' \in [Names -> Nat],
         target' \in [Sessions -> BoxIDs \cup {0}]
  PROVE  Inv'
<1> USE DEF Inv
<1>1. saved' \in [boxes : [BoxIDs -> Box], modNext : [Names -> Nat], msgs : [MsgIDs -> Row]]
  BY DEF Begin, TypeOK
<1>2. t.src \in BoxIDs /\ firstNew' \in Nat
  <2>1. t.src \in BoxIDs
    BY DEF Txn
  <2> QED
    BY <2>1 DEF Begin, TypeOK, Box
<1>3. TypeOK'
  BY <1>1, <1>2 DEF TypeOK, Begin
<1>4. RowsOK(saved'.boxes, saved'.msgs)
  <2>1. saved'.boxes = boxes /\ saved'.msgs = msgs
    BY DEF Begin
  <2> QED
    BY <2>1
<1>5. TxnInv'
  <2>1. txn' = t
    BY DEF Begin
  <2> QED
    BY <2>1 DEF TxnInv, NoTxn
<1> QED
  BY <1>3, <1>4, <1>5

LEMMA StoreInv ==
  ASSUME Inv, NEW s \in Sessions, NEW q \in SeqSets, NEW c \in StoreCmds,
         Store(s, q[1], q[2], c[1], c[2], c[3])
  PROVE  Inv'
<1> DEFINE m == selected[s]
           t == [Idle EXCEPT !.kind = "store", !.src = m, !.modSeq = modNext[boxes[m].name],
                             !.useUID = q[1], !.seqs = q[2], !.mode = c[1], !.flags = c[2],
                             !.since = c[3]]
<1>1. m \in BoxIDs /\ boxes[m].name \in Names /\ modNext[boxes[m].name] \in Nat
  BY DEF Store, HasModSeq, Inv, TypeOK, Box
<1>2. /\ q[1] \in BOOLEAN /\ q[2] \in Seq(Nat \X Nat)
      /\ c[1] \in {"add", "remove", "replace"} /\ c[2] \in SUBSET Flags /\ c[3] \in Nat
  BY CommandAssumption
<1>3. t \in Txn
  BY <1>1, <1>2, IdleType DEF Txn
<1>4. t.kind = "store" /\ t.src # 0 /\ t.work = {} /\ t.mode # "none"
  BY <1>1, <1>2 DEF Idle, Store
<1>5. modNext' \in [Names -> Nat] /\ UNCHANGED <<boxes, msgs, selected>> /\ Begin(t)
  BY <1>1 DEF Store, NextMsgModSeq, Inv, TypeOK
<1>6. target' \in [Sessions -> BoxIDs \cup {0}]
  BY DEF Store, Inv, TypeOK
<1> HIDE DEF t
<1> QED
  BY <1>3, <1>4, <1>5, <1>6, BeginInv

LEMMA CopyOrMoveInv ==
  ASSUME Inv, NEW s \in Sessions, NEW q \in SeqSets, NEW kind \in {"copy", "move"},
         CopyOrMove(s, kind, q[1], q[2])
  PROVE  Inv'
<1> DEFINE m == target[s]
           t == [Idle EXCEPT !.kind = kind, !.src = selected[s], !.dst = m,
                             !.modSeq = modNext[boxes[m].name], !.useUID = q[1], !.seqs = q[2]]
<1>1. m \in BoxIDs /\ selected[s] \in BoxIDs
  BY DEF CopyOrMove, Inv, TypeOK
<1>2. target' \in [Sessions -> BoxIDs \cup {0}] /\ UNCHANGED <<boxes, msgs, selected>>
  BY DEF CopyOrMove, Inv, TypeOK
<1>3. CASE UNCHANGED <<modNext, txnVars>>
  BY <1>2, <1>3 DEF txnVars, Inv, TypeOK, TxnInv, NoTxn, Idle
<1>4. CASE HasModSeq(m) /\ Begin(t) /\ modNext' = NextMsgModSeq(m)
  <2>1. boxes[m].name \in Names /\ modNext[boxes[m].name] \in Nat
    BY <1>1, <1>4 DEF HasModSeq, Inv, TypeOK, Box
  <2>2. q[1] \in BOOLEAN /\ q[2] \in Seq(Nat \X Nat)
    BY CommandAssumption
  <2>3. t \in Txn
    BY <1>1, <2>1, <2>2, IdleType DEF Txn
  <2>4. t.kind = kind /\ t.src # 0 /\ t.work = {} /\ t.dst = m
    BY <1>1 DEF Idle, BoxIDs
  <2>5. boxes[m].nextUID > 0 /\ m # 0
    BY <1>1, <1>4 DEF HasModSeq, Inv, RowsOK, BoxIDs
  <2>6. modNext' \in [Names -> Nat]
    BY <1>4, <2>1 DEF NextMsgModSeq, Inv, TypeOK
  <2> HIDE DEF t
  <2> QED
    BY <1>2, <1>4, <2>3, <2>4, <2>5, <2>6, BeginInv
<1> QED
  BY <1>3, <1>4 DEF CopyOrMove

LEMMA ExpungeInv ==
  ASSUME Inv, NEW s \in Sessions, NEW uids, Expunge(s, uids)
  PROVE  Inv'
<1> DEFINE m == selected[s]
           gone == {i \in Ready(m) : Deleted \in msgs[i].flags /\ msgs[i].uid \in uids}
           num == [i \in MsgIDs |-> IF i \in gone THEN SeqNum(i) ELSE 0]
           t == [Idle EXCEPT !.kind = "expunge", !.src = m, !.work = gone, !.num = num]
<1>1. m \in BoxIDs /\ m # 0 /\ gone \subseteq MsgIDs
  BY DEF Expunge, Inv, TypeOK, Ready
<1>2. num \in [MsgIDs -> Nat]
  BY SeqNumType
<1>3. t.kind = "expunge" /\ t.src = m /\ t.work = gone
  BY DEF Idle
<1>4. Begin(t) /\ UNCHANGED <<boxes, msgs, modNext, selected, target>>
  BY DEF Expunge, tables
<1>5. \A i \in gone : msgs[i].state = "Ready" /\ msgs[i].box = m
  BY DEF Ready
<1> HIDE DEF gone, num
<1>6. t \in Txn
  BY <1>1, <1>2, IdleType DEF Txn
<1> HIDE DEF t
<1> QED
  BY <1>1, <1>3, <1>4, <1>5, <1>6, BeginInv DEF Inv, TypeOK

-----------------------------------------------------------------------------
\* The query of a range finds messages of the source.
LEMMA NextRangeInv == Inv /\ NextRange => Inv'
<1> SUFFICES ASSUME Inv, NextRange PROVE Inv'
  OBVIOUS
<1>1. PICK hit \in SUBSET Ready(txn.src) :
        txn' = [txn EXCEPT !.seqs = Tail(@), !.work = hit, !.seqDelta = 0,
                           !.num = [i \in MsgIDs |-> IF i \in hit THEN SeqNum(i) ELSE 0]]
  <2>1. \A u, min, max : InRange(txn.src, u, min, max) \in SUBSET Ready(txn.src)
    BY DEF InRange
  <2> QED
    BY <2>1, ZenonT(60) DEF NextRange
<1>2. UNCHANGED <<boxes, modNext, msgs, saved, firstNew, selected, target>>
  BY DEF NextRange, tables
<1> DEFINE num == [i \in MsgIDs |-> IF i \in hit THEN SeqNum(i) ELSE 0]
<1>3. num \in [MsgIDs -> Nat]
  BY SeqNumType
<1>4. Tail(txn.seqs) \in Seq(Nat \X Nat)
  <2>1. txn.seqs \in Seq(Nat \X Nat) /\ txn.seqs # <<>>
    BY DEF NextRange, Inv, TypeOK, Txn
  <2> QED
    BY <2>1
<1>5. hit \subseteq MsgIDs /\ \A i \in hit : msgs[i].state = "Ready" /\ msgs[i].box = txn.src
  BY DEF Ready
<1> HIDE DEF num
<1>6. /\ txn' \in Txn /\ txn'.work = hit /\ txn'.kind = txn.kind /\ txn'.src = txn.src
      /\ txn'.dst = txn.dst /\ txn'.mode = txn.mode
  <2>1. txn \in Txn
    BY DEF Inv, TypeOK
  <2>2. txn' = [txn EXCEPT !.seqs = Tail(@), !.work = hit, !.seqDelta = 0, !.num = num]
    BY <1>1 DEF num
  <2> QED
    BY <1>3, <1>4, <1>5, <2>1, <2>2 DEF Txn
<1>7. TypeOK'
  BY <1>2, <1>6 DEF Inv, TypeOK
<1>8. TxnInv'
  <2>1. ~NoTxn
    BY DEF NextRange, NoTxn
  <2> QED
    BY <1>2, <1>5, <1>6, <2>1 DEF Inv, TxnInv, NoTxn
<1> QED
  BY <1>2, <1>7, <1>8 DEF Inv

\* A step of a transaction that takes a message off the work.
LEMMA WorkDone ==
  ASSUME Inv, NEW i \in txn.work, ~NoTxn,
         \/ txn' = [txn EXCEPT !.work = @ \ {i}]
         \/ txn' = [txn EXCEPT !.work = @ \ {i}, !.seqDelta = @ + 1]
         \/ txn' = [txn EXCEPT !.work = @ \ {i}, !.seqDelta = @ + 1, !.rangeSeqDelta = @ + 1]
  PROVE  /\ txn' \in Txn /\ txn'.work = txn.work \ {i} /\ txn'.kind = txn.kind
         /\ txn'.src = txn.src /\ txn'.dst = txn.dst /\ txn'.mode = txn.mode
         /\ txn'.modSeq = txn.modSeq /\ txn'.num = txn.num
<1>1. txn \in Txn
  BY DEF Inv, TypeOK
<1>2. txn.seqDelta + 1 \in Nat /\ txn.rangeSeqDelta + 1 \in Nat /\ txn.work \ {i} \in SUBSET MsgIDs
  BY <1>1 DEF Txn
<1>3. CASE txn' = [txn EXCEPT !.work = @ \ {i}]
  BY <1>1, <1>2, <1>3 DEF Txn
<1>4. CASE txn' = [txn EXCEPT !.work = @ \ {i}, !.seqDelta = @ + 1]
  BY <1>1, <1>2, <1>4 DEF Txn
<1>5. CASE txn' = [txn EXCEPT !.work = @ \ {i}, !.seqDelta = @ + 1, !.rangeSeqDelta = @ + 1]
  BY <1>1, <1>2, <1>5 DEF Txn
<1> QED
  BY <1>3, <1>4, <1>5

LEMMA TxnStepInv ==
  ASSUME Inv, NEW i \in txn.work, ~NoTxn,
         txn' \in Txn, txn'.work = txn.work \ {i}, txn'.kind = txn.kind,
         txn'.src = txn.src, txn'.dst = txn.dst, txn'.mode = txn.mode,
         boxes' \in Boxes, msgs' \in Rows, RowsOK(boxes', msgs'),
         \A k \in BoxIDs : boxes'[k].nextUID >= boxes[k].nextUID,
         \A j \in MsgIDs : j # i /\ msgs[j].state # "none" =>
                             msgs'[j].state = msgs[j].state /\ msgs'[j].box = msgs[j].box,
         UNCHANGED <<modNext, saved, firstNew, selected, target>>
  PROVE  Inv'
<1>1. TypeOK'
  <2>1. \A j \in MsgIDs : msgs'[j].state # "none" => msgs'[j].uid > 0
    BY DEF RowsOK
  <2>2. boxes' \in [BoxIDs -> Box] /\ msgs' \in [MsgIDs -> Row]
    BY DEF Boxes, Rows
  <2> QED
    BY <2>1, <2>2 DEF Inv, TypeOK
<1>2. TxnInv'
  <2>1. \A j \in txn.work \ {i} : msgs'[j].state = "Ready" /\ msgs'[j].box = txn.src
    BY DEF Inv, TxnInv, TypeOK, Txn
  <2>2. txn.kind \in {"copy", "move"} => boxes'[txn.dst].nextUID > 0
    <3>1. txn.kind \in {"copy", "move"} => txn.dst \in BoxIDs /\ boxes[txn.dst].nextUID > 0
      BY DEF Inv, TxnInv, TypeOK, Txn
    <3>2. \A k \in BoxIDs : boxes'[k].nextUID \in Nat /\ boxes[k].nextUID \in Nat
      BY DEF Inv, TypeOK, Boxes, Box
    <3> QED
      BY <3>1, <3>2
  <2> QED
    BY <2>1, <2>2 DEF Inv, TxnInv, NoTxn
<1> QED
  BY <1>1, <1>2 DEF Inv

LEMMA StoreMsgInv ==
  ASSUME Inv, NEW i \in MsgIDs, StoreMsg(i)
  PROVE  Inv'
<1>1. i \in txn.work /\ ~NoTxn /\ txn' = [txn EXCEPT !.work = @ \ {i}]
  BY DEF StoreMsg, First, NoTxn
<1>2. PICK new \in SUBSET Flags : msgs' = msgs \/ msgs' = [msgs EXCEPT ![i].flags = new, ![i].modSeq = txn.modSeq]
  <2>1. txn.flags \in SUBSET Flags /\ msgs[i].flags \in SUBSET Flags
    BY DEF Inv, TypeOK, Txn, Row
  <2>2. txn.mode \in {"add", "remove", "replace"}
    BY DEF StoreMsg, Inv, TxnInv, TypeOK, Txn
  <2> QED
    BY <2>1, <2>2 DEF StoreMsg
<1>3. msgs' \in Rows /\ \A j \in MsgIDs : /\ msgs'[j].uid = msgs[j].uid /\ msgs'[j].box = msgs[j].box
                                          /\ msgs'[j].state = msgs[j].state
  <2>1. msgs \in Rows /\ txn.modSeq \in Nat
    BY DEF Inv, TypeOK, Rows, Txn
  <2> QED
    BY <1>2, <2>1 DEF Rows, Row
<1>4. UNCHANGED <<boxes, modNext, saved, firstNew, selected, target>>
  BY DEF StoreMsg
<1>5. \A k \in BoxIDs : /\ boxes[k].nextUID >= boxes[k].nextUID
                        /\ boxes[k].name # NoName => boxes[k].nextUID > 0
  BY DEF Inv, TypeOK, Box, RowsOK
<1>6. boxes \in Boxes /\ msgs \in Rows /\ RowsOK(boxes, msgs)
  BY TablesTyped DEF Inv
<1>7. RowsOK(boxes, msgs')
  BY <1>3, <1>5, <1>6, SameUIDs
<1> QED
  BY <1>1, <1>3, <1>4, <1>5, <1>6, <1>7, WorkDone, TxnStepInv

LEMMA ExpungeMsgInv ==
  ASSUME Inv, NEW i \in MsgIDs, ExpungeMsg(i)
  PROVE  Inv'
<1>1. i \in txn.work /\ ~NoTxn /\ txn' = [txn EXCEPT !.work = @ \ {i}, !.seqDelta = @ + 1]
  BY DEF ExpungeMsg, First, NoTxn
<1>2. boxes \in Boxes /\ msgs \in Rows /\ RowsOK(boxes, msgs)
  BY TablesTyped DEF Inv
<1>3. msgs' = [msgs EXCEPT ![i].state = "Expunged"]
  BY DEF ExpungeMsg
<1>4. msgs' \in Rows /\ \A j \in MsgIDs : /\ msgs'[j].uid = msgs[j].uid /\ msgs'[j].box = msgs[j].box
                                          /\ j # i => msgs'[j].state = msgs[j].state
  BY <1>2, <1>3 DEF Rows, Row, MsgStates
<1>5. msgs[i].state # "none"
  BY <1>1 DEF Inv, TxnInv
<1>6. UNCHANGED <<boxes, modNext, saved, firstNew, selected, target>>
  BY DEF ExpungeMsg
<1>7. \A k \in BoxIDs : /\ boxes[k].nextUID >= boxes[k].nextUID
                        /\ boxes[k].name # NoName => boxes[k].nextUID > 0
  BY DEF Inv, TypeOK, Box, RowsOK
<1>8. RowsOK(boxes, msgs')
  BY <1>2, <1>4, <1>5, <1>7, SameUIDs
<1> QED
  BY <1>1, <1>2, <1>4, <1>6, <1>7, <1>8, WorkDone, TxnStepInv

LEMMA CopyMsgInv ==
  ASSUME Inv, NEW i \in MsgIDs, CopyMsg(i)
  PROVE  Inv'
<1> DEFINE k == txn.dst
           r == [state |-> "Ready", box |-> k, uid |-> boxes[k].nextUID, modSeq |-> txn.modSeq,
                 flags |-> msgs[i].flags]
<1>1. i \in txn.work /\ ~NoTxn /\ txn' = [txn EXCEPT !.work = @ \ {i}]
  BY DEF CopyMsg, First, NoTxn
<1>2. boxes \in Boxes /\ msgs \in Rows /\ RowsOK(boxes, msgs)
  BY TablesTyped DEF Inv
<1>3. k \in BoxIDs /\ boxes[k].nextUID > 0 /\ txn.modSeq \in Nat
  BY DEF CopyMsg, Inv, TxnInv, TypeOK, Txn
<1>4. NewRow \in MsgIDs /\ msgs[NewRow].state = "none"
  BY NewRowFree DEF CopyMsg
<1>5. r \in Row /\ r.state # "none" /\ r.box = k /\ r.uid = boxes[k].nextUID
  <2>1. boxes[k].nextUID \in Nat /\ msgs[i].flags \in SUBSET Flags
    BY <1>2, <1>3 DEF Boxes, Rows, Box, Row
  <2> QED
    BY <1>3, <2>1 DEF Row, MsgStates
<1>6. boxes' = [boxes EXCEPT ![k].nextUID = @ + 1] /\ msgs' = [msgs EXCEPT ![NewRow] = r]
  BY DEF CopyMsg, NextMsgUID
<1> HIDE DEF r
<1>7. boxes' \in Boxes /\ msgs' \in Rows /\ RowsOK(boxes', msgs')
  BY Zenon, <1>2, <1>3, <1>4, <1>5, <1>6, AddRow
<1>8. \A l \in BoxIDs : boxes'[l].nextUID >= boxes[l].nextUID
  BY <1>2, <1>3, <1>6 DEF Boxes, Box
<1>9. \A j \in MsgIDs : msgs[j].state # "none" => msgs'[j] = msgs[j]
  BY <1>2, <1>4, <1>6 DEF Rows
<1>10. UNCHANGED <<modNext, saved, firstNew, selected, target>>
  BY DEF CopyMsg
<1> QED
  BY <1>1, <1>7, <1>8, <1>9, <1>10, WorkDone, TxnStepInv

\* The message gets a new UID, and the tombstone is alone with the old one.
LEMMA MoveMsgInv ==
  ASSUME Inv, NEW i \in MsgIDs, MoveMsg(i)
  PROVE  Inv'
<1> DEFINE k == txn.dst
           n == NewRow
           tomb == [NoRow EXCEPT !.state = "Tombstone", !.box = txn.src, !.uid = msgs[i].uid,
                                 !.modSeq = txn.modSeq]
<1>1. /\ i \in txn.work /\ ~NoTxn
      /\ txn' = [txn EXCEPT !.work = @ \ {i}, !.seqDelta = @ + 1, !.rangeSeqDelta = @ + 1]
  BY DEF MoveMsg, First, NoTxn
<1>2. boxes \in Boxes /\ msgs \in Rows /\ RowsOK(boxes, msgs)
  BY TablesTyped DEF Inv
<1>3. k \in BoxIDs /\ boxes[k].nextUID > 0 /\ txn.modSeq \in Nat /\ txn.src \in BoxIDs
  BY <1>1 DEF MoveMsg, Inv, TxnInv, TypeOK, Txn
<1>4. n \in MsgIDs /\ msgs[n].state = "none"
  BY NewRowFree DEF MoveMsg
<1>5. msgs[i].state = "Ready" /\ msgs[i].box = txn.src /\ i # n
  BY <1>1, <1>4 DEF Inv, TxnInv
<1>6. boxes' = [boxes EXCEPT ![k].nextUID = @ + 1]
  BY DEF MoveMsg, NextMsgUID
<1>7. /\ boxes' \in Boxes
      /\ \A l \in BoxIDs : /\ boxes'[l].nextUID \in Nat /\ boxes[l].nextUID \in Nat
                            /\ boxes'[l].nextUID >= boxes[l].nextUID /\ boxes'[l].name = boxes[l].name
      /\ boxes'[k].nextUID = boxes[k].nextUID + 1
  BY <1>2, <1>3, <1>6 DEF Boxes, Box
<1>8. /\ tomb.state = "Tombstone" /\ tomb.box = txn.src /\ tomb.uid = msgs[i].uid /\ tomb \in Row
  <2>1. msgs[i].uid \in Nat
    BY <1>2 DEF Rows, Row
  <2> QED
    BY <1>3, <2>1 DEF NoRow, Row, MsgStates
<1> DEFINE r == [[[msgs[i] EXCEPT !.box = k] EXCEPT !.uid = boxes[k].nextUID] EXCEPT !.modSeq = txn.modSeq]
<1>9. r \in Row /\ r.state = "Ready" /\ r.box = k /\ r.uid = boxes[k].nextUID
  <2>1. msgs[i] \in Row /\ boxes[k].nextUID \in Nat
    BY <1>2, <1>3, <1>7 DEF Rows
  <2> QED
    BY <1>3, <1>5, <2>1 DEF Row
<1>10. /\ msgs' \in Rows
      /\ msgs'[i] = r /\ msgs'[n] = tomb /\ \A j \in MsgIDs \ {i, n} : msgs'[j] = msgs[j]
  <2>1. msgs' = [msgs EXCEPT ![i] = r, ![n] = tomb]
    BY <1>2 DEF MoveMsg, Rows
  <2> HIDE DEF r, tomb
  <2> QED
    BY <1>2, <1>4, <1>5, <1>8, <1>9, <2>1 DEF Rows
<1> HIDE DEF r, tomb
<1>11. \A j \in MsgIDs : msgs[j].uid \in Nat /\ msgs[j].box \in BoxIDs \cup {0}
  BY <1>2 DEF Rows, Row
<1>12. RowsOK(boxes', msgs')
  <2>1. \A j \in MsgIDs : msgs'[j].state # "none" =>
          msgs'[j].uid > 0 /\ msgs'[j].box # 0 /\ msgs'[j].uid < boxes'[msgs'[j].box].nextUID
    <3> TAKE j \in MsgIDs
    <3>1. CASE j = i
      BY <3>1, <1>3, <1>7, <1>10, <1>9 DEF BoxIDs
    <3>2. CASE j = n
      BY <3>2, <1>2, <1>3, <1>5, <1>7, <1>8, <1>10, <1>11 DEF BoxIDs, RowsOK
    <3>3. CASE j \notin {i, n}
      BY <3>3, <1>2, <1>7, <1>10, <1>11 DEF RowsOK
    <3> QED
      BY <3>1, <3>2, <3>3
  <2>2. \A j, l \in MsgIDs :
          j # l /\ msgs'[j].state # "none" /\ msgs'[l].state # "none" /\ msgs'[j].box = msgs'[l].box
            => msgs'[j].uid # msgs'[l].uid
    <3>1. \A j \in MsgIDs \ {i} : msgs'[j].state # "none" /\ msgs'[j].box = k => msgs'[j].uid < boxes[k].nextUID
      BY <1>2, <1>3, <1>5, <1>8, <1>10, <1>11 DEF RowsOK
    <3>2. \A j \in MsgIDs \ {i, n} : msgs'[j].state # "none" /\ msgs'[j].box = tomb.box => msgs'[j].uid # tomb.uid
      BY <1>2, <1>5, <1>8, <1>10 DEF RowsOK
    <3>3. \A j \in MsgIDs : msgs'[j].uid \in Nat
      BY <1>10 DEF Rows, Row
    <3>4. \A j, l \in MsgIDs \ {i, n} :
            j # l /\ msgs'[j].state # "none" /\ msgs'[l].state # "none" /\ msgs'[j].box = msgs'[l].box
              => msgs'[j].uid # msgs'[l].uid
      BY <1>2, <1>10 DEF RowsOK
    <3>5. boxes[k].nextUID \in Nat /\ msgs'[i].box = k /\ msgs'[i].uid = boxes[k].nextUID
      BY <1>3, <1>7, <1>10, <1>9
    <3> QED
      BY <3>1, <3>2, <3>3, <3>4, <3>5, <1>10
  <2>3. \A l \in BoxIDs : boxes'[l].name # NoName => boxes'[l].nextUID > 0
    BY <1>2, <1>7 DEF RowsOK
  <2> QED
    BY <2>1, <2>2, <2>3 DEF RowsOK
<1>13. \A j \in MsgIDs : j # i /\ msgs[j].state # "none" =>
                            msgs'[j].state = msgs[j].state /\ msgs'[j].box = msgs[j].box
  BY <1>4, <1>10
<1>14. UNCHANGED <<modNext, saved, firstNew, selected, target>>
  BY DEF MoveMsg
<1> QED
  BY <1>1, <1>7, <1>10, <1>12, <1>13, <1>14, WorkDone, TxnStepInv

\* The end of a transaction, whichever it is.
LEMMA EndInv ==
  ASSUME Inv, Commit \/ Rollback \/ Crash
  PROVE  Inv'
<1>1. End
  BY DEF Commit, Rollback, Crash
<1>2. /\ selected' \in [Sessions -> BoxIDs \cup {0}] /\ target' \in [Sessions -> BoxIDs \cup {0}]
  BY DEF Commit, Rollback, Crash, Inv, TypeOK
<1>3. \/ UNCHANGED <<boxes, modNext, msgs>>
      \/ boxes' = saved.boxes /\ modNext' = saved.modNext /\ msgs' = saved.msgs
  BY DEF Commit, Rollback, Crash, tables
<1>4. RowsOK(boxes', msgs') /\ boxes' \in [BoxIDs -> Box] /\ modNext' \in [Names -> Nat] /\ msgs' \in [MsgIDs -> Row]
  BY <1>3 DEF Inv, TypeOK
<1>5. TypeOK'
  <2>1. \A i \in MsgIDs : msgs'[i].state # "none" => msgs'[i].uid > 0
    BY <1>4 DEF RowsOK
  <2>2. txn' \in Txn /\ saved' \in [boxes : [BoxIDs -> Box], modNext : [Names -> Nat], msgs : [MsgIDs -> Row]]
    BY <1>1, IdleType, NoTablesType DEF End
  <2>3. firstNew' \in Nat
    BY <1>1 DEF End
  <2> QED
    BY <1>2, <1>4, <2>1, <2>2, <2>3 DEF TypeOK
<1>6. RowsOK(saved'.boxes, saved'.msgs)
  BY <1>1, NoTablesOK DEF End
<1>7. TxnInv'
  BY <1>1 DEF End, TxnInv, NoTxn, Idle
<1> QED
  BY <1>4, <1>5, <1>6, <1>7 DEF Inv

-----------------------------------------------------------------------------
LEMMA NextInv == Inv /\ [Next]_vars => Inv'
<1> SUFFICES ASSUME Inv, [Next]_vars PROVE Inv'
  OBVIOUS
<1>1. CASE UNCHANGED vars
  BY <1>1 DEF vars, tables, txnVars, Inv, TypeOK, TxnInv, NoTxn, Idle
<1>2. CASE \E n \in Names : CreateMailbox(n) \/ DeleteMailbox(n)
  BY <1>2, CreateMailboxInv, DeleteMailboxInv
<1>3. CASE Deliver
  BY <1>3, ArrivalInv
<1>4. ASSUME NEW s \in Sessions, SessionStep(s)
      PROVE  Inv'
  BY <1>4, LookUpInv, ArrivalInv, SetSeenInv, StoreInv, CopyOrMoveInv, ExpungeInv DEF SessionStep
<1>5. CASE TxnStep
  BY <1>5, NextRangeInv, StoreMsgInv, CopyMsgInv, MoveMsgInv, ExpungeMsgInv, EndInv DEF TxnStep
<1>6. CASE Crash
  BY <1>6, EndInv
<1> QED
  BY <1>1, <1>2, <1>3, <1>4, <1>5, <1>6 DEF Next

THEOREM Invariance == Spec => []Inv
<1> QED
  BY InitInv, NextInv, PTL DEF Spec

\* Every variable keeps its type, whatever the sessions do and wherever a
\* transaction fails; no message ever has UID 0 (CreateMailbox, NextMsgUID).
THEOREM BoxTypes == Spec => []TypeOK
<1>1. Inv => TypeOK
  BY DEF Inv
<1> QED
  BY <1>1, Invariance, PTL

\* No two rows of a mailbox, expunged ones and tombstones of Move included,
\* ever share a UID, and NextUID is above all of them: in the middle of a
\* transaction, after its commit, and after the rollback of a crash.
THEOREM UIDsStayUnique == Spec => []UIDsUnique
<1>1. Inv => UIDsUnique
  BY DEF Inv, RowsOK, UIDsUnique
<1> QED
  BY <1>1, Invariance, PTL

-----------------------------------------------------------------------------
(***************************************************************************)
(* UIDVALIDITY                                                             *)
(***************************************************************************)
SameNames(b, c) ==
  \A k \in BoxIDs : b[k].name = c[k].name /\ b[k].uidValidity = c[k].uidValidity

\* max(UIDValidity) only grows, because DeleteMailbox keeps the row; so what
\* clients have seen is below it, and the next one is new.
HistoryInv ==
  /\ Named \subseteq history
  /\ \A h \in history : h[2] \in Nat /\ \E k \in BoxIDs : boxes[k].uidValidity >= h[2]
  /\ \A h, k \in history : h[2] = k[2] => h[3] = k[3]
  /\ ~NoTxn => SameNames(saved.boxes, boxes)

LEMMA HistoryInit == Init => HistoryInv
<1> SUFFICES ASSUME Init PROVE HistoryInv
  OBVIOUS
<1>1. \A m \in BoxIDs : boxes[m].name # NoName => boxes[m].uidValidity = m
  <2>1. Cardinality(Reserved) \in Nat
    BY NameAssumption, FS_CardinalityType
  <2>2. \A m \in BoxIDs : boxes[m].name # NoName => m \in 1..Cardinality(Reserved)
    BY <2>1 DEF Init, NoBox, BoxIDs
  <2> QED
    BY <2>2 DEF Init
<1>2. \A h \in Named : h[3] \in BoxIDs /\ h[2] = h[3] /\ boxes[h[3]].uidValidity = h[2]
  BY <1>1 DEF Named
<1>3. \A m \in BoxIDs : m \in Nat /\ m >= m
  BY SizeAssumption DEF BoxIDs
<1> QED
  BY <1>2, <1>3 DEF Init, HistoryInv, NoTxn, Idle

\* A step that gives no mailbox a name adds nothing to what clients see.
LEMMA HistorySame ==
  ASSUME HistoryInv, SameNames(boxes, boxes'), history' = history \cup Named',
         ~NoTxn' => SameNames(saved'.boxes, boxes')
  PROVE  HistoryInv'
<1>1. Named' = Named
  BY DEF Named, SameNames
<1>2. history' = history
  BY <1>1 DEF HistoryInv
<1> QED
  BY <1>1, <1>2 DEF HistoryInv, SameNames

LEMMA HistoryCreate ==
  ASSUME Inv, HistoryInv, NEW n \in Names, CreateMailbox(n), history' = history \cup Named'
  PROVE  HistoryInv'
<1>1. PICK m \in BoxIDs, v \in UIDValidities :
        /\ boxes[m] = NoBox
        /\ \A k \in BoxIDs : boxes[k].uidValidity < v
        /\ boxes' = [boxes EXCEPT ![m] = [name |-> n, nextUID |-> 1, uidValidity |-> v]]
  BY DEF CreateMailbox, IsNextUIDValidity
<1>2. v \in Nat /\ \A k \in BoxIDs : boxes[k].uidValidity \in Nat
  BY SizeAssumption DEF UIDValidities, Inv, TypeOK, Box
<1>3. /\ boxes'[m].name = n /\ boxes'[m].uidValidity = v
      /\ \A k \in BoxIDs \ {m} : boxes'[k] = boxes[k]
  BY <1>1 DEF Inv, TypeOK
<1>4. Named' \subseteq Named \cup {<<n, v, m>>}
  BY <1>3 DEF Named
<1>5. history' \subseteq history \cup {<<n, v, m>>}
  BY <1>4 DEF HistoryInv
<1>6. \A h \in history : h[2] \in Nat /\ h[2] < v
  BY <1>1, <1>2 DEF HistoryInv
<1>7. \A h, k \in history' : h[2] = k[2] => h[3] = k[3]
  BY <1>2, <1>5, <1>6 DEF HistoryInv
<1>8. \A h \in history' : h[2] \in Nat /\ \E k \in BoxIDs : boxes'[k].uidValidity >= h[2]
  BY <1>2, <1>3, <1>5, <1>6
<1>9. NoTxn'
  BY DEF CreateMailbox, NoTxn, txnVars
<1> QED
  BY <1>7, <1>8, <1>9 DEF HistoryInv

LEMMA HistoryDelete ==
  ASSUME Inv, HistoryInv, NEW n \in Names, DeleteMailbox(n), history' = history \cup Named'
  PROVE  HistoryInv'
<1>1. PICK m \in BoxIDs, v \in UIDValidities :
        /\ \A k \in BoxIDs : boxes[k].uidValidity < v
        /\ boxes' = [boxes EXCEPT ![m].name = NoName, ![m].uidValidity = v]
  BY DEF DeleteMailbox, IsNextUIDValidity, BoxNamed
<1>2. v \in Nat /\ \A k \in BoxIDs : boxes[k].uidValidity \in Nat
  BY SizeAssumption DEF UIDValidities, Inv, TypeOK, Box
<1>3. /\ boxes'[m].name = NoName /\ boxes'[m].uidValidity = v
      /\ \A k \in BoxIDs \ {m} : boxes'[k] = boxes[k]
  BY <1>1 DEF Inv, TypeOK, Box
<1>4. Named' \subseteq Named
  <2> SUFFICES ASSUME NEW k \in BoxIDs, boxes'[k].name # NoName
               PROVE  <<boxes'[k].name, boxes'[k].uidValidity, k>> \in Named
    BY DEF Named
  <2>1. k # m /\ boxes'[k] = boxes[k]
    BY <1>3
  <2> QED
    BY <2>1 DEF Named
<1>5. history' = history /\ Named' \subseteq history
  BY <1>4 DEF HistoryInv
<1>6. \A h \in history : h[2] \in Nat /\ \E k \in BoxIDs : boxes'[k].uidValidity >= h[2]
  <2> TAKE h \in history
  <2>1. h[2] \in Nat
    BY DEF HistoryInv
  <2>2. PICK k \in BoxIDs : boxes[k].uidValidity >= h[2]
    BY DEF HistoryInv
  <2>3. boxes'[m].uidValidity >= h[2]
    BY <1>1, <1>2, <1>3, <2>1, <2>2
  <2> QED
    BY <2>1, <2>3
<1>7. NoTxn'
  BY DEF DeleteMailbox, NoTxn, txnVars
<1> QED
  BY <1>5, <1>6, <1>7 DEF HistoryInv

\* The other steps change no name: a UID that is taken is all they do to a
\* mailbox.
LEMMA NamesKept ==
  ASSUME Inv, NEW k \in BoxIDs, boxes' = [boxes EXCEPT ![k].nextUID = @ + 1]
  PROVE  SameNames(boxes, boxes')
BY DEF Inv, TypeOK, Box, SameNames

LEMMA HistoryInsert ==
  ASSUME Inv, HistoryInv, NoTxn, NEW m \in BoxIDs, NEW fl, InsertMsg(m, fl),
         history' = history \cup Named'
  PROVE  HistoryInv'
<1>1. SameNames(boxes, boxes')
  BY NamesKept DEF InsertMsg, NextMsgUID
<1> QED
  BY <1>1, HistorySame DEF InsertMsg, txnVars, NoTxn

LEMMA HistorySession ==
  ASSUME Inv, HistoryInv, NEW s \in Sessions, SessionStep(s), history' = history \cup Named'
  PROVE  HistoryInv'
<1> USE HistorySame
<1>1. ASSUME NEW n \in Names, Select(s, n) \/ LookUp(s, n)
      PROVE  HistoryInv'
  BY <1>1 DEF Select, LookUp, tables, txnVars, SameNames, NoTxn, HistoryInv
<1>2. ASSUME NEW fl \in AppendFlags, Append_(s, fl)
      PROVE  HistoryInv'
  <2>1. target[s] \in BoxIDs
    BY <1>2 DEF Append_, Inv, TypeOK
  <2>2. CASE UNCHANGED <<tables, txnVars, selected>>
    BY <1>2, <2>2 DEF Append_, tables, txnVars, SameNames, NoTxn
  <2> QED
    BY <1>2, <2>1, <2>2, HistoryInsert DEF Append_
<1>3. ASSUME NEW i \in MsgIDs, SetSeen(s, i)
      PROVE  HistoryInv'
  BY <1>3 DEF SetSeen, txnVars, SameNames, NoTxn
<1>4. ASSUME NEW t, Begin(t), boxes' = boxes
      PROVE  HistoryInv'
  <2>1. saved'.boxes = boxes
    BY <1>4 DEF Begin
  <2> QED
    BY <1>4, <2>1 DEF SameNames
<1>5. ASSUME NEW u, NEW q, NEW md, NEW fl, NEW since, Store(s, u, q, md, fl, since)
      PROVE  HistoryInv'
  BY <1>4, <1>5 DEF Store
<1>6. ASSUME NEW kind, NEW u, NEW q, CopyOrMove(s, kind, u, q)
      PROVE  HistoryInv'
  <2>1. CASE UNCHANGED <<modNext, txnVars>>
    BY <1>6, <2>1 DEF CopyOrMove, txnVars, SameNames, NoTxn
  <2> QED
    BY <1>4, <1>6, <2>1 DEF CopyOrMove
<1>7. ASSUME NEW uids, Expunge(s, uids)
      PROVE  HistoryInv'
  BY <1>4, <1>7 DEF Expunge, tables
<1> QED
  BY <1>1, <1>2, <1>3, <1>5, <1>6, <1>7 DEF SessionStep

LEMMA HistoryTxn ==
  ASSUME Inv, HistoryInv, TxnStep \/ Crash, history' = history \cup Named'
  PROVE  HistoryInv'
<1> USE HistorySame
<1>1. CASE Commit \/ Rollback \/ Crash
  <2>1. NoTxn'
    BY <1>1 DEF Commit, Rollback, Crash, End, NoTxn, Idle
  <2>2. SameNames(boxes, boxes')
    BY <1>1 DEF Commit, Rollback, Crash, tables, SameNames, HistoryInv
  <2> QED
    BY <2>1, <2>2
<1>2. ASSUME ~NoTxn, saved' = saved, SameNames(boxes, boxes')
      PROVE  HistoryInv'
  BY <1>2 DEF HistoryInv, SameNames
<1>3. CASE NextRange
  BY <1>2, <1>3 DEF NextRange, NoTxn, tables, SameNames
<1>4. ASSUME NEW i \in MsgIDs, StoreMsg(i) \/ ExpungeMsg(i)
      PROVE  HistoryInv'
  BY <1>2, <1>4 DEF StoreMsg, ExpungeMsg, NoTxn, SameNames
<1>5. ASSUME NEW i \in MsgIDs, CopyMsg(i) \/ MoveMsg(i)
      PROVE  HistoryInv'
  <2>1. ~NoTxn /\ saved' = saved /\ txn.dst \in BoxIDs /\ boxes' = [boxes EXCEPT ![txn.dst].nextUID = @ + 1]
    BY <1>5 DEF CopyMsg, MoveMsg, NoTxn, NextMsgUID, Inv, TxnInv, TypeOK, Txn
  <2> QED
    BY <1>2, <2>1, NamesKept
<1> QED
  BY <1>1, <1>3, <1>4, <1>5 DEF TxnStep

LEMMA HistoryNext == Inv /\ HistoryInv /\ [Next]_vars => HistoryInv'
<1> SUFFICES ASSUME Inv, HistoryInv, [Next]_vars PROVE HistoryInv'
  OBVIOUS
<1>1. CASE UNCHANGED vars
  BY <1>1 DEF vars, tables, txnVars, HistoryInv, Named, SameNames, NoTxn
<1>2. ASSUME Deliver, history' = history \cup Named'
      PROVE  HistoryInv'
  BY <1>2, HistoryInsert DEF Deliver, BoxNamed
<1> QED
  BY <1>1, <1>2, HistoryCreate, HistoryDelete, HistorySession, HistoryTxn DEF Next

\* A name and a UIDVALIDITY that clients have seen never stand for two
\* mailboxes, however often mailboxes are deleted and created under the same
\* name (CreateMailbox, the trigger MailboxRenameUIDValidity).
THEOREM UIDValidityStaysUnique == Spec => []UIDValidityUnique
<1>1. HistoryInv => UIDValidityUnique
  BY DEF HistoryInv, UIDValidityUnique
<1> QED
  BY <1>1, HistoryInit, HistoryNext, Invariance, PTL DEF Spec

-----------------------------------------------------------------------------
(***************************************************************************)
(* Mod-sequences, and what a transaction has changed.                      *)
(***************************************************************************)
\* Every message is below the mod-sequence that its mailbox will give next.
Below(b, n, m) ==
  \A i \in MsgIDs : m[i].state = "Ready" /\ b[m[i].box].name # NoName =>
                      m[i].modSeq < n[b[m[i].box].name]

\* A row that was never used carries no flag.
EmptyRows(m) == \A i \in MsgIDs : m[i].state = "none" => m[i].flags = {}

\* The mailbox whose mod-sequence the transaction has taken.
TakesSeq == txn.kind \in {"store", "copy", "move"}
SeqBox == IF txn.kind = "store" THEN txn.src ELSE txn.dst

SeqInv ==
  /\ Below(boxes, modNext, msgs) /\ Below(saved.boxes, saved.modNext, saved.msgs)
  /\ TakesSeq =>
       /\ boxes[SeqBox].name # NoName /\ txn.modSeq < modNext[boxes[SeqBox].name]
       /\ \A j \in MsgIDs : saved.msgs[j].state = "Ready" /\ saved.msgs[j].box = SeqBox =>
                              saved.msgs[j].modSeq < txn.modSeq

\* How the transaction can have changed a row from old to new.
Marked(old, new) ==
  /\ old.state = "Ready" /\ old.box = txn.src /\ new.state = "Ready" /\ new.box = txn.src
  /\ new.modSeq = txn.modSeq
Copied(old, new) ==
  old.state = "none" /\ new.state = "Ready" /\ new.box = txn.dst /\ new.modSeq = txn.modSeq
Moved(old, new) ==
  /\ old.state = "Ready" /\ old.box = txn.src /\ new.state = "Ready" /\ new.box = txn.dst
  /\ new.flags = old.flags /\ new.modSeq = txn.modSeq
Buried(old, new) == old.state = "none" /\ new.state = "Tombstone" /\ new.flags = {}
Removed(old, new) ==
  /\ old.state = "Ready" /\ old.box = txn.src /\ new.state = "Expunged"
  /\ new.flags = old.flags /\ Deleted \in old.flags

RowChange(old, new) ==
  \/ new = old
  \/ txn.kind = "store" /\ Marked(old, new)
  \/ txn.kind = "copy" /\ Copied(old, new)
  \/ txn.kind = "move" /\ (Moved(old, new) \/ Buried(old, new))
  \/ txn.kind = "expunge" /\ Removed(old, new)

ChangeInv ==
  /\ EmptyRows(msgs) /\ EmptyRows(saved.msgs)
  /\ ~NoTxn => \A i \in MsgIDs : RowChange(saved.msgs[i], msgs[i])
  /\ txn.kind = "expunge" => \A i \in txn.work : Deleted \in msgs[i].flags

-----------------------------------------------------------------------------
LEMMA RangeTxn ==
  ASSUME Inv, NextRange
  PROVE  /\ txn'.kind = txn.kind /\ txn'.src = txn.src /\ txn'.dst = txn.dst
         /\ txn'.modSeq = txn.modSeq
  BY DEF NextRange, Inv, TypeOK, Txn

\* What every step of a transaction on a message leaves alone.
LEMMA MsgStepFrame ==
  ASSUME Inv, NEW i \in MsgIDs, StoreMsg(i) \/ CopyMsg(i) \/ MoveMsg(i) \/ ExpungeMsg(i)
  PROVE  /\ ~NoTxn /\ i \in txn.work /\ msgs[i].state = "Ready" /\ msgs[i].box = txn.src
         /\ txn'.kind = txn.kind /\ txn'.src = txn.src /\ txn'.dst = txn.dst
         /\ txn'.modSeq = txn.modSeq /\ txn'.work = txn.work \ {i} /\ txn'.num = txn.num
         /\ UNCHANGED <<saved, modNext, firstNew>> /\ SameNames(boxes, boxes')
<1>1. ~NoTxn /\ i \in txn.work
  BY DEF StoreMsg, CopyMsg, MoveMsg, ExpungeMsg, First, NoTxn
<1>2. msgs[i].state = "Ready" /\ msgs[i].box = txn.src
  BY <1>1 DEF Inv, TxnInv
<1>3. \/ txn' = [txn EXCEPT !.work = @ \ {i}]
      \/ txn' = [txn EXCEPT !.work = @ \ {i}, !.seqDelta = @ + 1]
      \/ txn' = [txn EXCEPT !.work = @ \ {i}, !.seqDelta = @ + 1, !.rangeSeqDelta = @ + 1]
  BY SMTT(30) DEF StoreMsg, CopyMsg, MoveMsg, ExpungeMsg
<1>4. /\ txn'.work = txn.work \ {i} /\ txn'.kind = txn.kind /\ txn'.src = txn.src
      /\ txn'.dst = txn.dst /\ txn'.modSeq = txn.modSeq /\ txn'.num = txn.num
  BY <1>1, <1>3, WorkDone
<1>5. UNCHANGED <<saved, modNext, firstNew>>
  BY DEF StoreMsg, CopyMsg, MoveMsg, ExpungeMsg
<1>6. SameNames(boxes, boxes')
  <2>1. CASE StoreMsg(i) \/ ExpungeMsg(i)
    BY <2>1 DEF StoreMsg, ExpungeMsg, SameNames
  <2>2. CASE CopyMsg(i) \/ MoveMsg(i)
    <3>1. txn.dst \in BoxIDs /\ boxes' = [boxes EXCEPT ![txn.dst].nextUID = @ + 1]
      BY <2>2 DEF CopyMsg, MoveMsg, NextMsgUID, Inv, TxnInv, TypeOK, Txn
    <3> QED
      BY <3>1, NamesKept
  <2> QED
    BY <2>1, <2>2
<1> QED
  BY <1>1, <1>2, <1>4, <1>5, <1>6

\* What each of them does to the rows.
LEMMA StoreMsgRows ==
  ASSUME Inv, NEW i \in MsgIDs, StoreMsg(i)
  PROVE  /\ txn.kind = "store"
         /\ \A j \in MsgIDs \ {i} : msgs'[j] = msgs[j]
         /\ msgs'[i].state = "Ready" /\ msgs'[i].box = txn.src /\ msgs'[i].uid = msgs[i].uid
         /\ msgs'[i] = msgs[i] \/ msgs'[i].modSeq = txn.modSeq
<1>1. msgs[i].state = "Ready" /\ msgs[i].box = txn.src
  BY MsgStepFrame
<1>2. msgs \in Rows /\ msgs[i] \in Row
  BY DEF Inv, TypeOK, Rows
<1>3. PICK new : msgs' = msgs \/ msgs' = [msgs EXCEPT ![i].flags = new, ![i].modSeq = txn.modSeq]
  BY DEF StoreMsg
<1> QED
  BY <1>1, <1>2, <1>3 DEF StoreMsg, Rows, Row

LEMMA CopyMsgRows ==
  ASSUME Inv, NEW i \in MsgIDs, CopyMsg(i)
  PROVE  /\ txn.kind = "copy" /\ txn.dst \in BoxIDs
         /\ NewRow \in MsgIDs /\ msgs[NewRow].state = "none"
         /\ msgs'[NewRow].state = "Ready" /\ msgs'[NewRow].box = txn.dst
         /\ msgs'[NewRow].uid = boxes[txn.dst].nextUID /\ msgs'[NewRow].modSeq = txn.modSeq
         /\ \A j \in MsgIDs \ {NewRow} : msgs'[j] = msgs[j]
<1>1. NewRow \in MsgIDs /\ msgs[NewRow].state = "none"
  BY NewRowFree DEF CopyMsg
<1>2. txn.kind = "copy" /\ txn.dst \in BoxIDs
  BY DEF CopyMsg, Inv, TxnInv, TypeOK, Txn
<1> QED
  BY <1>1, <1>2 DEF CopyMsg, Inv, TypeOK

LEMMA MoveMsgRows ==
  ASSUME Inv, NEW i \in MsgIDs, MoveMsg(i)
  PROVE  /\ txn.kind = "move" /\ txn.dst \in BoxIDs
         /\ NewRow \in MsgIDs /\ msgs[NewRow].state = "none" /\ NewRow # i
         /\ msgs'[i].state = "Ready" /\ msgs'[i].box = txn.dst /\ msgs'[i].modSeq = txn.modSeq
         /\ msgs'[i].uid = boxes[txn.dst].nextUID /\ msgs'[i].flags = msgs[i].flags
         /\ msgs'[NewRow].state = "Tombstone" /\ msgs'[NewRow].flags = {}
         /\ \A j \in MsgIDs \ {i, NewRow} : msgs'[j] = msgs[j]
<1> DEFINE r == [[[msgs[i] EXCEPT !.box = txn.dst] EXCEPT !.uid = boxes[txn.dst].nextUID] EXCEPT !.modSeq = txn.modSeq]
           tomb == [NoRow EXCEPT !.state = "Tombstone", !.box = txn.src, !.uid = msgs[i].uid,
                                 !.modSeq = txn.modSeq]
<1>1. NewRow \in MsgIDs /\ msgs[NewRow].state = "none"
  BY NewRowFree DEF MoveMsg
<1>2. txn.kind = "move" /\ txn.dst \in BoxIDs
  BY DEF MoveMsg, Inv, TxnInv, TypeOK, Txn
<1>3. msgs[i].state = "Ready" /\ NewRow # i
  BY <1>1, MsgStepFrame
<1>4. msgs \in Rows /\ msgs[i] \in Row
  BY DEF Inv, TypeOK, Rows
<1>5. msgs' = [msgs EXCEPT ![i] = r, ![NewRow] = tomb]
  BY <1>4 DEF MoveMsg, Rows
<1>6. /\ r.state = "Ready" /\ r.box = txn.dst /\ r.modSeq = txn.modSeq
      /\ r.uid = boxes[txn.dst].nextUID /\ r.flags = msgs[i].flags
  BY <1>3, <1>4 DEF Row
<1>7. tomb.state = "Tombstone" /\ tomb.flags = {}
  BY DEF NoRow
<1> HIDE DEF r, tomb
<1>8. msgs'[i] = r /\ msgs'[NewRow] = tomb /\ \A j \in MsgIDs \ {i, NewRow} : msgs'[j] = msgs[j]
  BY <1>1, <1>3, <1>4, <1>5 DEF Rows
<1> QED
  BY <1>1, <1>2, <1>3, <1>6, <1>7, <1>8

LEMMA ExpungeMsgRows ==
  ASSUME Inv, NEW i \in MsgIDs, ExpungeMsg(i)
  PROVE  /\ txn.kind = "expunge"
         /\ \A j \in MsgIDs \ {i} : msgs'[j] = msgs[j]
         /\ msgs'[i].state = "Expunged" /\ msgs'[i].box = msgs[i].box /\ msgs'[i].flags = msgs[i].flags
         /\ msgs'[i].uid = msgs[i].uid
<1>1. msgs \in Rows /\ msgs[i] \in Row
  BY DEF Inv, TypeOK, Rows
<1> QED
  BY <1>1 DEF ExpungeMsg, Rows, Row

-----------------------------------------------------------------------------
ModInv == SeqInv /\ ChangeInv

LEMMA NoTablesMod == Below(NoTables.boxes, NoTables.modNext, NoTables.msgs) /\ EmptyRows(NoTables.msgs)
BY DEF Below, EmptyRows, NoTables, NoRow

LEMMA InitMod == Init => ModInv
<1> SUFFICES ASSUME Init PROVE ModInv
  OBVIOUS
<1>1. \A i \in MsgIDs : msgs[i].state = "none" /\ msgs[i].flags = {}
  BY DEF Init, NoRow
<1>2. txn.kind = "none" /\ saved = NoTables
  BY DEF Init, Idle
<1>3. Below(boxes, modNext, msgs) /\ EmptyRows(msgs)
  BY <1>1 DEF Below, EmptyRows
<1>4. SeqInv
  BY <1>2, <1>3, NoTablesMod DEF SeqInv, TakesSeq
<1>5. ChangeInv
  BY <1>2, <1>3, NoTablesMod DEF ChangeInv, NoTxn
<1> QED
  BY <1>4, <1>5 DEF ModInv

\* A step outside transactions.
LEMMA QuietMod ==
  ASSUME ModInv, NoTxn, UNCHANGED <<txn, saved>>, Below(boxes', modNext', msgs'), EmptyRows(msgs')
  PROVE  ModInv'
BY DEF ModInv, SeqInv, ChangeInv, TakesSeq, NoTxn

LEMMA CreateMod ==
  ASSUME Inv, ModInv, NEW n \in Names, CreateMailbox(n)
  PROVE  ModInv'
<1>1. PICK m \in BoxIDs, v \in UIDValidities :
        /\ boxes[m] = NoBox
        /\ boxes' = [boxes EXCEPT ![m] = [name |-> n, nextUID |-> 1, uidValidity |-> v]]
  BY DEF CreateMailbox
<1>2. \A i \in MsgIDs : msgs[i].state # "none" => msgs[i].box \in BoxIDs /\ msgs[i].box # m
  <2> SUFFICES ASSUME NEW i \in MsgIDs, msgs[i].state # "none"
               PROVE  msgs[i].box \in BoxIDs /\ msgs[i].box # m
    OBVIOUS
  <2>1. msgs[i].uid > 0 /\ msgs[i].box # 0 /\ msgs[i].uid < boxes[msgs[i].box].nextUID
    BY DEF Inv, RowsOK
  <2>2. msgs[i].box \in BoxIDs /\ msgs[i].uid \in Nat
    BY <2>1 DEF Inv, TypeOK, Row
  <2>3. boxes[m].nextUID = 0
    BY <1>1 DEF NoBox
  <2> QED
    BY <2>1, <2>2, <2>3
<1>3. \A k \in BoxIDs \ {m} : boxes'[k] = boxes[k]
  BY <1>1 DEF Inv, TypeOK
<1>4. \A k \in BoxIDs : boxes[k].name # NoName => /\ modNext[boxes[k].name] \in Nat
                                                  /\ modNext'[boxes[k].name] \in Nat
                                                  /\ modNext'[boxes[k].name] >= modNext[boxes[k].name]
  <2>1. \A k \in BoxIDs : boxes[k].name # NoName => boxes[k].name \in Names
    BY DEF Inv, TypeOK, Box
  <2> QED
    BY <2>1 DEF CreateMailbox, Inv, TypeOK
<1>5. \A i \in MsgIDs : msgs[i].modSeq \in Nat
  BY DEF Inv, TypeOK, Row
<1>6. Below(boxes', modNext', msgs)
  BY <1>2, <1>3, <1>4, <1>5 DEF Below, ModInv, SeqInv
<1> QED
  BY <1>6, QuietMod DEF CreateMailbox, txnVars, ModInv, ChangeInv

LEMMA DeleteMod ==
  ASSUME Inv, ModInv, NEW n \in Names, DeleteMailbox(n)
  PROVE  ModInv'
<1>1. PICK m \in BoxIDs, v \in UIDValidities :
        boxes' = [boxes EXCEPT ![m].name = NoName, ![m].uidValidity = v]
  BY DEF DeleteMailbox, BoxNamed
<1>2. boxes'[m].name = NoName /\ \A k \in BoxIDs \ {m} : boxes'[k] = boxes[k]
  BY <1>1 DEF Inv, TypeOK, Box
<1>3. \A i \in MsgIDs : msgs[i].state = "Ready" => msgs[i].box \in BoxIDs
  BY DEF Inv, TypeOK, Row, RowsOK
<1>4. Below(boxes', modNext', msgs')
  BY <1>2, <1>3 DEF Below, ModInv, SeqInv, DeleteMailbox
<1> QED
  BY <1>4, QuietMod DEF DeleteMailbox, txnVars, ModInv, ChangeInv

\* A new message gets the mod-sequence that its mailbox gives next.
LEMMA InsertRows ==
  ASSUME Inv, NEW m \in BoxIDs, NEW fl, InsertMsg(m, fl)
  PROVE  /\ NewRow \in MsgIDs /\ msgs[NewRow].state = "none"
         /\ msgs'[NewRow] = [state |-> "Ready", box |-> m, uid |-> boxes[m].nextUID,
                             modSeq |-> modNext[boxes[m].name], flags |-> fl]
         /\ \A j \in MsgIDs \ {NewRow} : msgs'[j] = msgs[j]
         /\ boxes[m].name \in Names /\ boxes[m].name # NoName
         /\ modNext' = [modNext EXCEPT ![boxes[m].name] = @ + 1]
         /\ SameNames(boxes, boxes')
<1>1. NewRow \in MsgIDs /\ msgs[NewRow].state = "none"
  BY NewRowFree DEF InsertMsg
<1>2. boxes[m].name \in Names /\ boxes[m].name # NoName
  BY DEF InsertMsg, HasModSeq, Inv, TypeOK, Box
<1>3. SameNames(boxes, boxes')
  BY NamesKept DEF InsertMsg, NextMsgUID
<1> QED
  BY <1>1, <1>2, <1>3 DEF InsertMsg, NextMsgModSeq, Inv, TypeOK

\* Mod-sequences that only grow stay above the messages.
LEMMA InsertMod ==
  ASSUME Inv, ModInv, NoTxn, NEW m \in BoxIDs, NEW fl, InsertMsg(m, fl)
  PROVE  ModInv'
<1> DEFINE n == boxes[m].name
<1>0. /\ NewRow \in MsgIDs /\ msgs[NewRow].state = "none"
      /\ msgs'[NewRow] = [state |-> "Ready", box |-> m, uid |-> boxes[m].nextUID,
                          modSeq |-> modNext[n], flags |-> fl]
      /\ \A j \in MsgIDs \ {NewRow} : msgs'[j] = msgs[j]
      /\ n \in Names /\ n # NoName
      /\ modNext' = [modNext EXCEPT ![n] = @ + 1]
      /\ SameNames(boxes, boxes')
  BY InsertRows
<1>1. \A k \in BoxIDs : boxes'[k].name = boxes[k].name
  BY <1>0 DEF SameNames
<1>2. /\ \A x \in Names : modNext[x] \in Nat /\ modNext'[x] \in Nat /\ modNext'[x] >= modNext[x]
      /\ n \in Names /\ n # NoName /\ modNext'[n] = modNext[n] + 1
  BY <1>0 DEF Inv, TypeOK
<1>3. \A i \in MsgIDs : /\ msgs[i].modSeq \in Nat
                        /\ msgs[i].state = "Ready" => msgs[i].box \in BoxIDs
  BY DEF Inv, TypeOK, Row, RowsOK
<1>4. \A k \in BoxIDs : boxes[k].name # NoName => boxes[k].name \in Names
  BY DEF Inv, TypeOK, Box
<1>5. Below(boxes', modNext', msgs')
  <2> SUFFICES ASSUME NEW i \in MsgIDs, msgs'[i].state = "Ready", boxes'[msgs'[i].box].name # NoName
               PROVE  msgs'[i].modSeq < modNext'[boxes'[msgs'[i].box].name]
    BY DEF Below
  <2>1. CASE i = NewRow
    <3>1. msgs'[i].box = m /\ msgs'[i].modSeq = modNext[n]
      BY <2>1, <1>0
    <3> QED
      BY <3>1, <1>1, <1>2
  <2>2. CASE i # NewRow
    <3>1. msgs'[i] = msgs[i] /\ msgs[i].box \in BoxIDs
      BY <2>2, <1>3, <1>0
    <3>2. msgs[i].modSeq < modNext[boxes[msgs[i].box].name]
      BY <3>1, <1>1 DEF Below, ModInv, SeqInv
    <3> QED
      BY <3>1, <3>2, <1>1, <1>2, <1>3, <1>4
  <2> QED
    BY <2>1, <2>2
<1>6. EmptyRows(msgs')
  BY <1>0 DEF EmptyRows, ModInv, ChangeInv
<1> QED
  BY <1>5, <1>6, QuietMod DEF InsertMsg, txnVars

LEMMA SetSeenRows ==
  ASSUME Inv, NEW s \in Sessions, NEW i \in MsgIDs, SetSeen(s, i)
  PROVE  /\ selected[s] \in BoxIDs /\ msgs[i].state = "Ready" /\ msgs[i].box = selected[s]
         /\ msgs'[i].state = "Ready" /\ msgs'[i].box = msgs[i].box /\ msgs'[i].modSeq = msgs[i].modSeq
         /\ \A j \in MsgIDs \ {i} : msgs'[j] = msgs[j]
<1>1. msgs \in Rows /\ msgs[i] \in Row /\ selected[s] \in BoxIDs
  BY DEF SetSeen, Inv, TypeOK, Rows
<1>2. msgs[i].state = "Ready" /\ msgs[i].box = selected[s]
  BY DEF SetSeen, Ready
<1> QED
  BY <1>1, <1>2 DEF SetSeen, Rows, Row

LEMMA SetSeenMod ==
  ASSUME Inv, ModInv, NEW s \in Sessions, NEW i \in MsgIDs, SetSeen(s, i)
  PROVE  ModInv'
<1>1. \A j \in MsgIDs : /\ msgs'[j].state = msgs[j].state /\ msgs'[j].box = msgs[j].box
                        /\ msgs'[j].modSeq = msgs[j].modSeq
                        /\ msgs'[j].state = "none" => msgs'[j] = msgs[j]
  BY SetSeenRows
<1>2. UNCHANGED <<boxes, modNext, txn, saved>> /\ NoTxn
  BY DEF SetSeen, txnVars
<1>3. Below(boxes, modNext, msgs')
  BY <1>1 DEF Below, ModInv, SeqInv
<1>4. EmptyRows(msgs')
  BY <1>1 DEF EmptyRows, ModInv, ChangeInv
<1> QED
  BY <1>2, <1>3, <1>4, QuietMod

\* The mod-sequence that a transaction takes is above every message of the
\* mailbox it is taken from, and below the next one.
LEMMA TakenMod ==
  ASSUME Inv, ModInv, NEW m \in BoxIDs, HasModSeq(m), modNext' = NextMsgModSeq(m),
         UNCHANGED <<boxes, msgs>>
  PROVE  /\ boxes[m].name # NoName /\ modNext[boxes[m].name] < modNext'[boxes[m].name]
         /\ \A j \in MsgIDs : msgs[j].state = "Ready" /\ msgs[j].box = m =>
                                msgs[j].modSeq < modNext[boxes[m].name]
         /\ Below(boxes, modNext', msgs)
<1>1. boxes[m].name \in Names /\ boxes[m].name # NoName
  BY DEF HasModSeq, Inv, TypeOK, Box
<1>2. /\ \A x \in Names : modNext[x] \in Nat /\ modNext'[x] \in Nat /\ modNext'[x] >= modNext[x]
      /\ modNext'[boxes[m].name] = modNext[boxes[m].name] + 1
  BY <1>1 DEF NextMsgModSeq, Inv, TypeOK
<1>3. \A i \in MsgIDs : /\ msgs[i].modSeq \in Nat
                        /\ msgs[i].state = "Ready" => msgs[i].box \in BoxIDs
  BY DEF Inv, TypeOK, Row, RowsOK
<1>4. \A k \in BoxIDs : boxes[k].name # NoName => boxes[k].name \in Names
  BY DEF Inv, TypeOK, Box
<1>5. Below(boxes, modNext, msgs)
  BY DEF ModInv, SeqInv
<1>6. Below(boxes, modNext', msgs)
  BY <1>2, <1>3, <1>4, <1>5 DEF Below
<1> QED
  BY <1>1, <1>2, <1>5, <1>6 DEF Below

LEMMA BeginMod ==
  ASSUME Inv, ModInv, NEW t, Begin(t), t.kind \in {"store", "copy", "move", "expunge"},
         UNCHANGED <<boxes, msgs>>, Below(boxes, modNext', msgs),
         NEW m, m = IF t.kind = "store" THEN t.src ELSE t.dst,
         t.kind # "expunge" =>
           /\ boxes[m].name # NoName /\ t.modSeq < modNext'[boxes[m].name]
           /\ \A j \in MsgIDs : msgs[j].state = "Ready" /\ msgs[j].box = m => msgs[j].modSeq < t.modSeq,
         t.kind = "expunge" => \A i \in t.work : Deleted \in msgs[i].flags
  PROVE  ModInv'
<1>1. txn' = t /\ saved'.boxes = boxes /\ saved'.modNext = modNext /\ saved'.msgs = msgs
  BY DEF Begin
<1>2. SeqBox' = m
  BY <1>1 DEF SeqBox
<1>3. SeqInv'
  <2>1. Below(saved'.boxes, saved'.modNext, saved'.msgs)
    BY <1>1 DEF ModInv, SeqInv
  <2>2. TakesSeq' => t.kind # "expunge"
    BY <1>1 DEF TakesSeq
  <2> QED
    BY <1>1, <1>2, <2>1, <2>2 DEF SeqInv
<1>4. ChangeInv'
  <2>1. EmptyRows(msgs') /\ EmptyRows(saved'.msgs)
    BY <1>1 DEF ModInv, ChangeInv
  <2> QED
    BY <1>1, <2>1 DEF ChangeInv, RowChange
<1> QED
  BY <1>3, <1>4 DEF ModInv

LEMMA StartMod ==
  ASSUME Inv, ModInv, NEW s \in Sessions,
         \/ \E u, q, md, fl, since : Store(s, u, q, md, fl, since)
         \/ \E kind \in {"copy", "move"} : \E u, q : CopyOrMove(s, kind, u, q)
         \/ \E uids : Expunge(s, uids)
  PROVE  ModInv'
<1>1. ASSUME NEW u, NEW q, NEW md, NEW fl, NEW since, Store(s, u, q, md, fl, since)
      PROVE  ModInv'
  <2> DEFINE m == selected[s]
             t == [Idle EXCEPT !.kind = "store", !.src = m, !.modSeq = modNext[boxes[m].name],
                               !.useUID = u, !.seqs = q, !.mode = md, !.flags = fl, !.since = since]
  <2>1. m \in BoxIDs
    BY <1>1 DEF Store, Inv, TypeOK
  <2>2. HasModSeq(m) /\ modNext' = NextMsgModSeq(m) /\ UNCHANGED <<boxes, msgs>> /\ Begin(t)
    BY <1>1 DEF Store
  <2>3. t.kind = "store" /\ t.src = m /\ t.modSeq = modNext[boxes[m].name]
    BY SMTT(30) DEF Idle
  <2> HIDE DEF t
  <2> QED
    BY <2>1, <2>2, <2>3, TakenMod, BeginMod
<1>2. ASSUME NEW kind \in {"copy", "move"}, NEW u, NEW q, CopyOrMove(s, kind, u, q)
      PROVE  ModInv'
  <2> DEFINE m == target[s]
             t == [Idle EXCEPT !.kind = kind, !.src = selected[s], !.dst = m,
                               !.modSeq = modNext[boxes[m].name], !.useUID = u, !.seqs = q]
  <2>1. m \in BoxIDs /\ UNCHANGED <<boxes, msgs>> /\ NoTxn
    BY <1>2 DEF CopyOrMove, Inv, TypeOK
  <2>2. CASE UNCHANGED <<modNext, txnVars>>
    BY <2>1, <2>2, QuietMod DEF txnVars, ModInv, SeqInv, ChangeInv
  <2>3. CASE HasModSeq(m) /\ Begin(t) /\ modNext' = NextMsgModSeq(m)
    <3>1. t.kind = kind /\ t.dst = m /\ t.modSeq = modNext[boxes[m].name]
      BY DEF Idle
    <3> HIDE DEF t
    <3> QED
      BY <2>1, <2>3, <3>1, TakenMod, BeginMod
  <2> QED
    BY <1>2, <2>2, <2>3 DEF CopyOrMove
<1>3. ASSUME NEW uids, Expunge(s, uids)
      PROVE  ModInv'
  <2> DEFINE m == selected[s]
             gone == {i \in Ready(m) : Deleted \in msgs[i].flags /\ msgs[i].uid \in uids}
             t == [Idle EXCEPT !.kind = "expunge", !.src = m, !.work = gone,
                               !.num = [i \in MsgIDs |-> IF i \in gone THEN SeqNum(i) ELSE 0]]
  <2>1. Begin(t) /\ UNCHANGED <<boxes, msgs, modNext>>
    BY <1>3 DEF Expunge, tables
  <2>2. t.kind = "expunge" /\ \A i \in t.work : Deleted \in msgs[i].flags
    BY DEF Idle
  <2>3. Below(boxes, modNext', msgs)
    BY <2>1 DEF ModInv, SeqInv
  <2> HIDE DEF t
  <2> QED
    BY <2>1, <2>2, <2>3, BeginMod
<1> QED
  BY <1>1, <1>2, <1>3

LEMMA SessionMod ==
  ASSUME Inv, ModInv, NEW s \in Sessions, SessionStep(s)
  PROVE  ModInv'
<1>1. ASSUME UNCHANGED <<tables, txnVars>>, NoTxn PROVE ModInv'
  BY <1>1, QuietMod DEF tables, txnVars, ModInv, SeqInv, ChangeInv
<1>2. ASSUME NEW n \in Names, Select(s, n) \/ LookUp(s, n) PROVE ModInv'
  BY <1>1, <1>2 DEF Select, LookUp
<1>3. ASSUME NEW fl \in AppendFlags, Append_(s, fl) PROVE ModInv'
  <2>1. target[s] \in BoxIDs /\ NoTxn
    BY <1>3 DEF Append_, Inv, TypeOK
  <2> QED
    BY <1>1, <1>3, <2>1, InsertMod DEF Append_
<1> QED
  BY <1>2, <1>3, SetSeenMod, StartMod DEF SessionStep

\* A step of a transaction changes rows as ChangeInv says, and what it leaves
\* ready has its old mod-sequence or the one of the transaction.
LEMMA MsgStepMod ==
  ASSUME Inv, ModInv, NEW i \in MsgIDs, StoreMsg(i) \/ CopyMsg(i) \/ MoveMsg(i) \/ ExpungeMsg(i)
  PROVE  ModInv'
<1>1. /\ ~NoTxn /\ i \in txn.work /\ msgs[i].state = "Ready" /\ msgs[i].box = txn.src
      /\ txn'.kind = txn.kind /\ txn'.src = txn.src /\ txn'.dst = txn.dst
      /\ txn'.modSeq = txn.modSeq /\ txn'.work = txn.work \ {i}
      /\ UNCHANGED <<saved, modNext>> /\ SameNames(boxes, boxes')
  BY MsgStepFrame
<1>2. SeqBox' = SeqBox /\ TakesSeq' = TakesSeq /\ NoTxn' = NoTxn
  BY <1>1 DEF SeqBox, TakesSeq, NoTxn
<1>4. \A j \in MsgIDs : RowChange(saved.msgs[j], msgs[j])
  BY <1>1 DEF ModInv, ChangeInv
<1>5. \A j \in MsgIDs : msgs'[j].state = "Ready" =>
        \/ msgs[j].state = "Ready" /\ msgs'[j].box = msgs[j].box /\ msgs'[j].modSeq = msgs[j].modSeq
        \/ TakesSeq /\ msgs'[j].box = SeqBox /\ msgs'[j].modSeq = txn.modSeq
  <2> USE <1>1 DEF TakesSeq, SeqBox
  <2>1. CASE StoreMsg(i)
    BY <2>1, StoreMsgRows
  <2>2. CASE CopyMsg(i)
    BY <2>2, CopyMsgRows
  <2>3. CASE MoveMsg(i)
    BY <2>3, MoveMsgRows
  <2>4. CASE ExpungeMsg(i)
    BY <2>4, ExpungeMsgRows
  <2> QED
    BY <2>1, <2>2, <2>3, <2>4
<1>6. \A j \in MsgIDs : msgs'[j].state = "none" => msgs'[j] = msgs[j]
  <2>1. CASE StoreMsg(i)
    BY <1>1, <2>1, StoreMsgRows
  <2>2. CASE CopyMsg(i)
    BY <2>2, CopyMsgRows
  <2>3. CASE MoveMsg(i)
    BY <2>3, MoveMsgRows
  <2>4. CASE ExpungeMsg(i)
    BY <2>4, ExpungeMsgRows
  <2> QED
    BY <2>1, <2>2, <2>3, <2>4
<1>7. \A j \in MsgIDs : RowChange(saved.msgs[j], msgs'[j])
  <2> USE <1>1, <1>4 DEF RowChange
  <2>1. CASE StoreMsg(i)
    BY <2>1, StoreMsgRows DEF Marked
  <2>2. CASE CopyMsg(i)
    BY <2>2, CopyMsgRows DEF Copied
  <2>3. CASE MoveMsg(i)
    BY <2>3, MoveMsgRows DEF Moved, Buried
  <2>4. CASE ExpungeMsg(i)
    <3>1. Deleted \in msgs[i].flags
      BY <2>4, ExpungeMsgRows DEF ModInv, ChangeInv
    <3> QED
      BY <2>4, <3>1, ExpungeMsgRows DEF Removed
  <2> QED
    BY <2>1, <2>2, <2>3, <2>4
<1>8. txn.kind = "expunge" => \A j \in txn.work : Deleted \in msgs'[j].flags
  <2>1. txn.kind = "expunge" => ExpungeMsg(i)
    BY DEF StoreMsg, CopyMsg, MoveMsg
  <2>2. txn.work \subseteq MsgIDs
    BY DEF Inv, TypeOK, Txn
  <2> QED
    BY <2>1, <2>2, ExpungeMsgRows DEF ModInv, ChangeInv
<1>9. ChangeInv'
  <2>1. EmptyRows(msgs') /\ EmptyRows(saved'.msgs)
    BY <1>1, <1>6 DEF EmptyRows, ModInv, ChangeInv
  <2>2. txn'.kind = "expunge" => \A j \in txn'.work : Deleted \in msgs'[j].flags
    BY <1>1, <1>8
  <2>3. \A j \in MsgIDs : saved'.msgs[j] = saved.msgs[j]
    BY <1>1
  <2> QED
    BY <1>1, <1>7, <2>1, <2>2, <2>3 DEF ChangeInv, RowChange, Marked, Copied, Moved, Buried, Removed
<1>10. SeqInv'
  <2>1. \A j \in MsgIDs : msgs[j].state = "Ready" => msgs[j].box \in BoxIDs
    BY DEF Inv, TypeOK, Row, RowsOK
  <2>2. TakesSeq => SeqBox \in BoxIDs
    <3>1. TakesSeq => SeqBox # 0
      BY DEF TakesSeq, SeqBox, Inv, TxnInv, NoTxn
    <3> QED
      BY <3>1 DEF SeqBox, Inv, TypeOK, Txn
  <2>3. Below(boxes', modNext', msgs')
    <3> SUFFICES ASSUME NEW j \in MsgIDs, msgs'[j].state = "Ready", boxes'[msgs'[j].box].name # NoName
                 PROVE  msgs'[j].modSeq < modNext[boxes'[msgs'[j].box].name]
      BY <1>1 DEF Below
    <3>1. CASE msgs[j].state = "Ready" /\ msgs'[j].box = msgs[j].box /\ msgs'[j].modSeq = msgs[j].modSeq
      BY <3>1, <2>1, <1>1 DEF Below, ModInv, SeqInv, SameNames
    <3>2. CASE TakesSeq /\ msgs'[j].box = SeqBox /\ msgs'[j].modSeq = txn.modSeq
      BY <3>2, <2>2, <1>1 DEF ModInv, SeqInv, SameNames
    <3> QED
      BY <1>5, <3>1, <3>2
  <2>4. TakesSeq => boxes'[SeqBox].name = boxes[SeqBox].name
    BY <1>1, <2>2 DEF SameNames
  <2> QED
    BY <1>1, <1>2, <2>3, <2>4 DEF SeqInv, ModInv
<1> QED
  BY <1>9, <1>10 DEF ModInv

LEMMA RangeMod ==
  ASSUME Inv, ModInv, NextRange
  PROVE  ModInv'
<1>1. /\ txn'.kind = txn.kind /\ txn'.src = txn.src /\ txn'.dst = txn.dst
      /\ txn'.modSeq = txn.modSeq /\ txn.kind # "expunge"
  BY RangeTxn DEF NextRange
<1>2. UNCHANGED <<boxes, modNext, msgs, saved>>
  BY DEF NextRange, tables
<1>3. SeqBox' = SeqBox /\ TakesSeq' = TakesSeq /\ NoTxn' = NoTxn
  BY <1>1 DEF SeqBox, TakesSeq, NoTxn
<1>5. SeqInv'
  BY <1>1, <1>2, <1>3 DEF ModInv, SeqInv
<1>6. ChangeInv'
  BY <1>1, <1>2, <1>3 DEF ModInv, ChangeInv, RowChange, Marked, Copied, Moved, Buried, Removed
<1> QED
  BY <1>5, <1>6 DEF ModInv

LEMMA EndMod ==
  ASSUME ModInv, Commit \/ Rollback \/ Crash
  PROVE  ModInv'
<1>1. txn' = Idle /\ saved' = NoTables
  BY DEF Commit, Rollback, Crash, End
<1>2. \/ UNCHANGED <<boxes, modNext, msgs>>
      \/ boxes' = saved.boxes /\ modNext' = saved.modNext /\ msgs' = saved.msgs
  BY DEF Commit, Rollback, Crash, tables
<1>3. Below(boxes', modNext', msgs') /\ EmptyRows(msgs')
  BY <1>2 DEF ModInv, SeqInv, ChangeInv
<1>4. ~TakesSeq' /\ NoTxn' /\ txn'.kind # "expunge"
  BY <1>1 DEF TakesSeq, NoTxn, Idle
<1> QED
  BY <1>1, <1>3, <1>4, NoTablesMod DEF ModInv, SeqInv, ChangeInv

LEMMA NextMod == Inv /\ ModInv /\ [Next]_vars => ModInv'
<1> SUFFICES ASSUME Inv, ModInv, [Next]_vars PROVE ModInv'
  OBVIOUS
<1>1. CASE UNCHANGED vars
  BY <1>1 DEF vars, tables, txnVars, ModInv, SeqInv, ChangeInv, TakesSeq, SeqBox, NoTxn, RowChange,
              Marked, Copied, Moved, Buried, Removed
<1>2. CASE Deliver
  BY <1>2, InsertMod DEF Deliver, BoxNamed
<1>3. CASE TxnStep
  BY <1>3, RangeMod, MsgStepMod, EndMod DEF TxnStep
<1> QED
  BY <1>1, <1>2, <1>3, CreateMod, DeleteMod, SessionMod, EndMod DEF Next

LEMMA ModInvariance == Spec => [](Inv /\ ModInv)
<1> QED
  BY InitInv, NextInv, InitMod, NextMod, PTL DEF Spec

\* What others can see changes with a new message, a \Seen mark, or a commit.
LEMMA SeenSteps ==
  ASSUME Inv, Next
  PROVE  \/ CommittedMsgs' = CommittedMsgs
         \/ NoTxn /\ NoTxn' /\ \E m \in BoxIDs, fl \in SUBSET Flags : InsertMsg(m, fl)
         \/ NoTxn /\ NoTxn' /\ \E s \in Sessions, i \in MsgIDs : SetSeen(s, i)
         \/ Commit /\ NoTxn'
<1> USE DEF CommittedMsgs
<1>1. ASSUME NoTxn, UNCHANGED <<txn, msgs>> PROVE CommittedMsgs' = CommittedMsgs
  BY <1>1 DEF NoTxn
<1>2. ASSUME NoTxn, NEW t, Begin(t), t.kind # "none" PROVE CommittedMsgs' = CommittedMsgs
  <2>1. txn' = t /\ saved'.msgs = msgs
    BY <1>2 DEF Begin
  <2> QED
    BY <1>2, <2>1 DEF NoTxn
<1>3. ASSUME NEW n \in Names, CreateMailbox(n) \/ DeleteMailbox(n) PROVE CommittedMsgs' = CommittedMsgs
  BY <1>1, <1>3 DEF CreateMailbox, DeleteMailbox, txnVars
<1>4. CASE Deliver
  <2>1. \E m \in BoxIDs : InsertMsg(m, {})
    BY <1>4 DEF Deliver, BoxNamed
  <2>2. NoTxn /\ NoTxn'
    BY <1>4, <2>1 DEF Deliver, InsertMsg, txnVars, NoTxn
  <2> QED
    BY <2>1, <2>2
<1>5. ASSUME NEW s \in Sessions, SessionStep(s)
      PROVE  \/ CommittedMsgs' = CommittedMsgs
             \/ NoTxn /\ NoTxn' /\ \E m \in BoxIDs, fl \in SUBSET Flags : InsertMsg(m, fl)
             \/ NoTxn /\ NoTxn' /\ \E i \in MsgIDs : SetSeen(s, i)
  <2>1. ASSUME NEW n \in Names, Select(s, n) \/ LookUp(s, n) PROVE CommittedMsgs' = CommittedMsgs
    BY <1>1, <2>1 DEF Select, LookUp, tables, txnVars
  <2>2. ASSUME NEW fl \in AppendFlags, Append_(s, fl)
        PROVE  \/ CommittedMsgs' = CommittedMsgs
               \/ NoTxn /\ NoTxn' /\ \E m \in BoxIDs : InsertMsg(m, fl)
    <3>1. target[s] \in BoxIDs /\ NoTxn /\ txn' = txn
      BY <2>2 DEF Append_, InsertMsg, txnVars, Inv, TypeOK
    <3> QED
      BY <1>1, <2>2, <3>1 DEF Append_, tables, NoTxn
  <2>3. ASSUME NEW i \in MsgIDs, SetSeen(s, i) PROVE NoTxn /\ NoTxn'
    BY <2>3 DEF SetSeen, txnVars, NoTxn
  <2>4. ASSUME NEW u, NEW q, NEW md, NEW fl, NEW since, Store(s, u, q, md, fl, since)
        PROVE  CommittedMsgs' = CommittedMsgs
    <3> DEFINE t == [Idle EXCEPT !.kind = "store", !.src = selected[s],
                         !.modSeq = modNext[boxes[selected[s]].name], !.useUID = u,
                         !.seqs = q, !.mode = md, !.flags = fl, !.since = since]
    <3>1. NoTxn /\ Begin(t) /\ t.kind # "none"
      BY <2>4 DEF Store, Idle
    <3> HIDE DEF t
    <3> QED
      BY <3>1, <1>2
  <2>5. ASSUME NEW kind \in {"copy", "move"}, NEW u, NEW q, CopyOrMove(s, kind, u, q)
        PROVE  CommittedMsgs' = CommittedMsgs
    <3> DEFINE t == [Idle EXCEPT !.kind = kind, !.src = selected[s], !.dst = target[s],
                               !.modSeq = modNext[boxes[target[s]].name], !.useUID = u, !.seqs = q]
    <3>1. NoTxn /\ UNCHANGED msgs /\ (Begin(t) \/ UNCHANGED txnVars)
      BY <2>5 DEF CopyOrMove
    <3>2. t.kind # "none"
      BY DEF Idle
    <3> HIDE DEF t
    <3> QED
      BY <3>1, <3>2, <1>1, <1>2 DEF txnVars
  <2>6. ASSUME NEW uids, Expunge(s, uids) PROVE CommittedMsgs' = CommittedMsgs
    <3> DEFINE gone == {i \in Ready(selected[s]) : Deleted \in msgs[i].flags /\ msgs[i].uid \in uids}
               t == [Idle EXCEPT !.kind = "expunge", !.src = selected[s], !.work = gone,
                         !.num = [i \in MsgIDs |-> IF i \in gone THEN SeqNum(i) ELSE 0]]
    <3>1. NoTxn /\ Begin(t)
      BY <2>6 DEF Expunge
    <3>2. t.kind # "none"
      BY DEF Idle
    <3> HIDE DEF t
    <3> QED
      BY <3>1, <3>2, <1>2
  <2> HIDE DEF CommittedMsgs
  <2> QED
    BY <1>5, <2>1, <2>2, <2>3, <2>4, <2>5, <2>6, FlagAssumption DEF SessionStep
<1>6. CASE NextRange
  <2>1. ~NoTxn /\ ~NoTxn' /\ saved' = saved
    BY <1>6, RangeTxn DEF NextRange, NoTxn
  <2> QED
    BY <2>1
<1>7. ASSUME NEW i \in MsgIDs, StoreMsg(i) \/ CopyMsg(i) \/ MoveMsg(i) \/ ExpungeMsg(i)
      PROVE  CommittedMsgs' = CommittedMsgs
  <2>1. ~NoTxn /\ saved' = saved /\ txn'.kind = txn.kind
    BY <1>7, MsgStepFrame
  <2> QED
    BY <2>1 DEF NoTxn
<1>8. CASE Commit
  BY <1>8 DEF Commit, End, NoTxn, Idle
<1>9. CASE Rollback \/ Crash
  <2>1. NoTxn' /\ msgs' = IF NoTxn THEN msgs ELSE saved.msgs
    BY <1>9 DEF Rollback, Crash, End, NoTxn, Idle
  <2> QED
    BY <2>1
<1> HIDE DEF CommittedMsgs
<1> QED
  BY <1>3, <1>4, <1>5, <1>6, <1>7, <1>8, <1>9 DEF Next, TxnStep

\* The action of NewModSeqIsHigher.
ModSeqStep ==
  CommittedMsgs' # CommittedMsgs => \A i \in MsgIDs :
    LET old == CommittedMsgs
        new == CommittedMsgs'
    IN  new[i].state = "Ready" /\ new[i].modSeq # old[i].modSeq =>
          \A j \in MsgIDs : old[j].state = "Ready" /\ old[j].box = new[i].box =>
                              old[j].modSeq < new[i].modSeq

LEMMA ModSeqSteps == Inv /\ ModInv /\ [Next]_vars => [ModSeqStep]_vars
<1> SUFFICES ASSUME Inv, ModInv, Next PROVE ModSeqStep
  OBVIOUS
<1>1. CASE CommittedMsgs' = CommittedMsgs
  BY <1>1 DEF ModSeqStep
<1>2. ASSUME NoTxn, NoTxn', NEW m \in BoxIDs, NEW fl, InsertMsg(m, fl) PROVE ModSeqStep
  <2>1. CommittedMsgs = msgs /\ CommittedMsgs' = msgs'
    BY <1>2 DEF CommittedMsgs
  <2>2. /\ \A j \in MsgIDs \ {NewRow} : msgs'[j] = msgs[j]
        /\ msgs'[NewRow] = [state |-> "Ready", box |-> m, uid |-> boxes[m].nextUID,
                            modSeq |-> modNext[boxes[m].name], flags |-> fl]
        /\ boxes[m].name # NoName
    BY <1>2, InsertRows
  <2>3. \A j \in MsgIDs : msgs[j].state = "Ready" /\ msgs[j].box = m => msgs[j].modSeq < modNext[boxes[m].name]
    BY <2>2 DEF ModInv, SeqInv, Below
  <2> QED
    BY <2>1, <2>2, <2>3 DEF ModSeqStep
<1>3. ASSUME NoTxn, NoTxn', NEW s \in Sessions, NEW i \in MsgIDs, SetSeen(s, i) PROVE ModSeqStep
  <2>1. CommittedMsgs = msgs /\ CommittedMsgs' = msgs'
    BY <1>3 DEF CommittedMsgs
  <2>2. \A j \in MsgIDs : msgs'[j].modSeq = msgs[j].modSeq
    BY <1>3, SetSeenRows
  <2> QED
    BY <2>1, <2>2 DEF ModSeqStep
<1>4. CASE Commit /\ NoTxn'
  <2>1. ~NoTxn /\ CommittedMsgs = saved.msgs /\ CommittedMsgs' = msgs
    BY <1>4 DEF Commit, tables, CommittedMsgs
  <2>2. \A i \in MsgIDs : RowChange(saved.msgs[i], msgs[i])
    BY <2>1 DEF ModInv, ChangeInv
  <2>3. \A i \in MsgIDs : msgs[i].state = "Ready" /\ msgs[i].modSeq # saved.msgs[i].modSeq =>
          TakesSeq /\ msgs[i].box = SeqBox /\ msgs[i].modSeq = txn.modSeq
    BY <2>2 DEF RowChange, Marked, Copied, Moved, Buried, Removed, TakesSeq, SeqBox
  <2>4. TakesSeq => \A j \in MsgIDs : saved.msgs[j].state = "Ready" /\ saved.msgs[j].box = SeqBox =>
                                        saved.msgs[j].modSeq < txn.modSeq
    BY DEF ModInv, SeqInv
  <2> QED
    BY <2>1, <2>3, <2>4 DEF ModSeqStep
<1> QED
  BY <1>1, <1>2, <1>3, <1>4, SeenSteps

\* Whatever a command changes in a mailbox, and wherever a delivery or another
\* session comes between commands, the MODSEQ it commits is above that of every
\* message that was in the mailbox (NextMsgModSeq, called before the work).
THEOREM ModSeqsGrow == Spec => NewModSeqIsHigher
<1> QED
  BY ModInvariance, ModSeqSteps, PTL DEF Spec, NewModSeqIsHigher, ModSeqStep

-----------------------------------------------------------------------------
(***************************************************************************)
(* The mail database implements MailStore.                                 *)
(***************************************************************************)
LEMMA InsertIsAdd ==
  ASSUME Inv, ModInv, NoTxn, NoTxn', NEW m \in BoxIDs, NEW fl \in SUBSET Flags, InsertMsg(m, fl)
  PROVE  Store_!Add(m)
<1>1. CommittedMsgs = msgs /\ CommittedMsgs' = msgs'
  BY DEF CommittedMsgs
<1>2. /\ NewRow \in MsgIDs /\ msgs[NewRow].state = "none"
      /\ msgs'[NewRow].state = "Ready" /\ msgs'[NewRow].box = m
      /\ \A j \in MsgIDs \ {NewRow} : msgs'[j] = msgs[j]
  <2>1. /\ NewRow \in MsgIDs /\ msgs[NewRow].state = "none"
        /\ msgs'[NewRow] = [state |-> "Ready", box |-> m, uid |-> boxes[m].nextUID,
                             modSeq |-> modNext[boxes[m].name], flags |-> fl]
        /\ \A j \in MsgIDs \ {NewRow} : msgs'[j] = msgs[j]
    BY InsertRows
  <2> QED
    BY <2>1
<1>3. \A i \in MsgIDs : /\ Where[i] = Place(msgs[i]) /\ Where'[i] = Place(msgs'[i])
                        /\ (i \in Carrying) = (Deleted \in msgs[i].flags)
                        /\ (i \in Carrying') = (Deleted \in msgs'[i].flags)
  BY <1>1 DEF Where, Carrying
<1>4. \A i \in MsgIDs : \/ i = NewRow /\ Where[i] = 0 /\ Where'[i] = m
                        \/ Where'[i] = Where[i] /\ (i \in Carrying) = (i \in Carrying')
  BY <1>2, <1>3 DEF Place
<1> QED
  BY <1>4 DEF Store_!Add, Store_!Transfer

LEMMA SetSeenIsMark ==
  ASSUME Inv, NoTxn, NoTxn', NEW s \in Sessions, NEW i \in MsgIDs, SetSeen(s, i)
  PROVE  \E m \in BoxIDs : Store_!Mark(m)
<1>1. CommittedMsgs = msgs /\ CommittedMsgs' = msgs'
  BY DEF CommittedMsgs
<1>2. /\ selected[s] \in BoxIDs /\ msgs'[i].state = "Ready" /\ msgs'[i].box = selected[s]
      /\ msgs[i].state = "Ready" /\ msgs[i].box = selected[s]
      /\ \A j \in MsgIDs \ {i} : msgs'[j] = msgs[j]
  BY SetSeenRows
<1>3. \A j \in MsgIDs : /\ Where[j] = Place(msgs[j]) /\ Where'[j] = Place(msgs'[j])
                        /\ (j \in Carrying) = (Deleted \in msgs[j].flags)
                        /\ (j \in Carrying') = (Deleted \in msgs'[j].flags)
  BY <1>1 DEF Where, Carrying
<1>4. \A j \in MsgIDs : /\ Where'[j] = Where[j]
                        /\ Where'[j] = selected[s] \/ (j \in Carrying) = (j \in Carrying')
  BY <1>2, <1>3 DEF Place
<1>5. Where' = Where
  BY <1>4 DEF Where
<1>7. Store_!Mark(selected[s])
  BY <1>4, <1>5 DEF Store_!Mark, Store_!MarkIn
<1> QED
  BY <1>2, <1>7

\* What a transaction has done since it began is one step of MailStore.
LEMMA CommitIsStep ==
  ASSUME Inv, ModInv, Commit, NoTxn'
  PROVE  Store_!Next
<1>1. ~NoTxn /\ CommittedMsgs = saved.msgs /\ CommittedMsgs' = msgs
  BY DEF Commit, tables, CommittedMsgs
<1>2. \A i \in MsgIDs : RowChange(saved.msgs[i], msgs[i])
  BY <1>1 DEF ModInv, ChangeInv
<1>3. \A i \in MsgIDs : /\ Where[i] = Place(saved.msgs[i]) /\ Where'[i] = Place(msgs[i])
                        /\ (i \in Carrying) = (Deleted \in saved.msgs[i].flags)
                        /\ (i \in Carrying') = (Deleted \in msgs[i].flags)
  BY <1>1 DEF Where, Carrying
<1>4. /\ txn.src \in BoxIDs
      /\ txn.kind \in {"copy", "move"} => txn.dst \in BoxIDs
      /\ txn.kind \in {"store", "copy", "move", "expunge"}
  BY <1>1 DEF Inv, TxnInv, TypeOK, Txn, NoTxn
<1>5. PICK a \in BoxIDs : a = txn.src
  BY <1>4
<1>6. Carrying \subseteq MsgIDs /\ Carrying' \subseteq MsgIDs
  BY DEF Carrying
<1>7. CASE txn.kind = "store"
  <2>1. \A i \in MsgIDs : /\ Where'[i] = Where[i]
                          /\ (i \in Carrying) = (i \in Carrying') \/ Where'[i] = txn.src
    BY <1>2, <1>3, <1>7 DEF RowChange, Marked, Place
  <2>2. Where' = Where
    BY <2>1 DEF Where
  <2>3. Store_!Mark(a)
    BY <1>5, <2>1, <2>2 DEF Store_!Mark, Store_!MarkIn
  <2> QED
    BY <2>3 DEF Store_!Next
<1>8. CASE txn.kind = "copy"
  <2>1. \A i \in MsgIDs : \/ Where[i] = 0 /\ Where'[i] = txn.dst
                          \/ Where'[i] = Where[i] /\ (i \in Carrying) = (i \in Carrying')
    BY <1>2, <1>3, <1>8 DEF RowChange, Copied, Place
  <2>2. PICK b \in BoxIDs : b = txn.dst
    BY <1>4, <1>8
  <2>3. Store_!Add(b)
    BY <2>1, <2>2 DEF Store_!Add, Store_!Transfer
  <2> QED
    BY <2>3 DEF Store_!Next
<1>9. CASE txn.kind = "move"
  <2>1. \A i \in MsgIDs : saved.msgs[i].state = "none" => saved.msgs[i].flags = {}
    BY DEF ModInv, ChangeInv, EmptyRows
  <2>2. \A i \in MsgIDs : /\ Where'[i] = Where[i] \/ (Where[i] = txn.src /\ Where'[i] = txn.dst)
                          /\ (i \in Carrying) = (i \in Carrying')
    BY <1>2, <1>3, <1>9, <2>1 DEF RowChange, Moved, Buried, Place
  <2>3. Carrying' = Carrying
    BY <1>6, <2>2
  <2>4. PICK b \in BoxIDs : b = txn.dst
    BY <1>4, <1>9
  <2>5. Store_!Move(a, b)
    BY <1>5, <2>2, <2>3, <2>4 DEF Store_!Move, Store_!Transfer
  <2> QED
    BY <2>5 DEF Store_!Next
<1>10. CASE txn.kind = "expunge"
  <2>1. \A i \in MsgIDs : /\ Where'[i] = Where[i] \/ (Where[i] = txn.src /\ Where'[i] = -1 /\ i \in Carrying)
                          /\ (i \in Carrying) = (i \in Carrying')
    BY <1>2, <1>3, <1>10 DEF RowChange, Removed, Place
  <2>2. Carrying' = Carrying
    BY <1>6, <2>1
  <2>3. Store_!Remove(a)
    BY <1>5, <2>1, <2>2 DEF Store_!Remove, Store_!Transfer
  <2> QED
    BY <2>3 DEF Store_!Next
<1> QED
  BY <1>4, <1>7, <1>8, <1>9, <1>10

LEMMA StepRefines == Inv /\ ModInv /\ [Next]_vars => [Store_!Next]_<<Where, Carrying>>
<1> SUFFICES ASSUME Inv, ModInv, [Next]_vars PROVE [Store_!Next]_<<Where, Carrying>>
  OBVIOUS
<1>1. ASSUME CommittedMsgs' = CommittedMsgs PROVE UNCHANGED <<Where, Carrying>>
  BY <1>1 DEF Where, Carrying
<1>2. CASE UNCHANGED vars
  BY <1>1, <1>2 DEF vars, tables, txnVars, CommittedMsgs, NoTxn
<1>3. CASE Next
  <2>1. ASSUME NoTxn, NoTxn', NEW m \in BoxIDs, NEW fl \in SUBSET Flags, InsertMsg(m, fl)
        PROVE  Store_!Next
    BY <2>1, InsertIsAdd DEF Store_!Next
  <2>2. ASSUME NoTxn, NoTxn', NEW s \in Sessions, NEW i \in MsgIDs, SetSeen(s, i)
        PROVE  Store_!Next
    BY <2>2, SetSeenIsMark DEF Store_!Next
  <2> QED
    BY <1>1, <1>3, <2>1, <2>2, CommitIsStep, SeenSteps
<1> QED
  BY <1>2, <1>3

\* Every command is one step of MailStore or none: with a failure after any
\* message, a rollback or a crash in the middle, a copy or a move is whole or
\* absent, and a message leaves its mailbox only for another one or because it
\* carried \Deleted (mailbox.Store, Copy, Move and Expunge under sqlitex.Save).
THEOREM BoxImplementsMailStore == Spec => ImplementsMailStore
<1>1. Init => Store_!Init
  <2> SUFFICES ASSUME Init PROVE Store_!Init
    OBVIOUS
  <2>1. \A i \in MsgIDs : CommittedMsgs[i].state = "none" /\ CommittedMsgs[i].flags = {}
    BY DEF Init, CommittedMsgs, NoTxn, Idle, NoRow
  <2>2. Where = [i \in MsgIDs |-> 0] /\ Carrying = {}
    BY <2>1 DEF Where, Carrying, Place
  <2> QED
    BY <2>2 DEF Store_!Init
<1> QED
  BY <1>1, ModInvariance, StepRefines, PTL DEF Spec, ImplementsMailStore, Store_!Spec

-----------------------------------------------------------------------------
(***************************************************************************)
(* The place of a number in a set, and the set as a list.                  *)
(***************************************************************************)
Rank(S, x) == Cardinality({v \in S : v <= x})
ListOf(S) == [k \in 1..Cardinality(S) |-> CHOOSE u \in S : Rank(S, u) = k]

LEMMA RankType ==
  ASSUME NEW S \in SUBSET Nat, IsFiniteSet(S), NEW x \in S
  PROVE  Rank(S, x) \in 1..Cardinality(S) /\ Cardinality(S) \in Nat
<1> DEFINE T == {v \in S : v <= x}
<1>1. T \subseteq S /\ x \in T
  OBVIOUS
<1>2. IsFiniteSet(T) /\ Cardinality(T) <= Cardinality(S)
  BY <1>1, FS_Subset
<1>3. Cardinality(T) \in Nat /\ Cardinality(S) \in Nat
  BY <1>2, FS_CardinalityType
<1>4. Cardinality(T) # 0
  BY <1>1, <1>2, FS_EmptySet
<1>5. Rank(S, x) = Cardinality(T)
  BY DEF Rank
<1> HIDE DEF T
<1> QED
  BY <1>2, <1>3, <1>4, <1>5

LEMMA RankGrows ==
  ASSUME NEW S \in SUBSET Nat, IsFiniteSet(S), NEW x \in S, NEW y \in S, x < y
  PROVE  Rank(S, x) < Rank(S, y)
<1> DEFINE T == {v \in S : v <= x}
           V == {v \in S : v <= y}
<1>1. T \subseteq V /\ y \in V /\ y \notin T /\ V \subseteq S
  <2>1. \A v \in S : v \in Nat /\ (v <= x => v <= y)
    OBVIOUS
  <2>2. y <= y /\ ~(y <= x)
    OBVIOUS
  <2> QED
    BY Zenon, <2>1, <2>2
<1>2. IsFiniteSet(V)
  BY <1>1, FS_Subset
<1>3. IsFiniteSet(T) /\ Cardinality(T) <= Cardinality(V) /\ Cardinality(V) # Cardinality(T)
  BY <1>1, <1>2, FS_Subset
<1>4. Cardinality(T) \in Nat /\ Cardinality(V) \in Nat
  BY <1>2, <1>3, FS_CardinalityType
<1>5. Rank(S, x) = Cardinality(T) /\ Rank(S, y) = Cardinality(V)
  BY DEF Rank
<1> HIDE DEF T, V
<1> QED
  BY <1>3, <1>4, <1>5

LEMMA RankOrder ==
  ASSUME NEW S \in SUBSET Nat, IsFiniteSet(S), NEW x \in S, NEW y \in S
  PROVE  /\ Rank(S, x) <= Rank(S, y) => x <= y
         /\ Rank(S, x) = Rank(S, y) => x = y
<1>1. Rank(S, x) \in Nat /\ Rank(S, y) \in Nat /\ x \in Nat /\ y \in Nat
  BY RankType
<1>2. x < y => Rank(S, x) < Rank(S, y)
  BY RankGrows
<1>3. y < x => Rank(S, y) < Rank(S, x)
  BY RankGrows
<1> QED
  BY <1>1, <1>2, <1>3

\* As many places as numbers, and no two numbers in one place.
LEMMA RankOnto ==
  ASSUME NEW S \in SUBSET Nat, IsFiniteSet(S), NEW k \in 1..Cardinality(S)
  PROVE  \E u \in S : Rank(S, u) = k
<1> DEFINE n == Cardinality(S)
           f == [u \in S |-> Rank(S, u)]
<1>1. n \in Nat
  BY FS_CardinalityType
<1>2. f \in [S -> 1..n]
  BY RankType
<1>3. \A a, b \in S : f[a] = f[b] => a = b
  BY RankOrder
<1>4. f \in Injection(S, 1..n)
  BY <1>2, <1>3, Fun_IsInj
<1>5. IsFiniteSet(1..n) /\ Cardinality(1..n) = n
  <2>1. 1 \in Int /\ n \in Int
    BY <1>1
  <2>2. IsFiniteSet(1..n) /\ Cardinality(1..n) = IF 1 > n THEN 0 ELSE n - 1 + 1
    BY <2>1, FS_Interval
  <2> HIDE DEF n
  <2> QED
    BY <1>1, <2>2
<1>6. f \in Surjection(S, 1..n)
  <2>1. Cardinality(S) = Cardinality(1..n)
    BY <1>5
  <2> HIDE DEF f, n
  <2> QED
    BY <1>4, <1>5, <2>1, FS_Injection
<1>7. \E u \in S : f[u] = k
  <2> HIDE DEF f, n
  <2>1. \A t \in 1..n : \E u \in S : f[u] = t
    BY <1>6, Fun_SurjectionProperties
  <2> QED
    BY <2>1 DEF n
<1> QED
  BY <1>7

LEMMA RankWithout ==
  ASSUME NEW S \in SUBSET Nat, IsFiniteSet(S), NEW x \in S, NEW y \in S, y # x
  PROVE  Rank(S \ {x}, y) = IF x < y THEN Rank(S, y) - 1 ELSE Rank(S, y)
<1> DEFINE T == {v \in S : v <= y}
<1>1. Rank(S, y) = Cardinality(T) /\ Rank(S \ {x}, y) = Cardinality(T \ {x})
  <2>1. {v \in S \ {x} : v <= y} = T \ {x}
    OBVIOUS
  <2> QED
    BY <2>1 DEF Rank
<1>2. IsFiniteSet(T)
  <2>1. T \subseteq S
    OBVIOUS
  <2> QED
    BY <2>1, FS_Subset
<1>3. Cardinality(T \ {x}) = IF x \in T THEN Cardinality(T) - 1 ELSE Cardinality(T)
  BY <1>2, FS_RemoveElement
<1>4. (x \in T) <=> x < y
  OBVIOUS
<1> QED
  BY <1>1, <1>3, <1>4

LEMMA ListOfAt ==
  ASSUME NEW S \in SUBSET Nat, IsFiniteSet(S), NEW u \in S, NEW k \in 1..Cardinality(S), Rank(S, u) = k
  PROVE  ListOf(S)[k] = u
<1> DEFINE v == CHOOSE w \in S : Rank(S, w) = k
<1>1. v \in S /\ Rank(S, v) = k
  OBVIOUS
<1>2. v = u
  <2> HIDE DEF v
  <2> QED
    BY <1>1, RankOrder
<1> QED
  BY <1>2 DEF ListOf

\* Taking a number out of the set takes its place out of the list.
LEMMA ListOfWithout ==
  ASSUME NEW S \in SUBSET Nat, IsFiniteSet(S), NEW x \in S
  PROVE  ListOf(S \ {x}) = Without(ListOf(S), Rank(S, x))
<1> DEFINE T == S \ {x}
           n == Cardinality(S)
           r == Rank(S, x)
<1>1. /\ T \in SUBSET Nat /\ IsFiniteSet(T) /\ Cardinality(T) = n - 1
      /\ n \in Nat /\ r \in 1..n
  BY FS_RemoveElement, RankType
<1>2. Len(ListOf(S)) = n
  BY <1>1 DEF ListOf
<1>3. \A k \in 1..n - 1 : ListOf(T)[k] = IF k < r THEN ListOf(S)[k] ELSE ListOf(S)[k + 1]
  <2> TAKE k \in 1..n - 1
  <2>1. k \in 1..n /\ k + 1 \in 1..n /\ k \in 1..Cardinality(T)
    BY <1>1
  <2>2. CASE k < r
    <3>1. PICK u \in S : Rank(S, u) = k
      BY <2>1, RankOnto
    <3>2. u # x /\ ~(x < u)
      BY <3>1, <2>1, <2>2, <1>1, RankGrows
    <3>3. Rank(T, u) = k /\ u \in T
      BY <3>1, <3>2, RankWithout
    <3>4. ListOf(S)[k] = u
      BY <2>1, <3>1, ListOfAt
    <3> HIDE DEF T
    <3>5. ListOf(T)[k] = u
      BY <1>1, <2>1, <3>3, ListOfAt
    <3> QED
      BY <2>2, <3>4, <3>5
  <2>3. CASE ~(k < r)
    <3>1. PICK u \in S : Rank(S, u) = k + 1
      BY <2>1, RankOnto
    <3>2. u # x /\ ~(u < x) /\ u \in Nat /\ x \in Nat
      BY <3>1, <2>1, <2>3, <1>1, RankGrows
    <3>3. Rank(T, u) = k /\ u \in T
      BY <3>1, <3>2, <2>1, RankWithout
    <3>4. ListOf(S)[k + 1] = u
      BY <2>1, <3>1, ListOfAt
    <3> HIDE DEF T
    <3>5. ListOf(T)[k] = u
      BY <1>1, <2>1, <3>3, ListOfAt
    <3> QED
      BY <2>3, <3>4, <3>5
  <2> QED
    BY <2>2, <2>3
<1>4. ListOf(T) = [k \in 1..n - 1 |-> ListOf(T)[k]]
  BY <1>1 DEF ListOf
<1>5. Without(ListOf(S), r) = [k \in 1..n - 1 |-> IF k < r THEN ListOf(S)[k] ELSE ListOf(S)[k + 1]]
  BY <1>2 DEF Without
<1> HIDE DEF T, n, r
<1>6. ListOf(T) = Without(ListOf(S), r)
  BY <1>3, <1>4, <1>5
<1> QED
  BY <1>6 DEF T, r

-----------------------------------------------------------------------------
(***************************************************************************)
(* The numbers that Expunge and Move report.                               *)
(***************************************************************************)
UIDsOf(k) == {msgs[i].uid : i \in Ready(k)}

LEMMA ListIsListOf ==
  \A k, first : UIDList(k, first) = ListOf(UIDsOf(k) \cap (0..first - 1))
BY DEF UIDList, ListOf, Rank, UIDsOf

\* The number of a message is the place of its UID, as UIDs are not shared.
LEMMA NumberIsRank ==
  ASSUME NEW b, NEW m \in Rows, RowsOK(b, m), NEW k, NEW R,
         R = {j \in MsgIDs : m[j].state = "Ready" /\ m[j].box = k}, NEW i \in R
  PROVE  /\ {m[j].uid : j \in R} \in SUBSET Nat /\ IsFiniteSet({m[j].uid : j \in R})
         /\ Cardinality({j \in R : m[j].uid <= m[i].uid}) = Rank({m[j].uid : j \in R}, m[i].uid)
<1> DEFINE T == {j \in R : m[j].uid <= m[i].uid}
           U == {m[j].uid : j \in R}
           V == {v \in U : v <= m[i].uid}
           f == [j \in T |-> m[j].uid]
           g == [j \in R |-> m[j].uid]
<1>1. IsFiniteSet(R)
  <2>1. 1 \in Int /\ MaxMsgs \in Int
    BY SizeAssumption
  <2>2. IsFiniteSet(1..MaxMsgs)
    BY <2>1, FS_Interval
  <2>3. R \subseteq 1..MaxMsgs
    BY DEF MsgIDs
  <2> QED
    BY <2>2, <2>3, FS_Subset
<1>2. U \in SUBSET Nat
  BY DEF Rows, Row
<1>3. IsFiniteSet(T)
  <2>1. T \subseteq R
    OBVIOUS
  <2> QED
    BY <1>1, <2>1, FS_Subset
<1>4. IsFiniteSet(U)
  <2>1. g \in [R -> U] /\ \A v \in U : \E j \in R : g[j] = v
    OBVIOUS
  <2> HIDE DEF U, g
  <2>2. g \in Surjection(R, U)
    BY <2>1, Fun_IsSurj
  <2> QED
    BY <1>1, <2>2, FS_Surjection
<1>5. \A j, l \in R : m[j].uid = m[l].uid => j = l
  BY DEF RowsOK
<1>6. /\ f \in [T -> V] /\ \A v \in V : \E j \in T : f[j] = v
      /\ \A j, l \in T : f[j] = f[l] => j = l
  BY <1>5
<1>7. Cardinality(V) = Cardinality(T)
  <2> HIDE DEF T, V, f
  <2>1. f \in Bijection(T, V)
    BY <1>6, Fun_IsBij
  <2>2. ExistsBijection(T, V)
    BY <2>1, Fun_ExistsBij
  <2> QED
    BY <1>3, <2>2, FS_Bijection
<1> QED
  BY <1>2, <1>4, <1>7 DEF Rank

LEMMA SeqNumRank ==
  ASSUME Inv, NEW k, NEW i \in Ready(k)
  PROVE  /\ UIDsOf(k) \in SUBSET Nat /\ IsFiniteSet(UIDsOf(k))
         /\ SeqNum(i) = Rank(UIDsOf(k), msgs[i].uid) /\ msgs[i].uid \in UIDsOf(k)
<1>1. msgs \in Rows /\ RowsOK(boxes, msgs)
  BY TablesTyped DEF Inv
<1>2. Ready(k) = {j \in MsgIDs : msgs[j].state = "Ready" /\ msgs[j].box = k}
  BY DEF Ready
<1>3. /\ {msgs[j].uid : j \in Ready(k)} \in SUBSET Nat /\ IsFiniteSet({msgs[j].uid : j \in Ready(k)})
      /\ Cardinality({j \in Ready(k) : msgs[j].uid <= msgs[i].uid}) = Rank({msgs[j].uid : j \in Ready(k)}, msgs[i].uid)
  BY <1>1, <1>2, NumberIsRank, ZenonT(60)
<1>4. msgs[i].box = k
  BY <1>2
<1> QED
  BY <1>3, <1>4 DEF SeqNum, UIDsOf

LEMMA SeqNumRankNext ==
  ASSUME Inv', NEW k, NEW i, i \in Ready(k)'
  PROVE  SeqNum(i)' = Rank(UIDsOf(k)', msgs'[i].uid)
<1>1. msgs' \in Rows /\ RowsOK(boxes', msgs')
  BY DEF Inv, TypeOK, Rows
<1>2. Ready(k)' = {j \in MsgIDs : msgs'[j].state = "Ready" /\ msgs'[j].box = k}
  BY DEF Ready
<1>3. PICK R : R = Ready(k)'
  OBVIOUS
<1>4. Cardinality({j \in R : msgs'[j].uid <= msgs'[i].uid}) = Rank({msgs'[j].uid : j \in R}, msgs'[i].uid)
  BY <1>1, <1>2, <1>3, NumberIsRank, ZenonT(60)
<1>5. msgs'[i].box = k
  BY <1>2
<1> QED
  BY <1>3, <1>4, <1>5 DEF SeqNum, UIDsOf

\* The transactions that report numbers to the client, moves to the mailbox
\* itself left out.
Reports == txn.kind = "expunge" \/ (txn.kind = "move" /\ txn.dst # txn.src)

\* The numbers that the query gave are off by what has been reported since.
NumInv ==
  /\ ~NoTxn => boxes[txn.src].nextUID >= firstNew
  /\ ExpungeNumbering
  /\ Reports =>
       /\ \A i \in Ready(txn.src) : msgs[i].uid < firstNew
       /\ \A i \in txn.work : txn.num[i] = SeqNum(i) + txn.seqDelta

LEMMA IdleNum ==
  ASSUME NoTxn'
  PROVE  NumInv'
BY DEF NumInv, ExpungeNumbering, ListFits, Reports, NoTxn

LEMMA BeginNum ==
  ASSUME Inv, NEW t, Begin(t), t.src \in BoxIDs, UNCHANGED <<boxes, msgs>>,
         t.work \subseteq MsgIDs, \A i \in t.work : t.num[i] = SeqNum(i), t.seqDelta = 0
  PROVE  NumInv'
<1>1. /\ txn' = t /\ firstNew' = boxes[t.src].nextUID
      /\ shown' = UIDList(t.src, boxes[t.src].nextUID)
  BY DEF Begin
<1>2. boxes'[txn'.src].nextUID >= firstNew'
  BY <1>1 DEF Inv, TypeOK, Box
<1>3. ListFits'
  BY <1>1 DEF ListFits, UIDList, Ready
<1>4. \A i \in MsgIDs : SeqNum(i)' = SeqNum(i) /\ SeqNum(i) \in Nat
  BY SeqNumType DEF SeqNum, Ready
<1>5. Ready(t.src)' = Ready(t.src) /\ \A i \in Ready(t.src) : msgs[i].uid < boxes[t.src].nextUID
  BY DEF Ready, Inv, RowsOK
<1>6. \A i \in Ready(txn.src)' : msgs'[i].uid < firstNew'
  <2>1. Ready(txn.src)' = Ready(t.src)
    BY <1>1 DEF Ready
  <2> QED
    BY <1>1, <1>5, <2>1
<1>7. \A i \in txn'.work : txn'.num[i] = SeqNum(i)' + txn'.seqDelta
  BY <1>1, <1>4
<1> QED
  BY <1>2, <1>3, <1>6, <1>7 DEF NumInv, ExpungeNumbering

LEMMA NextListIsListOf ==
  ASSUME NEW k, NEW first
  PROVE  UIDList(k, first)' = ListOf(UIDsOf(k)' \cap (0..first - 1))
BY DEF UIDList, ListOf, Rank, UIDsOf

\* The list fits as long as no message that the client knows comes or goes,
LEMMA ListKept ==
  ASSUME NEW k, NEW f, txn.src = k, txn'.src = k, firstNew = f, firstNew' = f,
         ListFits, ~NoTxn, shown' = shown,
         UIDsOf(k)' \cap (0..f - 1) = UIDsOf(k) \cap (0..f - 1)
  PROVE  ListFits'
<1>1. shown = UIDList(k, f)
  BY DEF ListFits
<1>2. UIDList(txn.src, firstNew)' = UIDList(k, f)'
  BY DEF UIDList, Ready
<1>3. UIDList(k, f)' = UIDList(k, f)
  BY ListIsListOf, NextListIsListOf
<1> QED
  BY <1>1, <1>2, <1>3 DEF ListFits

\* and when one goes, if the client is told its place.
LEMMA ListCut ==
  ASSUME NEW k, NEW f \in Nat, txn.src = k, txn'.src = k, firstNew = f, firstNew' = f,
         ListFits, ~NoTxn, NEW x, NEW S \in SUBSET Nat, IsFiniteSet(S), x \in S,
         S = UIDsOf(k), \A v \in S : v < f, UIDsOf(k)' = S \ {x},
         shown' = Without(shown, Rank(S, x))
  PROVE  ListFits'
<1>1. S \cap (0..f - 1) = S /\ (S \ {x}) \cap (0..f - 1) = S \ {x}
  OBVIOUS
<1>2. shown = ListOf(S)
  <2>1. shown = UIDList(k, f)
    BY DEF ListFits
  <2>2. UIDList(k, f) = ListOf(S \cap (0..f - 1))
    BY ListIsListOf
  <2> QED
    BY <1>1, <2>1, <2>2
<1>3. UIDList(txn.src, firstNew)' = UIDList(k, f)'
  BY DEF UIDList, Ready
<1>4. UIDList(k, f)' = ListOf(S \ {x})
  <2>1. UIDList(k, f)' = ListOf(UIDsOf(k)' \cap (0..f - 1))
    BY NextListIsListOf
  <2> QED
    BY <1>1, <2>1
<1>5. ListOf(S \ {x}) = Without(shown, Rank(S, x))
  BY <1>2, ListOfWithout
<1> QED
  BY <1>3, <1>4, <1>5 DEF ListFits

\* The message with the smallest number leaves the source, and the numbers of
\* the others in the work go down by one.
LEMMA DepartNum ==
  ASSUME Inv, Inv', NumInv, Reports, NEW i \in MsgIDs, First(i), NEW k, k = txn.src,
         txn'.kind = txn.kind, txn'.src = txn.src, txn'.dst = txn.dst, firstNew' = firstNew,
         txn'.work = txn.work \ {i}, txn'.num = txn.num, txn'.seqDelta = txn.seqDelta + 1,
         Ready(k)' = Ready(k) \ {i}, \A j \in Ready(k) \ {i} : msgs'[j] = msgs[j],
         boxes'[k].nextUID >= boxes[k].nextUID,
         shown' = Without(shown, txn.num[i] - txn.seqDelta)
  PROVE  NumInv'
<1>0. /\ ~NoTxn /\ k \in BoxIDs /\ firstNew \in Nat
      /\ txn.work \subseteq Ready(k) /\ i \in txn.work /\ txn.seqDelta \in Nat
  BY DEF Reports, NoTxn, First, Inv, TxnInv, TypeOK, Txn, Ready
<1> DEFINE S == UIDsOf(k)
           x == msgs[i].uid
<1>1. /\ S \in SUBSET Nat /\ IsFiniteSet(S) /\ x \in S
      /\ \A j \in txn.work : SeqNum(j) = Rank(S, msgs[j].uid) /\ msgs[j].uid \in S
  BY <1>0, SeqNumRank
<1>2. \A j \in txn.work : Rank(S, msgs[j].uid) \in Nat
  BY <1>1, RankType
<1>3. \A j \in txn.work : txn.num[j] = Rank(S, msgs[j].uid) + txn.seqDelta
  BY <1>1 DEF NumInv
<1>4. txn.num[i] - txn.seqDelta = Rank(S, x)
  BY <1>0, <1>2, <1>3
<1>5. \A j \in Ready(k) : j # i => msgs[j].uid # x
  BY <1>0 DEF Inv, RowsOK, Ready
<1>6. UIDsOf(k)' = S \ {x}
  BY <1>5 DEF UIDsOf
<1>7. \A v \in S : v < firstNew
  BY DEF NumInv, UIDsOf
<1>8. ListFits'
  <2>1. ListFits
    BY DEF NumInv, ExpungeNumbering, Reports
  <2> HIDE DEF S, x
  <2> QED
    BY <1>0, <1>1, <1>4, <1>6, <1>7, <2>1, ListCut DEF S
<1>9. \A j \in txn.work \ {i} : txn.num[j] = SeqNum(j)' + (txn.seqDelta + 1)
  <2> SUFFICES ASSUME NEW j \in txn.work \ {i}
               PROVE  txn.num[j] = SeqNum(j)' + (txn.seqDelta + 1)
    OBVIOUS
  <2> DEFINE y == msgs[j].uid
  <2>1. j \in Ready(k)' /\ msgs'[j].uid = y /\ y # x /\ y \in S
    BY <1>0, <1>1, <1>5
  <2>2. SeqNum(j)' = Rank(S \ {x}, y)
    BY <1>6, <2>1, SeqNumRankNext
  <2>3. txn.num[i] <= txn.num[j]
    BY DEF First
  <2>4. Rank(S, x) <= Rank(S, y)
    BY <1>0, <1>2, <1>3, <2>3
  <2> HIDE DEF S, x, y
  <2>5. x <= y /\ x \in Nat /\ y \in Nat
    BY <1>1, <2>1, <2>4, RankOrder
  <2>6. Rank(S \ {x}, y) = Rank(S, y) - 1
    BY <1>1, <2>1, <2>5, RankWithout
  <2>7. Rank(S, y) \in Nat /\ txn.num[j] = Rank(S, y) + txn.seqDelta
    BY <1>2, <1>3 DEF y
  <2> QED
    BY <1>0, <2>2, <2>6, <2>7
<1>10. \A j \in Ready(txn.src)' : msgs'[j].uid < firstNew'
  <2>1. Ready(txn.src)' = Ready(k)'
    BY DEF Ready
  <2>2. \A j \in Ready(k) \ {i} : msgs'[j].uid < firstNew
    BY DEF NumInv
  <2> QED
    BY <2>1, <2>2
<1>11. boxes'[txn'.src].nextUID >= firstNew'
  <2>1. boxes[k].nextUID \in Nat /\ boxes'[k].nextUID \in Nat /\ boxes[k].nextUID >= firstNew
    BY <1>0 DEF NumInv, Inv, TypeOK, Box
  <2> QED
    BY <1>0, <2>1
<1> QED
  BY <1>8, <1>9, <1>10, <1>11 DEF NumInv, ExpungeNumbering

\* A step on a message that is not reported changes no UID that the client
\* knows: STORE changes flags, COPY takes a UID above them.
LEMMA SilentNum ==
  ASSUME Inv, NumInv, NEW i \in MsgIDs, StoreMsg(i) \/ CopyMsg(i)
  PROVE  NumInv'
<1> DEFINE k == txn.src
           f == firstNew
<1>1. /\ ~NoTxn /\ k \in BoxIDs /\ f \in Nat /\ firstNew' = f /\ shown' = shown
      /\ txn'.kind = txn.kind /\ txn'.src = k /\ ~Reports /\ txn.kind # "move"
  BY MsgStepFrame DEF StoreMsg, CopyMsg, Reports, Inv, TxnInv, TypeOK, Txn
<1>2. boxes[k].nextUID \in Nat /\ boxes[k].nextUID >= f
  BY <1>1 DEF NumInv, Inv, TypeOK, Box
<1>3. ListFits
  BY <1>1 DEF NumInv, ExpungeNumbering
<1>4. UIDsOf(k)' \cap (0..f - 1) = UIDsOf(k) \cap (0..f - 1) /\ boxes'[k].nextUID >= f
  <2>1. CASE StoreMsg(i)
    <3>1. \A j \in MsgIDs : /\ msgs'[j].state = msgs[j].state /\ msgs'[j].box = msgs[j].box
                            /\ msgs'[j].uid = msgs[j].uid
      BY <2>1, StoreMsgRows, MsgStepFrame
    <3>2. UIDsOf(k)' = UIDsOf(k)
      BY <1>1, <3>1 DEF UIDsOf, Ready
    <3> QED
      BY <1>2, <2>1, <3>2 DEF StoreMsg
  <2>2. CASE CopyMsg(i)
    <3> DEFINE d == txn.dst
               n == NewRow
    <3>1. /\ d \in BoxIDs /\ n \in MsgIDs /\ msgs[n].state = "none" /\ msgs'[n].state = "Ready"
          /\ msgs'[n].box = d /\ msgs'[n].uid = boxes[d].nextUID
          /\ \A j \in MsgIDs \ {n} : msgs'[j] = msgs[j]
      BY <2>2, CopyMsgRows
    <3>2. boxes' = [boxes EXCEPT ![d].nextUID = @ + 1]
      BY <2>2 DEF CopyMsg, NextMsgUID
    <3>3. boxes'[k].nextUID >= f
      BY <1>1, <1>2, <3>1, <3>2 DEF Inv, TypeOK, Box
    <3> HIDE DEF n
    <3>4. UIDsOf(k)' = UIDsOf(k) \/ UIDsOf(k)' = UIDsOf(k) \cup {boxes[k].nextUID}
      <4>1. CASE d # k
        <5>1. Ready(k)' = Ready(k) /\ \A j \in Ready(k) : msgs'[j].uid = msgs[j].uid
          BY <1>1, <3>1, <4>1 DEF Ready
        <5> QED
          BY <1>1, <5>1 DEF UIDsOf
      <4>2. CASE d = k
        <5>1. Ready(k)' = Ready(k) \cup {n} /\ \A j \in Ready(k) : msgs'[j].uid = msgs[j].uid
          BY <1>1, <3>1, <4>2 DEF Ready
        <5> QED
          BY <1>1, <3>1, <4>2, <5>1 DEF UIDsOf
      <4> QED
        BY <4>1, <4>2
    <3>5. boxes[k].nextUID \notin 0..f - 1
      BY <1>1, <1>2
    <3> QED
      BY <3>3, <3>4, <3>5
  <2> QED
    BY <2>1, <2>2
<1>5. ListFits'
  <2>1. PICK a : a = k
    OBVIOUS
  <2>2. UIDsOf(a)' = UIDsOf(k)'
    BY <1>1, <2>1 DEF UIDsOf, Ready
  <2> QED
    BY <1>1, <1>3, <1>4, <2>1, <2>2, ListKept
<1> QED
  BY <1>1, <1>4, <1>5 DEF NumInv, ExpungeNumbering, Reports

LEMMA MoveNum ==
  ASSUME Inv, Inv', NumInv, NEW i \in MsgIDs, MoveMsg(i)
  PROVE  NumInv'
<1>1. /\ ~NoTxn /\ i \in txn.work /\ msgs[i].state = "Ready" /\ msgs[i].box = txn.src
      /\ txn'.kind = txn.kind /\ txn'.src = txn.src /\ txn'.dst = txn.dst
      /\ txn'.work = txn.work \ {i} /\ txn'.num = txn.num /\ firstNew' = firstNew
  BY MsgStepFrame
<1>2. /\ txn.kind = "move" /\ txn.dst \in BoxIDs
      /\ NewRow \in MsgIDs /\ msgs[NewRow].state = "none" /\ NewRow # i
      /\ msgs'[i].box = txn.dst /\ msgs'[NewRow].state = "Tombstone"
      /\ \A j \in MsgIDs \ {i, NewRow} : msgs'[j] = msgs[j]
  BY MoveMsgRows
<1>3. PICK k \in BoxIDs : k = txn.src
  BY <1>1 DEF Inv, TxnInv, TypeOK, Txn
<1>4. boxes[k].nextUID \in Nat /\ boxes'[k].nextUID \in Nat /\ boxes'[k].nextUID >= boxes[k].nextUID
  BY <1>2 DEF MoveMsg, NextMsgUID, Inv, TypeOK, Box
<1>5. CASE txn.dst = txn.src
  <2>1. boxes'[k].nextUID >= firstNew'
    BY <1>1, <1>3, <1>4 DEF NumInv, Inv, TypeOK
  <2> QED
    BY <1>1, <1>2, <1>3, <1>5, <2>1 DEF NumInv, ExpungeNumbering, Reports
<1>6. CASE txn.dst # txn.src
  <2>1. Ready(k)' = Ready(k) \ {i} /\ \A j \in Ready(k) \ {i} : msgs'[j] = msgs[j]
    BY <1>2, <1>3, <1>6 DEF Ready
  <2>2. First(i) /\ shown' = Without(shown, txn.num[i] - txn.seqDelta) /\ Reports
    BY <1>6 DEF MoveMsg, Reports
  <2>3. txn'.seqDelta = txn.seqDelta + 1
    <3>1. txn \in Txn
      BY DEF Inv, TypeOK
    <3> QED
      BY <3>1 DEF MoveMsg, Txn
  <2> QED
    BY <1>1, <1>3, <1>4, <2>1, <2>2, <2>3, DepartNum
<1> QED
  BY <1>5, <1>6

LEMMA ExpungeNum ==
  ASSUME Inv, Inv', NumInv, NEW i \in MsgIDs, ExpungeMsg(i)
  PROVE  NumInv'
<1>1. /\ ~NoTxn /\ i \in txn.work /\ msgs[i].state = "Ready" /\ msgs[i].box = txn.src
      /\ txn'.kind = txn.kind /\ txn'.src = txn.src /\ txn'.dst = txn.dst
      /\ txn'.work = txn.work \ {i} /\ txn'.num = txn.num /\ firstNew' = firstNew
  BY MsgStepFrame
<1>2. /\ txn.kind = "expunge" /\ msgs'[i].state = "Expunged"
      /\ \A j \in MsgIDs \ {i} : msgs'[j] = msgs[j]
  BY ExpungeMsgRows
<1>3. PICK k \in BoxIDs : k = txn.src
  BY <1>1 DEF Inv, TxnInv, TypeOK, Txn
<1>4. boxes'[k].nextUID >= boxes[k].nextUID
  BY DEF ExpungeMsg, Inv, TypeOK, Box
<1>5. Ready(k)' = Ready(k) \ {i} /\ \A j \in Ready(k) \ {i} : msgs'[j] = msgs[j]
  BY <1>2 DEF Ready
<1>6. First(i) /\ shown' = Without(shown, txn.num[i] - txn.seqDelta) /\ Reports
  BY DEF ExpungeMsg, Reports
<1>7. txn'.seqDelta = txn.seqDelta + 1
  <2>1. txn \in Txn
    BY DEF Inv, TypeOK
  <2> QED
    BY <2>1 DEF ExpungeMsg, Txn
<1> QED
  BY <1>1, <1>3, <1>4, <1>5, <1>6, <1>7, DepartNum

LEMMA RangeNum ==
  ASSUME Inv, NumInv, NextRange
  PROVE  NumInv'
<1>1. PICK hit \in SUBSET Ready(txn.src) :
        txn' = [txn EXCEPT !.seqs = Tail(@), !.work = hit, !.seqDelta = 0,
                           !.num = [i \in MsgIDs |-> IF i \in hit THEN SeqNum(i) ELSE 0]]
  <2>1. \A u, min, max : InRange(txn.src, u, min, max) \in SUBSET Ready(txn.src)
    BY DEF InRange
  <2> QED
    BY <2>1, ZenonT(60) DEF NextRange
<1>2. UNCHANGED <<boxes, msgs, shown, firstNew>> /\ ~NoTxn
  BY DEF NextRange, tables, NoTxn
<1> DEFINE num == [i \in MsgIDs |-> IF i \in hit THEN SeqNum(i) ELSE 0]
<1>3. \A i \in hit : num[i] = SeqNum(i) /\ SeqNum(i) \in Nat
  BY SeqNumType DEF Ready
<1> HIDE DEF num
<1>4. /\ txn'.kind = txn.kind /\ txn'.src = txn.src /\ txn'.dst = txn.dst
      /\ txn'.work = hit /\ txn'.num = num /\ txn'.seqDelta = 0
  BY <1>1 DEF Inv, TypeOK, Txn, num
<1>5. Ready(txn.src)' = Ready(txn.src)
  BY <1>2, <1>4 DEF Ready
<1>6. \A i \in MsgIDs : SeqNum(i)' = SeqNum(i)
  BY <1>2 DEF SeqNum, Ready
<1>7. \A i \in txn'.work : txn'.num[i] = SeqNum(i)' + txn'.seqDelta
  BY <1>3, <1>4, <1>6 DEF Ready
<1>8. ExpungeNumbering'
  <2>1. UIDList(txn.src, firstNew)' = UIDList(txn.src, firstNew)
    BY <1>2, <1>4 DEF UIDList, Ready
  <2> QED
    BY <1>2, <1>4, <2>1 DEF NumInv, ExpungeNumbering, ListFits
<1>9. boxes'[txn'.src].nextUID >= firstNew'
  BY <1>2, <1>4 DEF NumInv
<1>10. Reports' => \A i \in Ready(txn.src)' : msgs'[i].uid < firstNew'
  BY <1>2, <1>4, <1>5 DEF NumInv, Reports
<1> QED
  BY <1>7, <1>8, <1>9, <1>10, SMTT(30) DEF NumInv

LEMMA StartNum ==
  ASSUME Inv, NEW s \in Sessions,
         \/ \E u, q, md, fl, since : Store(s, u, q, md, fl, since)
         \/ \E kind \in {"copy", "move"} : \E u, q : CopyOrMove(s, kind, u, q)
         \/ \E uids : Expunge(s, uids)
  PROVE  NumInv'
<1> DEFINE m == selected[s]
<1>1. ASSUME NEW u, NEW q, NEW md, NEW fl, NEW since, Store(s, u, q, md, fl, since)
      PROVE  NumInv'
  <2> DEFINE t == [Idle EXCEPT !.kind = "store", !.src = m, !.modSeq = modNext[boxes[m].name],
                               !.useUID = u, !.seqs = q, !.mode = md, !.flags = fl, !.since = since]
  <2>1. m \in BoxIDs /\ UNCHANGED <<boxes, msgs>> /\ Begin(t)
    BY <1>1 DEF Store, Inv, TypeOK
  <2>2. t.src = m /\ t.work = {} /\ t.seqDelta = 0
    BY DEF Idle
  <2> HIDE DEF t
  <2> QED
    BY <2>1, <2>2, BeginNum
<1>2. ASSUME NEW kind \in {"copy", "move"}, NEW u, NEW q, CopyOrMove(s, kind, u, q)
      PROVE  NumInv'
  <2> DEFINE t == [Idle EXCEPT !.kind = kind, !.src = m, !.dst = target[s],
                               !.modSeq = modNext[boxes[target[s]].name], !.useUID = u, !.seqs = q]
  <2>1. m \in BoxIDs /\ UNCHANGED <<boxes, msgs>> /\ NoTxn /\ (Begin(t) \/ UNCHANGED txnVars)
    BY <1>2 DEF CopyOrMove, Inv, TypeOK
  <2>2. t.src = m /\ t.work = {} /\ t.seqDelta = 0
    BY DEF Idle
  <2> HIDE DEF t
  <2> QED
    BY <2>1, <2>2, BeginNum, IdleNum DEF txnVars, NoTxn
<1>3. ASSUME NEW uids, Expunge(s, uids)
      PROVE  NumInv'
  <2> DEFINE gone == {i \in Ready(m) : Deleted \in msgs[i].flags /\ msgs[i].uid \in uids}
             num == [i \in MsgIDs |-> IF i \in gone THEN SeqNum(i) ELSE 0]
             t == [Idle EXCEPT !.kind = "expunge", !.src = m, !.work = gone, !.num = num]
  <2>1. m \in BoxIDs /\ UNCHANGED <<boxes, msgs>> /\ Begin(t)
    BY <1>3 DEF Expunge, tables, Inv, TypeOK
  <2>2. gone \subseteq MsgIDs /\ \A i \in gone : num[i] = SeqNum(i)
    BY DEF Ready
  <2> HIDE DEF gone, num
  <2>3. t.src = m /\ t.work = gone /\ t.seqDelta = 0 /\ t.num = num
    BY DEF Idle
  <2> HIDE DEF t
  <2> QED
    BY <2>1, <2>2, <2>3, BeginNum
<1> QED
  BY <1>1, <1>2, <1>3

LEMMA NextNum == Inv /\ Inv' /\ NumInv /\ [Next]_vars => NumInv'
<1> SUFFICES ASSUME Inv, Inv', NumInv, [Next]_vars PROVE NumInv'
  OBVIOUS
<1>1. CASE UNCHANGED vars
  <2>1. UNCHANGED <<boxes, msgs, txn, shown, firstNew>>
    BY <1>1 DEF vars, tables, txnVars
  <2>2. Ready(txn.src)' = Ready(txn.src) /\ \A i \in MsgIDs : SeqNum(i)' = SeqNum(i)
    BY <2>1 DEF Ready, SeqNum
  <2>3. UIDList(txn.src, firstNew)' = UIDList(txn.src, firstNew)
    BY <2>1 DEF UIDList, Ready
  <2>4. txn.work \subseteq MsgIDs
    BY DEF Inv, TypeOK, Txn
  <2>5. ExpungeNumbering'
    BY <2>1, <2>3 DEF NumInv, ExpungeNumbering, ListFits, NoTxn
  <2> QED
    BY <2>1, <2>2, <2>4, <2>5 DEF NumInv, Reports, NoTxn
<1>2. CASE Deliver \/ \E n \in Names : CreateMailbox(n) \/ DeleteMailbox(n)
  BY <1>2, IdleNum DEF Deliver, InsertMsg, CreateMailbox, DeleteMailbox, txnVars, NoTxn
<1>3. ASSUME NEW s \in Sessions, SessionStep(s) PROVE NumInv'
  <2>1. ASSUME NEW n \in Names, Select(s, n) \/ LookUp(s, n) PROVE NumInv'
    BY <2>1, IdleNum DEF Select, LookUp, txnVars, NoTxn
  <2>2. ASSUME NEW fl \in AppendFlags, Append_(s, fl) PROVE NumInv'
    BY <2>2, IdleNum DEF Append_, InsertMsg, txnVars, NoTxn
  <2>3. ASSUME NEW i \in MsgIDs, SetSeen(s, i) PROVE NumInv'
    BY <2>3, IdleNum DEF SetSeen, txnVars, NoTxn
  <2> QED
    BY <1>3, <2>1, <2>2, <2>3, StartNum DEF SessionStep
<1>4. CASE Commit \/ Rollback \/ Crash
  BY <1>4, IdleNum DEF Commit, Rollback, Crash, End, NoTxn, Idle
<1>5. CASE TxnStep
  BY <1>4, <1>5, RangeNum, SilentNum, MoveNum, ExpungeNum DEF TxnStep
<1> QED
  BY <1>1, <1>2, <1>3, <1>4, <1>5 DEF Next

\* The numbers of untagged EXPUNGE responses (mailbox.Expunge, mailbox.Move):
\* each is right for the list that the ones before it have left, whichever
\* messages the sequence set selects, with a failure after any of them; so the
\* client's list is the mailbox at every moment of the transaction.
THEOREM NumbersFit == Spec => []ExpungeNumbering
<1>1. Init => NumInv
  BY DEF Init, NumInv, ExpungeNumbering, ListFits, Reports, NoTxn, Idle
<1>2. NumInv => ExpungeNumbering
  BY DEF NumInv
<1> QED
  BY <1>1, <1>2, InitInv, NextInv, NextNum, PTL DEF Spec
=============================================================================
