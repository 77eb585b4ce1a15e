----------------------------- MODULE StagingDB -----------------------------
(***************************************************************************)
(* The staging database of spilldb (spilldb/db): the tables Msgs,          *)
(* MsgRecipients, MsgRaw, MsgFull and Deliveries, which the SMTP receiver, *)
(* the processor, the local sender and the deliverer share and use as      *)
(* their only queue.  A table is a function from StagingID; what is stored *)
(* in a blob is abstracted to the submission (the SMTP transaction) whose  *)
(* bytes it holds.  SQLite commits each statement on its own unless the    *)
(* code opens a savepoint, so each action of the components is one commit. *)
(***************************************************************************)
EXTENDS Integers, FiniteSets

CONSTANTS
  MaxStagingID,   \* bound: largest row id of Msgs
  MaxSubs,        \* bound: number of SMTP transactions (MAIL commands)
  Addrs,          \* recipient addresses, as they are after asciiLower
  UserAddresses,  \* table UserAddresses: local address -> UserID
  LocalDomain,    \* addresses whose domain is "spilled.ink"
  FaultKinds,     \* the kinds of failure a run allows
  MaxFaults       \* bound: number of failures

ASSUME StagingAssumption ==
  /\ MaxStagingID \in Nat
  /\ MaxSubs \in Nat
  /\ DOMAIN UserAddresses \subseteq Addrs
  /\ UserAddresses \in [DOMAIN UserAddresses -> Nat \ {0}]
  /\ LocalDomain \subseteq Addrs
  /\ MaxFaults \in Nat

StagingIDs == 1..MaxStagingID
Subs       == 1..MaxSubs
LocalAddrs == DOMAIN UserAddresses
Users      == {UserAddresses[a] : a \in LocalAddrs}

\* The addresses of user u.
AddrsOf(u) == {a \in LocalAddrs : UserAddresses[a] = u}

\* MsgRecipients.DeliveryState; "NoRow": the table has no such row.  The
\* states Unknown, Staging and Failed are declared but never stored.
DeliveryState == {"NoRow", "Receiving", "ToProcess", "Received", "Sending", "Done"}

NoRow == 0     \* a blob table has no row for the StagingID
Blank == -1    \* a row whose zeroblob has not been filled yet
Content == Subs \cup {NoRow, Blank}

VARIABLES
  msgs,        \* the StagingIDs that have a Msgs row
  readyDate,   \* Msgs.ReadyDate, 0 for NULL
  recips,      \* MsgRecipients: StagingID -> address -> DeliveryState
  raw,         \* MsgRaw
  full,        \* MsgFull
  deliveries,  \* Deliveries: <<StagingID, Recipient, Code>>
  running,     \* the background loops whose Run has not returned
  faults,      \* failures so far
  \* What the outside world has seen (history):
  nsub,        \* SMTP transactions begun
  authOf,      \* transaction -> was its session authenticated?
  rcptsOf,     \* transaction -> recipients accepted by RCPT, its envelope
  acked,       \* transactions answered "250 2.0.0 OK: queued"
  sent         \* <<transaction, address>> accepted by a remote server

tables  == <<msgs, readyDate, recips, raw, full, deliveries>>
history == <<nsub, authOf, rcptsOf, acked, sent>>

Loops == {"processor", "localsender", "deliverer"}

\* An absent row of MsgRecipients, and a table without rows.
NoRecipients == [a \in Addrs |-> "NoRow"]

StagingInit ==
  /\ msgs = {}
  /\ readyDate = [id \in StagingIDs |-> 0]
  /\ recips = [id \in StagingIDs |-> NoRecipients]
  /\ raw = [id \in StagingIDs |-> NoRow]
  /\ full = [id \in StagingIDs |-> NoRow]
  /\ deliveries = {}
  /\ running = Loops
  /\ faults = 0
  /\ nsub = 0
  /\ authOf = [b \in Subs |-> FALSE]
  /\ rcptsOf = [b \in Subs |-> {}]
  /\ acked = {}
  /\ sent = {}

StagingTypeOK ==
  /\ msgs \subseteq StagingIDs
  /\ readyDate \in [StagingIDs -> Nat]
  /\ recips \in [StagingIDs -> [Addrs -> DeliveryState]]
  /\ raw \in [StagingIDs -> Content]
  /\ full \in [StagingIDs -> Content]
  /\ deliveries \subseteq (StagingIDs \X Addrs \X {0, 250})
  /\ running \subseteq Loops
  /\ faults \in 0..MaxFaults
  /\ nsub \in 0..MaxSubs
  /\ authOf \in [Subs -> BOOLEAN]
  /\ rcptsOf \in [Subs -> SUBSET Addrs]
  /\ acked \subseteq Subs
  /\ sent \subseteq (Subs \X Addrs)

-----------------------------------------------------------------------------
\* A failure of kind k happens in this step.
Fault(k) ==
  /\ k \in FaultKinds
  /\ faults < MaxFaults
  /\ faults' = faults + 1

NoFault == UNCHANGED faults

\* LastInsertRowID of an INSERT into Msgs: StagingID is an INTEGER PRIMARY KEY
\* without AUTOINCREMENT, for which SQLite takes one more than the largest row.
IsNextRowID(id) == IF msgs = {} THEN id = 1 ELSE id - 1 \in msgs /\ \A i \in msgs : i < id

\* UPDATE MsgRecipients SET DeliveryState = to WHERE StagingID = id AND (the
\* row's address is in who) AND (its state is in from).
SetState(id, who, from, to) ==
  recips' = [recips EXCEPT ![id] = [a \in Addrs |->
               IF a \in who /\ recips[id][a] \in from THEN to ELSE recips[id][a]]]

\* The states of a row that exists.
AnyState == DeliveryState \ {"NoRow"}

\* SELECT ... ORDER BY x LIMIT n, over a set of numbers.
Lowest(S, n) == {x \in S : Cardinality({y \in S : y < x}) < n}

\* SELECT ... ORDER BY StagingID LIMIT n, over rows <<StagingID, address>>:
\* SQL leaves the order of rows with the same StagingID open.
Windows(rows, n) ==
  {W \in SUBSET rows :
     /\ \A w \in W, r \in rows \ W : w[1] <= r[1]
     /\ Cardinality(W) <= n
     /\ Cardinality(W) < n => W = rows}
=============================================================================
