-------------------------- MODULE ImapServerProofs --------------------------
(***************************************************************************)
(* Theorems about ImapServer, for any number of connections, delivered     *)
(* messages and mailboxes.                                                 *)
(***************************************************************************)
EXTENDS ImapServer, FiniteSetTheorems, SequenceTheorems, TLAPS

Modes == {"NonAuth", "Auth", "Selected"}
Cmds == AnyCmds \cup AuthCmds \cup BoxCmds \cup {"LOGIN", "none"}
Places == {"none", "wait", "ready", "lock", "run", "plan", "send", "visit", "idle",
           "exit", "exitUser", "gone"}
HasLock == {"run", "plan", "send", "visit"}

NoteRecord == [pc : {"none", "start", "visit", "info", "leaked"}, box : Boxes \cup {Nil},
               at : Conns \cup {Nil}, info : BOOLEAN]

Types ==
  /\ pc \in [Conns -> Places]
  /\ cmd \in [Conns -> [name : Cmds, box : Boxes \cup {Nil}]]
  /\ plan = [c \in Conns |-> plan[c]]
  /\ mode \in [Conns -> Modes]
  /\ mailbox \in [Conns -> Boxes \cup {Nil}]
  /\ updates = [c \in Conns |-> updates[c]]
  /\ bwMu \in [Conns -> Threads \cup {Free}]
  /\ note \in [Notes -> NoteRecord]

\* A connection has its own bwMu exactly while it runs a command.
LockInv == \A c \in Conns : bwMu[c] = c <=> pc[c] \in HasLock

\* The connection has been closed from outside a command.
Closed(c) == server = "closed" \/ pc[c] \in {"exit", "exitUser", "gone"}

\* While Notify waits for Info it has the bwMu of the connection, which can be
\* closed meanwhile but not get another mailbox.
NoteInv ==
  \A n \in Notes : note[n].pc = "info" =>
    /\ note[n].at \in Conns /\ bwMu[note[n].at] = n /\ note[n].box \in Boxes
    /\ mailbox[note[n].at] = note[n].box \/ (mailbox[note[n].at] = Nil /\ Closed(note[n].at))

\* A command without mailbox, such as a SELECT, finds nothing queued.
QueueInv == \A c \in Conns : pc[c] \in HasLock /\ mailbox[c] = Nil => updates[c] = {}

Inv == Types /\ LockInv /\ NoteInv /\ UpdatesForMailbox /\ QueueInv

-----------------------------------------------------------------------------
LEMMA Distinct ==
  /\ \A c \in Conns : c # Free
  /\ \A n \in Notes : n # Free
  /\ \A c \in Conns, n \in Notes : c # n
BY ImapServerAssumption DEF Free

LEMMA InitInv == Init => Inv
<1> SUFFICES ASSUME Init PROVE Inv
  OBVIOUS
<1>1. NoNote \in NoteRecord
  BY DEF NoNote, NoteRecord
<1>2. NoCmd \in [name : Cmds, box : Boxes \cup {Nil}]
  BY DEF NoCmd, Cmds
<1>3. note \in [Notes -> NoteRecord]
  BY <1>1 DEF Init
<1>4. cmd \in [Conns -> [name : Cmds, box : Boxes \cup {Nil}]]
  BY <1>2 DEF Init
<1>5. Types
  <2>1. pc \in [Conns -> Places] /\ mode \in [Conns -> Modes] /\ mailbox \in [Conns -> Boxes \cup {Nil}]
    BY DEF Init, Places, Modes
  <2>2. plan = [c \in Conns |-> plan[c]] /\ updates = [c \in Conns |-> updates[c]]
    BY DEF Init
  <2>3. bwMu \in [Conns -> Threads \cup {Free}]
    BY DEF Init
  <2> QED
    BY <1>3, <1>4, <2>1, <2>2, <2>3 DEF Types
<1>6. LockInv
  BY Distinct DEF Init, LockInv, HasLock
<1>7. NoteInv /\ UpdatesForMailbox /\ QueueInv
  BY DEF Init, NoteInv, UpdatesForMailbox, QueueInv, NoNote
<1> QED
  BY <1>5, <1>6, <1>7 DEF Inv

\* The end of a command, and the start of one that takes several steps.
LEMMA FinishTypes ==
  ASSUME Types, NEW c \in Conns, Finish(c)
  PROVE  /\ pc' \in [Conns -> Places]
         /\ cmd' \in [Conns -> [name : Cmds, box : Boxes \cup {Nil}]]
         /\ bwMu' \in [Conns -> Threads \cup {Free}]
BY DEF Types, Finish, Goto, Places, NoCmd, Cmds

LEMMA BeginTypes ==
  ASSUME Types, NEW c \in Conns, NEW p, Begin(c, p)
  PROVE  pc' \in [Conns -> Places] /\ plan' = [d \in Conns |-> plan'[d]]
BY DEF Types, Begin, Goto, Places

LEMMA CloseTypes ==
  ASSUME Types, NEW S, CloseMailbox(S)
  PROVE  /\ mode' \in [Conns -> Modes] /\ mailbox' \in [Conns -> Boxes \cup {Nil}]
         /\ updates' = [d \in Conns |-> updates'[d]]
BY DEF Types, CloseMailbox, Modes

\* Of an update of sendIdleUpdate only d hears, and only if it has selected
\* the mailbox the update is about.
LEMMA SentUpdates ==
  ASSUME Types, NEW c \in Conns, NEW d \in Conns, SendTo(c, d)
  PROVE  /\ updates' = [k \in Conns |-> updates'[k]]
         /\ \A k \in Conns \ {d} : updates'[k] = updates[k]
         /\ \A u \in updates'[d] : u \in updates[d] \/ u[2] = mailbox[d]
<1> DEFINE s == Head(plan[c])
           u == <<IF s.op = "expunge" THEN "EXPUNGE" ELSE "EXISTS", s.box>>
           new == IF ~Listens(d, s.box) \/ (d = c /\ ~s.self) THEN updates
                  ELSE IF d = c THEN [updates EXCEPT ![d] = @ \cup {u}]
                  ELSE Queue(d, u)
<1>1. updates' = new
  BY DEF SendTo
<1>2. Listens(d, s.box) => u[2] = mailbox[d]
  BY DEF Listens
<1> HIDE DEF s, u
<1>3. \/ new = updates
      \/ Listens(d, s.box) /\ new = [updates EXCEPT ![d] = @ \cup {u}]
      \/ Listens(d, s.box) /\ new = Queue(d, u)
  OBVIOUS
<1> HIDE DEF new
<1> QED
  BY <1>1, <1>2, <1>3 DEF Types, Queue

LEMMA ConnTypes ==
  ASSUME Types, NEW c \in Conns, ConnStep(c)
  PROVE  Types'
<1> USE DEF Types, connVars, lockVars, Goto, Places, Modes, Threads, NoCmd
<1>1. CASE Register(c)
  BY <1>1 DEF Register
<1>2. CASE Lock(c)
  BY <1>2 DEF Lock
<1>3. CASE Respond(c)
  BY <1>3 DEF Respond, Running, Finish, Cmds
<1>4. CASE Login(c)
  BY <1>4 DEF Login, Running, Finish, Cmds
<1>5. CASE Select(c)
  BY <1>5 DEF Select, Running, Finish, Cmds
<1>6. CASE Idle(c)
  BY <1>6 DEF Idle, Running
<1>7. CASE Logout(c)
  BY <1>7 DEF Logout, Running, Finish, CloseMailbox, Cmds
<1>8. CASE Append_(c)
  BY <1>8, FinishTypes, BeginTypes DEF Append_
<1>9. CASE Copy(c)
  BY <1>9, FinishTypes, BeginTypes DEF Copy
<1>10. CASE Expunge(c)
  BY <1>10, BeginTypes DEF Expunge
<1>11. CASE Callback(c)
  BY <1>11 DEF Callback, AtStage
<1>12. CASE Commit(c)
  BY <1>12 DEF Commit, AtStage
<1>13. CASE TxnFails(c)
  BY <1>13 DEF TxnFails, AtStage
<1>14. CASE Info(c)
  BY <1>14 DEF Info, AtStage
<1>15. CASE Done(c)
  BY <1>15, FinishTypes, CloseTypes DEF Done
<1>16. CASE SendStart(c)
  BY <1>16 DEF SendStart
<1>17. CASE SendDone(c)
  BY <1>17 DEF SendDone
<1>18. CASE CommandPanics(c)
  BY <1>18 DEF CommandPanics, AtStage
<1>19. CASE ExitConns(c)
  BY <1>19 DEF ExitConns
<1>20. CASE ExitUser(c)
  BY <1>20 DEF ExitUser
<1>21. ASSUME NEW d \in Conns, SendTo(c, d)
      PROVE  Types'
  <2>1. updates' = [k \in Conns |-> updates'[k]]
    BY <1>21, SentUpdates
  <2> QED
    BY <1>21, <2>1 DEF SendTo
<1> QED
  BY <1>1, <1>2, <1>3, <1>4, <1>5, <1>6, <1>7, <1>8, <1>9, <1>10, <1>11, <1>12, <1>13, <1>14, <1>15, <1>16, <1>17, <1>18, <1>19, <1>20, <1>21 DEF ConnStep

\* Notify takes a connection up, and goes on with the next.
LEMMA NoteAt ==
  ASSUME Types, NEW n \in Notes, NEW d \in Conns, note' = [note EXCEPT ![n].pc = "info", ![n].at = d]
  PROVE  /\ note' \in [Notes -> NoteRecord]
         /\ note'[n].at = d /\ note'[n].box = note[n].box
         /\ \A k \in Notes \ {n} : note'[k] = note[k]
<1> DEFINE r == [[note[n] EXCEPT !.pc = "info"] EXCEPT !.at = d]
<1>1. note[n] \in NoteRecord /\ note \in [Notes -> NoteRecord]
  BY DEF Types
<1>2. r \in NoteRecord /\ r.at = d /\ r.box = note[n].box
  BY <1>1 DEF NoteRecord
<1>3. note' = [note EXCEPT ![n] = r]
  BY <1>1
<1> HIDE DEF r
<1> QED
  BY <1>1, <1>2, <1>3

LEMMA NotePasses ==
  ASSUME Types, NEW n \in Notes, note' = [note EXCEPT ![n].pc = "visit", ![n].at = Nil, ![n].info = TRUE]
  PROVE  /\ note' \in [Notes -> NoteRecord] /\ note'[n].pc = "visit"
         /\ \A k \in Notes \ {n} : note'[k] = note[k]
<1> DEFINE r == [[[note[n] EXCEPT !.pc = "visit"] EXCEPT !.at = Nil] EXCEPT !.info = TRUE]
<1>1. note[n] \in NoteRecord /\ note \in [Notes -> NoteRecord]
  BY DEF Types
<1>2. r \in NoteRecord /\ r.pc = "visit"
  BY <1>1 DEF NoteRecord
<1>3. note' = [note EXCEPT ![n] = r]
  BY <1>1
<1> HIDE DEF r
<1> QED
  BY <1>1, <1>2, <1>3

LEMMA NoteTypes ==
  ASSUME Types, NEW n \in Notes, NoteStep(n)
  PROVE  Types'
<1> USE DEF Types, connVars, lockVars, Threads
<1>1. CASE NotifyStart(n)
  BY <1>1, ZenonT(60) DEF NotifyStart, NoteRecord
<1>2. ASSUME NEW d \in Conns, NotifyVisit(n, d)
      PROVE  Types'
  <2>1. CASE UNCHANGED <<updates, bwMu, note>>
    BY <1>2, <2>1 DEF NotifyVisit
  <2>2. CASE /\ bwMu' = [bwMu EXCEPT ![d] = n] /\ UNCHANGED updates
             /\ note' = [note EXCEPT ![n].pc = "info", ![n].at = d]
    <3>1. note' \in [Notes -> NoteRecord]
      BY <2>2, NoteAt
    <3>2. bwMu' \in [Conns -> Threads \cup {Free}]
      BY <2>2
    <3> QED
      BY <1>2, <2>2, <3>1, <3>2 DEF NotifyVisit
  <2>3. CASE updates' = Queue(d, <<"EXISTS", note[n].box>>) /\ UNCHANGED <<bwMu, note>>
    BY <1>2, <2>3 DEF NotifyVisit, Queue
  <2> QED
    BY <1>2, <2>1, <2>2, <2>3 DEF NotifyVisit
<1>3. CASE NotifyInfo(n)
  <2>1. note' = [note EXCEPT ![n].pc = "visit", ![n].at = Nil, ![n].info = TRUE]
    BY <1>3 DEF NotifyInfo
  <2>2. note' \in [Notes -> NoteRecord]
    BY <2>1, NotePasses
  <2>3. updates' = [k \in Conns |-> updates'[k]]
    <3>1. \E u : updates' = Queue(note[n].at, u)
      BY <1>3 DEF NotifyInfo
    <3> QED
      BY <3>1 DEF Queue
  <2>4. bwMu' \in [Conns -> Threads \cup {Free}]
    BY <1>3 DEF NotifyInfo
  <2> QED
    BY <1>3, <2>2, <2>3, <2>4 DEF NotifyInfo
<1>4. CASE NotifyFails(n)
  <2>1. [NoNote EXCEPT !.pc = "leaked"] \in NoteRecord
    BY DEF NoNote, NoteRecord
  <2>2. note' \in [Notes -> NoteRecord]
    BY <1>4, <2>1 DEF NotifyFails
  <2> QED
    BY <1>4, <2>2 DEF NotifyFails
<1>5. CASE NotifyDone(n)
  BY <1>5 DEF NotifyDone, NoNote, NoteRecord
<1>6. CASE NotifyPanics(n)
  BY <1>6 DEF NotifyPanics
<1> QED
  BY <1>1, <1>2, <1>3, <1>4, <1>5, <1>6 DEF NoteStep

LEMMA EnvironmentTypes ==
  ASSUME Types, Environment
  PROVE  Types'
<1> USE DEF Types, connVars, lockVars, Goto, Places
<1>1. ASSUME NEW c \in Conns, Accept(c)
      PROVE  Types'
  BY <1>1 DEF Accept
<1>2. ASSUME NEW c \in Conns, Parse(c)
      PROVE  Types'
  <2>1. PICK k \in Cmds, m \in Boxes \cup {Nil} : cmd' = [cmd EXCEPT ![c] = [name |-> k, box |-> m]]
    BY <1>2 DEF Parse, CmdsIn, Cmds, Modes
  <2> QED
    BY <1>2, <2>1 DEF Parse
<1>3. ASSUME NEW c \in Conns, IdleDone(c)
      PROVE  Types'
  BY <1>3 DEF IdleDone, NoCmd, Cmds
<1>4. ASSUME NEW c \in Conns, Exit(c)
      PROVE  Types'
  BY <1>4, CloseTypes DEF Exit
<1>5. ASSUME NEW n \in Notes, NEW m \in Boxes, Deliver(n, m)
      PROVE  Types'
  BY <1>5 DEF Deliver, NoNote, NoteRecord
<1>6. CASE Shutdown \/ Drained
  BY <1>6 DEF Shutdown, Drained
<1>7. CASE CloseAll
  BY <1>7, CloseTypes DEF CloseAll
<1> QED
  BY <1>1, <1>2, <1>3, <1>4, <1>5, <1>6, <1>7 DEF Environment

-----------------------------------------------------------------------------
LEMMA FinishLocks ==
  ASSUME Inv, NEW c \in Conns, pc[c] \in HasLock, Finish(c)
  PROVE  /\ LockInv'
         /\ \A d \in Conns : bwMu[d] \notin {c, Free} => bwMu'[d] = bwMu[d]
BY Distinct DEF Inv, Types, LockInv, Finish, Goto, HasLock

LEMMA BeginLocks ==
  ASSUME Inv, NEW c \in Conns, pc[c] \in HasLock, NEW p, Begin(c, p), bwMu' = bwMu
  PROVE  LockInv'
BY DEF Inv, Types, LockInv, Begin, Goto, HasLock

\* A connection gets or gives its bwMu, and changes its place, together; the
\* bwMu that others hold stays with them.
LEMMA ConnLocks ==
  ASSUME Inv, NEW c \in Conns, ConnStep(c)
  PROVE  /\ LockInv'
         /\ \A d \in Conns : bwMu[d] \notin {c, Free} => bwMu'[d] = bwMu[d]
<1> USE Distinct DEF Inv, Types, LockInv, connVars, lockVars, Goto, HasLock
<1>1. CASE Register(c)
  BY <1>1 DEF Register
<1>2. CASE Lock(c)
  BY <1>2 DEF Lock
<1>3. CASE Respond(c)
  BY <1>3 DEF Respond, Running, Finish
<1>4. CASE Login(c)
  BY <1>4 DEF Login, Running, Finish
<1>5. CASE Select(c)
  BY <1>5 DEF Select, Running, Finish
<1>6. CASE Idle(c)
  BY <1>6 DEF Idle, Running
<1>7. CASE Logout(c)
  BY <1>7 DEF Logout, Running, Finish
<1>8. CASE Append_(c)
  BY <1>8, FinishLocks, BeginLocks DEF Append_, Running
<1>9. CASE Copy(c)
  BY <1>9, FinishLocks, BeginLocks DEF Copy, Running
<1>10. CASE Expunge(c)
  BY <1>10 DEF Expunge, Begin
<1>11. CASE Callback(c)
  BY <1>11 DEF Callback, AtStage
<1>12. CASE Commit(c)
  BY <1>12 DEF Commit, AtStage
<1>13. CASE TxnFails(c)
  BY <1>13 DEF TxnFails, AtStage
<1>14. CASE Info(c)
  BY <1>14 DEF Info, AtStage
<1>15. CASE Done(c)
  BY <1>15 DEF Done, Finish
<1>16. CASE SendStart(c)
  BY <1>16 DEF SendStart
<1>17. CASE SendDone(c)
  BY <1>17 DEF SendDone
<1>18. CASE CommandPanics(c)
  BY <1>18 DEF CommandPanics
<1>19. CASE ExitConns(c)
  BY <1>19 DEF ExitConns
<1>20. CASE ExitUser(c)
  BY <1>20 DEF ExitUser
<1>21. ASSUME NEW k \in Conns, SendTo(c, k)
       PROVE  LockInv' /\ \A d \in Conns : bwMu[d] \notin {c, Free} => bwMu'[d] = bwMu[d]
  BY <1>21 DEF SendTo
<1> QED
  BY <1>1, <1>2, <1>3, <1>4, <1>5, <1>6, <1>7, <1>8, <1>9, <1>10, <1>11, <1>12, <1>13, <1>14, <1>15, <1>16, <1>17, <1>18, <1>19, <1>20, <1>21 DEF ConnStep

\* What NoteInv says survives if the bwMu that Notify holds stays with it and
\* the mailbox there stays too, unless the connection is closed.
LEMMA NoteKept ==
  ASSUME Inv, note' = note,
         \A n \in Notes, d \in Conns : bwMu[d] = n =>
           /\ bwMu'[d] = n
           /\ mailbox'[d] = mailbox[d] \/ (mailbox'[d] = Nil /\ Closed(d)')
           /\ Closed(d) => Closed(d)'
  PROVE  NoteInv'
<1> SUFFICES ASSUME NEW n \in Notes, note[n].pc = "info"
             PROVE  /\ note[n].at \in Conns /\ bwMu'[note[n].at] = n /\ note[n].box \in Boxes
                    /\ \/ mailbox'[note[n].at] = note[n].box
                       \/ mailbox'[note[n].at] = Nil /\ Closed(note[n].at)'
  BY DEF NoteInv
<1>1. PICK d \in Conns : /\ d = note[n].at /\ bwMu[d] = n /\ note[n].box \in Boxes
                         /\ mailbox[d] = note[n].box \/ (mailbox[d] = Nil /\ Closed(d))
  BY DEF Inv, NoteInv
<1>2. /\ bwMu'[d] = n
      /\ mailbox'[d] = note[n].box \/ (mailbox'[d] = Nil /\ Closed(d)')
  BY <1>1
<1> QED
  BY <1>1, <1>2

\* A step that leaves d closed if it was, and starts no command there.
PlaceKept(d) == (Closed(d) => Closed(d)') /\ (pc'[d] \in HasLock => pc[d] \in HasLock)

\* The updates of a connection stay about its mailbox if the mailbox stays,
\* or goes together with them.
LEMMA UpdatesKept ==
  ASSUME Inv, \A d \in Conns : \/ updates'[d] = {}
                               \/ /\ updates'[d] \subseteq updates[d] /\ mailbox'[d] = mailbox[d]
                                  /\ PlaceKept(d)
  PROVE  UpdatesForMailbox' /\ QueueInv'
<1>1. ASSUME NEW d \in Conns, NEW u \in updates'[d]
      PROVE  u[2] = mailbox'[d] \/ (mailbox'[d] = Nil /\ Closed(d)')
  <2>1. u \in updates[d] /\ mailbox'[d] = mailbox[d] /\ PlaceKept(d)
    BY <1>1
  <2>2. u[2] = mailbox[d] \/ (mailbox[d] = Nil /\ Closed(d))
    BY <2>1 DEF Inv, UpdatesForMailbox, Closed
  <2> QED
    BY <2>1, <2>2 DEF PlaceKept
<1>2. UpdatesForMailbox'
  BY <1>1 DEF UpdatesForMailbox, Closed
<1>3. ASSUME NEW d \in Conns, pc'[d] \in HasLock, mailbox'[d] = Nil
      PROVE  updates'[d] = {}
  BY <1>3 DEF Inv, QueueInv, PlaceKept
<1> QED
  BY <1>2, <1>3 DEF QueueInv

\* A command starts with an empty queue, and a closed connection is replaced
\* by a new one without queue, once nobody holds its bwMu.
LEMMA ConnPlaces ==
  ASSUME Inv, NEW c \in Conns, ConnStep(c)
  PROVE  /\ \A d \in Conns : updates'[d] = {} \/ PlaceKept(d)
         /\ \A d \in Conns : bwMu[d] # Free /\ Closed(d) => Closed(d)'
<1> USE DEF Inv, Types, LockInv, HasLock, Closed, PlaceKept, Goto, Finish, Begin, Running, AtStage,
            connVars, lockVars
<1> DEFINE Goal == /\ \A d \in Conns : updates'[d] = {} \/ PlaceKept(d)
                   /\ \A d \in Conns : bwMu[d] # Free /\ Closed(d) => Closed(d)'
<1>1. CASE Register(c)
  BY <1>1 DEF Register
<1>2. CASE Lock(c)
  BY <1>2 DEF Lock
<1>3. CASE Respond(c) \/ Login(c) \/ Select(c) \/ Logout(c) \/ Done(c)
  <2>1. pc[c] \in HasLock /\ pc' = [pc EXCEPT ![c] = "ready"] /\ server' = server
    BY <1>3 DEF Respond, Login, Select, Logout, Done
  <2> QED
    BY <2>1
<1>4. CASE Idle(c)
  BY <1>4 DEF Idle
<1>5. CASE Append_(c) \/ Copy(c)
  <2>1. pc[c] \in HasLock /\ server' = server /\ \E l \in {"ready", "plan"} : pc' = [pc EXCEPT ![c] = l]
    BY <1>5 DEF Append_, Copy
  <2> QED
    BY <2>1
<1>6. CASE Expunge(c)
  <2>1. pc[c] \in HasLock /\ server' = server /\ pc' = [pc EXCEPT ![c] = "plan"]
    BY <1>6 DEF Expunge
  <2> QED
    BY <2>1
<1>7. CASE Callback(c) \/ Commit(c) \/ TxnFails(c)
  <2>1. pc[c] \in HasLock /\ server' = server /\ \E l \in {"plan", "send"} : pc' = [pc EXCEPT ![c] = l]
    BY <1>7 DEF Callback, Commit, TxnFails
  <2> QED
    BY <2>1
<1>8. CASE Info(c)
  <2>1. pc[c] \in HasLock /\ server' = server /\ \E l \in {"plan", "send"} : pc' = [pc EXCEPT ![c] = l]
    BY <1>8 DEF Info
  <2> QED
    BY <2>1
<1>9. CASE SendStart(c) \/ SendDone(c)
  BY <1>9 DEF SendStart, SendDone
<1>10. ASSUME NEW d \in Conns, SendTo(c, d)
       PROVE  Goal
  BY <1>10 DEF SendTo
<1>11. CASE CommandPanics(c)
  BY <1>11 DEF CommandPanics
<1>12. CASE ExitConns(c)
  BY <1>12 DEF ExitConns
<1>13. CASE ExitUser(c)
  BY <1>13 DEF ExitUser
<1> QED
  BY <1>1, <1>2, <1>3, <1>4, <1>5, <1>6, <1>7, <1>8, <1>9, <1>10, <1>11, <1>12, <1>13 DEF ConnStep

\* Only SELECT gives a connection a mailbox, and it holds bwMu then; updates
\* are dropped when the mailbox changes.
LEMMA CloseKeeps ==
  ASSUME Inv, NEW S, CloseMailbox(S), \A d \in Conns : updates'[d] = {} \/ PlaceKept(d)
  PROVE  /\ \A d \in Conns : mailbox'[d] = mailbox[d] \/ (d \in S /\ mailbox'[d] = Nil)
         /\ UpdatesForMailbox' /\ QueueInv'
<1>1. \A d \in Conns : \/ updates'[d] = {} /\ d \in S /\ mailbox'[d] = Nil
                       \/ updates'[d] = updates[d] /\ mailbox'[d] = mailbox[d]
  BY DEF CloseMailbox, Inv, Types
<1> QED
  BY <1>1, UpdatesKept

LEMMA ConnMailbox ==
  ASSUME Inv, NEW c \in Conns, ConnStep(c)
  PROVE  /\ \A d \in Conns : bwMu[d] # c => mailbox'[d] = mailbox[d]
         /\ UpdatesForMailbox' /\ QueueInv' /\ note' = note
<1> DEFINE Goal == /\ \A d \in Conns : bwMu[d] # c => mailbox'[d] = mailbox[d]
                   /\ UpdatesForMailbox' /\ QueueInv' /\ note' = note
<1>0. \A d \in Conns : updates'[d] = {} \/ PlaceKept(d)
  BY ConnPlaces
<1>1. ASSUME UNCHANGED <<mailbox, note>>, \A d \in Conns : updates'[d] \subseteq updates[d]
      PROVE  Goal
  BY <1>0, <1>1, UpdatesKept
<1>2. CASE Register(c) \/ Respond(c) \/ Login(c) \/ Callback(c) \/ Commit(c) \/ TxnFails(c) \/ Info(c)
  BY <1>1, <1>2 DEF Register, Respond, Login, Callback, Commit, TxnFails, Info
<1>3. CASE Append_(c) \/ Copy(c) \/ Expunge(c)
  BY <1>1, <1>3 DEF Append_, Copy, Expunge
<1>4. CASE SendStart(c) \/ SendDone(c) \/ CommandPanics(c) \/ ExitConns(c)
  BY <1>1, <1>4 DEF SendStart, SendDone, CommandPanics, ExitConns, connVars
<1>5. CASE Lock(c) \/ Idle(c) \/ ExitUser(c)
  <2>1. \A d \in Conns : updates'[d] \subseteq updates[d]
    BY <1>5 DEF Lock, Idle, ExitUser, Inv, Types
  <2> QED
    BY <1>1, <1>5, <2>1 DEF Lock, Idle, ExitUser
<1>6. CASE Select(c)
  <2>1. bwMu[c] = c /\ pc[c] \in HasLock
    BY <1>6 DEF Select, Running, Inv, LockInv, HasLock
  <2>2. updates'[c] = {}
    BY <1>6, <2>1 DEF Select, Inv, Types, QueueInv
  <2>3. \A d \in Conns \ {c} : updates'[d] = updates[d] /\ mailbox'[d] = mailbox[d]
    BY <1>6 DEF Select, Inv, Types
  <2> QED
    BY <1>0, <1>6, <2>1, <2>2, <2>3, UpdatesKept DEF Select
<1>7. CASE Logout(c)
  <2>1. bwMu[c] = c
    BY <1>7 DEF Logout, Running, Inv, LockInv, HasLock
  <2> QED
    BY <1>0, <1>7, <2>1, CloseKeeps DEF Logout
<1>8. CASE Done(c)
  <2>1. CASE CloseMailbox({c})
    <3>1. bwMu[c] = c
      BY <1>8 DEF Done, Inv, LockInv, HasLock
    <3> QED
      BY <1>0, <1>8, <2>1, <3>1, CloseKeeps DEF Done
  <2>2. CASE /\ updates' = [updates EXCEPT ![c] = IF cmd[c].name \in {"APPEND", "MOVE"} THEN {} ELSE @]
             /\ UNCHANGED mailbox
    <3>1. \A d \in Conns : updates'[d] \subseteq updates[d]
      BY <2>2 DEF Inv, Types
    <3> QED
      BY <1>1, <1>8, <2>2, <3>1 DEF Done
  <2> QED
    BY <1>8, <2>1, <2>2 DEF Done
<1>9. ASSUME NEW d \in Conns, SendTo(c, d)
      PROVE  Goal
  <2>1. UNCHANGED <<mailbox, note, pc, server>>
    BY <1>9 DEF SendTo
  <2>2. UpdatesForMailbox'
    BY <1>9, <2>1, SentUpdates DEF Inv, UpdatesForMailbox
  <2>3. mailbox[d] = Nil => updates'[d] = updates[d]
    BY <1>9 DEF SendTo, Listens
  <2>4. QueueInv'
    BY <1>9, <2>1, <2>3, SentUpdates DEF Inv, QueueInv
  <2> QED
    BY <2>1, <2>2, <2>4
<1> QED
  BY <1>2, <1>3, <1>4, <1>5, <1>6, <1>7, <1>8, <1>9 DEF ConnStep

LEMMA ConnInv ==
  ASSUME Inv, NEW c \in Conns, ConnStep(c)
  PROVE  Inv'
<1>1. Types' /\ LockInv' /\ UpdatesForMailbox' /\ QueueInv' /\ note' = note
  BY ConnTypes, ConnLocks, ConnMailbox DEF Inv
<1>2. \A n \in Notes, d \in Conns : bwMu[d] = n =>
        bwMu'[d] = n /\ mailbox'[d] = mailbox[d] /\ (Closed(d) => Closed(d)')
  BY ConnLocks, ConnMailbox, ConnPlaces, Distinct
<1> QED
  BY <1>1, <1>2, NoteKept DEF Inv

\* One goroutine of Notify has a connection at a time, and what it queues is
\* about the mailbox it found there.
LEMMA NoteStepInv ==
  ASSUME Inv, NEW n \in Notes, NoteStep(n)
  PROVE  Inv'
<1>1. Types'
  BY NoteTypes DEF Inv
<1>2. mailbox' = mailbox /\ pc' = pc /\ server' = server
  BY DEF NoteStep, NotifyStart, NotifyVisit, NotifyInfo, NotifyFails, NotifyPanics, NotifyDone, connVars
<1>3. ASSUME UNCHANGED <<updates, bwMu>>, note'[n].pc # "info", \A k \in Notes \ {n} : note'[k] = note[k]
      PROVE  Inv'
  BY <1>1, <1>2, <1>3 DEF Inv, LockInv, NoteInv, UpdatesForMailbox, QueueInv, Closed
<1>4. CASE NotifyStart(n)
  <2>1. note'[n].pc = "visit" /\ \A k \in Notes \ {n} : note'[k] = note[k]
    BY <1>4 DEF NotifyStart, Inv, Types, NoteRecord
  <2> QED
    BY <1>3, <1>4, <2>1 DEF NotifyStart, connVars
<1>5. ASSUME NEW d \in Conns, NotifyVisit(n, d)
      PROVE  Inv'
  <2>1. bwMu[d] = Free
    BY <1>5 DEF NotifyVisit
  <2>2. CASE UNCHANGED <<updates, bwMu, note>>
    BY <1>1, <1>2, <2>2 DEF Inv, LockInv, NoteInv, UpdatesForMailbox, QueueInv, Closed
  <2>3. CASE /\ bwMu' = [bwMu EXCEPT ![d] = n] /\ UNCHANGED updates
             /\ note' = [note EXCEPT ![n].pc = "info", ![n].at = d]
             /\ Listens(d, note[n].box)
    <3>1. /\ note'[n].at = d /\ note'[n].box = note[n].box
          /\ \A k \in Notes \ {n} : note'[k] = note[k]
      BY <2>3, NoteAt DEF Inv
    <3>2. bwMu'[d] = n /\ \A k \in Conns \ {d} : bwMu'[k] = bwMu[k]
      BY <2>3 DEF Inv, Types
    <3>3. LockInv'
      BY <1>2, <2>1, <3>2, Distinct DEF Inv, LockInv
    <3>4. mailbox[d] = note[n].box /\ note[n].box \in Boxes
      BY <2>3 DEF Listens, Inv, Types
    <3>5. NoteInv'
      BY <1>2, <2>1, <3>1, <3>2, <3>4, Distinct DEF Inv, NoteInv, Closed
    <3> QED
      BY <1>1, <1>2, <2>3, <3>3, <3>5 DEF Inv, UpdatesForMailbox, QueueInv
  <2>4. CASE updates' = Queue(d, <<"EXISTS", note[n].box>>) /\ Listens(d, note[n].box) /\ UNCHANGED <<bwMu, note>>
    <3>1. UpdatesForMailbox' /\ QueueInv'
      BY <1>2, <2>4 DEF Inv, Types, UpdatesForMailbox, QueueInv, Queue, Listens
    <3> QED
      BY <1>1, <1>2, <2>4, <3>1 DEF Inv, LockInv, NoteInv, Closed
  <2> QED
    BY <1>5, <2>2, <2>3, <2>4 DEF NotifyVisit
<1>6. CASE NotifyInfo(n)
  <2> DEFINE d == note[n].at
  <2>1. /\ d \in Conns /\ bwMu[d] = n
        /\ mailbox[d] = note[n].box \/ (mailbox[d] = Nil /\ Closed(d))
    BY <1>6 DEF NotifyInfo, Inv, NoteInv
  <2>2. note' = [note EXCEPT ![n].pc = "visit", ![n].at = Nil, ![n].info = TRUE]
    BY <1>6 DEF NotifyInfo
  <2>3. note'[n].pc = "visit" /\ \A k \in Notes \ {n} : note'[k] = note[k]
    BY <2>2, NotePasses DEF Inv
  <2>4. bwMu' = [bwMu EXCEPT ![d] = Free]
    BY <1>6 DEF NotifyInfo
  <2>5. updates' = Queue(d, <<"EXISTS", note[n].box>>)
    BY <1>6 DEF NotifyInfo
  <2> HIDE DEF d
  <2>6. bwMu'[d] = Free /\ \A k \in Conns \ {d} : bwMu'[k] = bwMu[k]
    BY <2>1, <2>4 DEF Inv, Types
  <2>7. LockInv'
    BY <1>2, <2>1, <2>6, Distinct DEF Inv, LockInv
  <2>8. NoteInv'
    BY <1>2, <2>1, <2>3, <2>6 DEF Inv, NoteInv, Closed
  <2>9. UpdatesForMailbox'
    BY <1>2, <2>1, <2>5 DEF Inv, Types, UpdatesForMailbox, Queue, Closed
  <2>10. pc[d] \notin HasLock
    BY <2>1, Distinct DEF Inv, LockInv
  <2>11. QueueInv'
    BY <1>2, <2>1, <2>5, <2>10 DEF Inv, Types, QueueInv, Queue
  <2> QED
    BY <1>1, <2>7, <2>8, <2>9, <2>11 DEF Inv
<1>7. CASE NotifyFails(n)
  <2>1. note'[n].pc = "leaked" /\ \A k \in Notes \ {n} : note'[k] = note[k]
    BY <1>7 DEF NotifyFails, Inv, Types, NoNote
  <2> QED
    BY <1>3, <1>7, <2>1 DEF NotifyFails, connVars
<1>8. CASE NotifyPanics(n)
  BY <1>1, <1>2, <1>8 DEF NotifyPanics, connVars, lockVars, Inv, LockInv, NoteInv, UpdatesForMailbox,
                          QueueInv, Closed
<1>9. CASE NotifyDone(n)
  <2>1. note'[n].pc = "none" /\ \A k \in Notes \ {n} : note'[k] = note[k]
    BY <1>9 DEF NotifyDone, Inv, Types, NoNote
  <2> QED
    BY <1>3, <1>9, <2>1 DEF NotifyDone, connVars
<1> QED
  BY <1>4, <1>5, <1>6, <1>7, <1>8, <1>9 DEF NoteStep

LEMMA EnvironmentInv ==
  ASSUME Inv, Environment
  PROVE  Inv'
<1>1. Types'
  BY EnvironmentTypes DEF Inv
<1>2. ASSUME note' = note, bwMu' = bwMu, LockInv', UpdatesForMailbox', QueueInv',
             \A d \in Conns : /\ mailbox'[d] = mailbox[d] \/ (mailbox'[d] = Nil /\ Closed(d)')
                              /\ PlaceKept(d)
      PROVE  Inv'
  BY <1>1, <1>2, NoteKept DEF Inv, PlaceKept
<1>3. ASSUME UNCHANGED <<mailbox, updates>>, \A d \in Conns : PlaceKept(d)
      PROVE  UpdatesForMailbox' /\ QueueInv'
  BY <1>3, UpdatesKept
<1>4. ASSUME NEW c \in Conns, bwMu' = bwMu, NEW l, l \notin HasLock, pc[c] \notin HasLock, Goto(c, l)
      PROVE  LockInv'
  BY <1>4 DEF Inv, Types, LockInv, Goto
<1>5. ASSUME NEW c \in Conns, Accept(c) \/ Parse(c) \/ IdleDone(c)
      PROVE  Inv'
  <2>1. UNCHANGED <<mailbox, updates, note, bwMu>>
    BY <1>5 DEF Accept, Parse, IdleDone, lockVars
  <2>2. LockInv'
    BY <1>4, <1>5, <2>1 DEF Accept, Parse, IdleDone, HasLock
  <2>3. \A d \in Conns : PlaceKept(d)
    BY <1>5 DEF Accept, Parse, IdleDone, Inv, Types, Goto, PlaceKept, Closed, HasLock
  <2> QED
    BY <1>2, <1>3, <2>1, <2>2, <2>3
<1>6. ASSUME NEW c \in Conns, Exit(c)
      PROVE  Inv'
  <2>1. LockInv'
    BY <1>4, <1>6 DEF Exit, HasLock, lockVars
  <2>2. /\ \A d \in Conns : PlaceKept(d)
        /\ Closed(c)'
    BY <1>6 DEF Exit, Inv, Types, Goto, PlaceKept, Closed, HasLock
  <2> QED
    BY <1>2, <1>6, <2>1, <2>2, CloseKeeps DEF Exit, lockVars
<1>7. ASSUME NEW n \in Notes, NEW m \in Boxes, Deliver(n, m)
      PROVE  Inv'
  <2>1. note'[n].pc = "start" /\ \A k \in Notes \ {n} : note'[k] = note[k]
    BY <1>7 DEF Deliver, Inv, Types, NoNote
  <2> QED
    BY <1>1, <1>7, <2>1 DEF Deliver, connVars, lockVars, Inv, LockInv, NoteInv, UpdatesForMailbox,
                            QueueInv, Closed
<1>8. CASE Shutdown \/ Drained
  <2>1. UNCHANGED <<pc, mailbox, updates, note, bwMu>> /\ \A d \in Conns : PlaceKept(d)
    BY <1>8 DEF Shutdown, Drained, connVars, lockVars, PlaceKept, Closed
  <2>2. LockInv'
    BY <2>1 DEF Inv, LockInv
  <2> QED
    BY <1>2, <1>3, <2>1, <2>2
<1>9. CASE CloseAll
  <2>1. LockInv'
    BY <1>9 DEF CloseAll, lockVars, Inv, LockInv
  <2>2. \A d \in Conns : PlaceKept(d) /\ Closed(d)'
    BY <1>9 DEF CloseAll, PlaceKept, Closed
  <2> QED
    BY <1>2, <1>9, <2>1, <2>2, CloseKeeps DEF CloseAll, lockVars
<1> QED
  BY <1>5, <1>6, <1>7, <1>8, <1>9 DEF Environment

LEMMA NextInv == Inv /\ [Next]_vars => Inv'
<1> SUFFICES ASSUME Inv, [Next]_vars PROVE Inv'
  OBVIOUS
<1>1. CASE UNCHANGED vars
  BY <1>1 DEF vars, connVars, lockVars, Inv, Types, LockInv, NoteInv, UpdatesForMailbox,
               QueueInv, Closed
<1> QED
  BY <1>1, ConnInv, NoteStepInv, EnvironmentInv DEF Next

\* The updates that are queued for a connection are about the mailbox it has
\* selected, whichever connections, goroutines of Notify and Shutdown work on
\* it: sendIdleUpdate and Notify queue with its bwMu held, SELECT drops the
\* queue, and so does closeMailbox.  It takes no lock at the end of a connection
\* and in ServeTLS, so that Notify can queue an update after it; a connection
\* that is left with one has been closed, and has no mailbox as long as it has it.
THEOREM UpdatesStayForMailbox == Spec => []UpdatesForMailbox
<1>1. Inv => UpdatesForMailbox
  BY DEF Inv
<1> QED
  BY <1>1, InitInv, NextInv, PTL DEF Spec

-----------------------------------------------------------------------------
(***************************************************************************)
(* Commands on the selected mailbox.                                       *)
(***************************************************************************)
Busy == {"lock"} \cup HasLock
Planned == {"plan", "send", "visit"}
OnlyDst(p) == p = <<>> \/ \E m : p = <<Stage("dstInfo", m, TRUE)>>

\* From the parser to its end, a command of BoxCmds has the mailbox that the
\* mode Selected vouches for, unless CloseAll takes it away; APPEND, which
\* needs none, has no step that reads it.
CmdOK(c) ==
  /\ mode[c] = "Selected" => mailbox[c] # Nil
  /\ server # "closed" /\ pc[c] \in Busy /\ cmd[c].name \in BoxCmds => mailbox[c] # Nil
  /\ pc[c] \in Planned => cmd[c].name \in BoxCmds \/ (cmd[c].name = "APPEND" /\ OnlyDst(plan[c]))
  /\ pc[c] \in {"send", "visit"} => plan[c] # <<>>
  /\ cmd[c].name = "SELECT" => cmd[c].box \in Boxes

AllCmdsOK == \A c \in Conns : CmdOK(c)

CmdInv == Types /\ AllCmdsOK /\ CommandsFindMailbox

Same(d) ==
  /\ pc'[d] = pc[d] /\ cmd'[d] = cmd[d] /\ plan'[d] = plan[d]
  /\ mode'[d] = mode[d] /\ mailbox'[d] = mailbox[d]

\* A step of a connection leaves the others' command, mode and mailbox alone.
LEMMA ConnOthers ==
  ASSUME Types, NEW c \in Conns, ConnStep(c), NEW d \in Conns, d # c
  PROVE  Same(d) /\ server' = server
<1> USE DEF Types, connVars, lockVars, Goto, Same
<1>1. CASE Register(c) \/ Lock(c) \/ Respond(c) \/ Login(c) \/ Select(c) \/ Idle(c)
  BY <1>1 DEF Register, Lock, Respond, Login, Select, Idle, Running, Finish
<1>2. CASE Logout(c)
  BY <1>2 DEF Logout, Finish, CloseMailbox
<1>3. CASE Append_(c) \/ Copy(c)
  BY <1>3 DEF Append_, Copy, Finish, Begin
<1>4. CASE Expunge(c)
  <2>1. PICK p : Begin(c, p)
    BY <1>4 DEF Expunge
  <2> QED
    BY <1>4, <2>1 DEF Expunge, Begin
<1>5. CASE Callback(c) \/ Commit(c) \/ TxnFails(c) \/ Info(c)
  BY <1>5 DEF Callback, Commit, TxnFails, Info
<1>6. CASE Done(c)
  BY <1>6 DEF Done, Finish, CloseMailbox
<1>7. CASE SendStart(c) \/ SendDone(c) \/ CommandPanics(c) \/ ExitConns(c) \/ ExitUser(c)
  BY <1>7 DEF SendStart, SendDone, CommandPanics, ExitConns, ExitUser
<1>8. CASE \E k \in Conns : SendTo(c, k)
  BY <1>8 DEF SendTo
<1> QED
  BY <1>1, <1>2, <1>3, <1>4, <1>5, <1>6, <1>7, <1>8 DEF ConnStep

LEMMA CloseOK ==
  ASSUME Types, NEW S, CloseMailbox(S), NEW c \in Conns, mode[c] = "Selected" => mailbox[c] # Nil
  PROVE  mode'[c] = "Selected" => mailbox'[c] # Nil
BY DEF Types, CloseMailbox

LEMMA TailOnlyDst ==
  ASSUME NEW p, OnlyDst(p), p # <<>>
  PROVE  OnlyDst(Tail(p)) /\ Head(p).op = "dstInfo"
<1>1. PICK m : p = <<Stage("dstInfo", m, TRUE)>>
  BY DEF OnlyDst
<1>2. Tail(p) = <<>> /\ Head(p) = Stage("dstInfo", m, TRUE)
  BY <1>1
<1> QED
  BY <1>2 DEF OnlyDst, Stage

LEMMA ConnOwn ==
  ASSUME Types, NEW c \in Conns, CmdOK(c), ConnStep(c)
  PROVE  CmdOK(c)'
<1> USE DEF Types, connVars, lockVars, Goto, CmdOK, Busy, HasLock, Planned, BoxCmds
<1>1. CASE Register(c) \/ Lock(c)
  BY <1>1 DEF Register, Lock
<1>2. CASE Respond(c) \/ Login(c) \/ Select(c)
  <2>1. pc'[c] = "ready" /\ cmd'[c] = NoCmd
    BY <1>2 DEF Respond, Login, Select, Finish
  <2>2. (mode[c] = "Selected" => mailbox[c] # Nil)'
    <3>1. CASE Select(c)
      BY <3>1, ImapServerAssumption DEF Select, Running, Nil
    <3>2. CASE Respond(c) \/ Login(c)
      BY <3>2 DEF Respond, Login
    <3> QED
      BY <1>2, <3>1, <3>2
  <2> QED
    BY <2>1, <2>2 DEF NoCmd
<1>3. CASE Idle(c)
  BY <1>3 DEF Idle, Running
<1>4. CASE Logout(c)
  <2>1. (mode[c] = "Selected" => mailbox[c] # Nil)' /\ pc'[c] = "ready" /\ cmd'[c] = NoCmd
    BY <1>4, CloseOK DEF Logout, Finish
  <2> QED
    BY <2>1 DEF NoCmd
<1>5. CASE Append_(c) \/ Copy(c)
  <2>1. /\ pc[c] = "run" /\ UNCHANGED <<mode, mailbox, server>>
        /\ cmd[c].name = "APPEND" \/ (cmd[c].name \in BoxCmds /\ mailbox[c] # Nil)
    BY <1>5 DEF Append_, Copy, Running
  <2>2. CASE Finish(c)
    <3>1. pc'[c] = "ready" /\ cmd'[c] = NoCmd
      BY <2>2 DEF Finish
    <3> QED
      BY <2>1, <3>1 DEF NoCmd
  <2>3. CASE Begin(c, <<Stage("dstInfo", cmd[c].box, TRUE)>>) /\ UNCHANGED cmd
    <3>1. pc'[c] = "plan" /\ OnlyDst(plan'[c])
      BY <2>3 DEF Begin, OnlyDst
    <3> QED
      BY <2>1, <2>3, <3>1
  <2> QED
    BY <1>5, <2>2, <2>3 DEF Append_, Copy
<1>6. CASE Expunge(c)
  <2>1. PICK p : Begin(c, p)
    BY <1>6 DEF Expunge
  <2> QED
    BY <1>6, <2>1 DEF Expunge, Begin
<1>7. CASE Callback(c)
  BY <1>7 DEF Callback, AtStage
<1>8. CASE Commit(c)
  BY <1>8, TailOnlyDst DEF Commit, AtStage
<1>9. CASE TxnFails(c)
  BY <1>9 DEF TxnFails, AtStage, OnlyDst
<1>10. CASE Info(c)
  <2>1. pc[c] = "plan" /\ plan[c] # <<>> /\ UNCHANGED <<cmd, mode, mailbox, server>>
    BY <1>10 DEF Info, AtStage
  <2>2. CASE pc' = [pc EXCEPT ![c] = "send"] /\ UNCHANGED plan
    BY <2>1, <2>2
  <2>3. CASE plan' = [plan EXCEPT ![c] = Tail(@)] /\ UNCHANGED pc
    BY <2>1, <2>3, TailOnlyDst
  <2> QED
    BY <1>10, <2>2, <2>3 DEF Info
<1>11. CASE Done(c)
  <2>1. (mode[c] = "Selected" => mailbox[c] # Nil)' /\ pc'[c] = "ready" /\ cmd'[c] = NoCmd
    BY <1>11, CloseOK DEF Done, Finish
  <2> QED
    BY <2>1 DEF NoCmd
<1>12. CASE SendStart(c)
  BY <1>12 DEF SendStart
<1>13. CASE SendDone(c)
  BY <1>13, TailOnlyDst DEF SendDone
<1>14. CASE CommandPanics(c) \/ ExitConns(c) \/ ExitUser(c)
  BY <1>14 DEF CommandPanics, ExitConns, ExitUser
<1>15. CASE \E k \in Conns : SendTo(c, k)
  BY <1>15 DEF SendTo
<1> QED
  BY <1>1, <1>2, <1>3, <1>4, <1>5, <1>6, <1>7, <1>8, <1>9, <1>10, <1>11, <1>12, <1>13, <1>14, <1>15 DEF ConnStep

\* The process ends by a command that finds no mailbox only after CloseAll.
LEMMA ConnCommands ==
  ASSUME CmdInv, NEW c \in Conns, crashed = "no", ConnStep(c)
  PROVE  CmdInv'
<1>1. Types' /\ CmdOK(c)'
  BY ConnTypes, ConnOwn DEF CmdInv, AllCmdsOK
<1>2. \A d \in Conns \ {c} : CmdOK(d)'
  BY ConnOthers DEF CmdInv, AllCmdsOK, CmdOK, Same
<1>3. CommandsFindMailbox'
  <2>1. CASE CommandPanics(c)
    <3>1. server' = server
      BY <2>1 DEF CommandPanics
    <3>2. pc[c] \in Busy /\ cmd[c].name \in BoxCmds
      BY <2>1, TailOnlyDst DEF CommandPanics, AtStage, CmdInv, AllCmdsOK, CmdOK, Busy, HasLock, Planned
    <3> QED
      BY <2>1, <3>1, <3>2 DEF CommandPanics, CommandsFindMailbox, CmdInv, AllCmdsOK, CmdOK
  <2>2. CASE crashed' = crashed
    BY <2>2 DEF CommandsFindMailbox
  <2> QED
    BY <2>1, <2>2 DEF ConnStep, Register, Lock, Respond, Login, Select, Idle, Logout, Append_, Copy,
       Expunge, Callback, Commit, TxnFails, Info, Done, SendStart, SendTo, SendDone, ExitConns, ExitUser
<1> QED
  BY <1>1, <1>2, <1>3 DEF CmdInv, AllCmdsOK, CmdOK

LEMMA NoteCommands ==
  ASSUME CmdInv, NEW n \in Notes, crashed = "no", NoteStep(n)
  PROVE  CmdInv'
<1>1. Types'
  BY NoteTypes DEF CmdInv
<1>2. UNCHANGED <<pc, cmd, plan, mode, mailbox, server>> /\ crashed' \in {crashed, "notify"}
  BY DEF NoteStep, NotifyStart, NotifyVisit, NotifyInfo, NotifyFails, NotifyPanics, NotifyDone, connVars
<1>3. AllCmdsOK'
  BY <1>2 DEF CmdInv, AllCmdsOK, CmdOK
<1> QED
  BY <1>1, <1>2, <1>3 DEF CmdInv, CommandsFindMailbox

LEMMA EnvironmentCommands ==
  ASSUME CmdInv, crashed = "no", Environment
  PROVE  CmdInv'
<1>1. Types'
  BY EnvironmentTypes DEF CmdInv
<1>2. crashed' = crashed
  BY DEF Environment, Accept, Parse, IdleDone, Exit, Deliver, Shutdown, Drained, CloseAll
<1> SUFFICES AllCmdsOK'
  BY <1>1, <1>2 DEF CmdInv, CommandsFindMailbox
<1>3. ASSUME NEW c \in Conns, server' = server, CmdOK(c)', \A d \in Conns \ {c} : Same(d)
      PROVE  AllCmdsOK'
  BY <1>3 DEF CmdInv, AllCmdsOK, CmdOK, Same
<1>4. ASSUME NEW c \in Conns, Accept(c) \/ Parse(c) \/ IdleDone(c) \/ Exit(c)
      PROVE  AllCmdsOK'
  <2> USE DEF CmdInv, AllCmdsOK, Types, Goto, connVars, lockVars
  <2>1. server' = server /\ \A d \in Conns \ {c} : Same(d)
    BY <1>4, ZenonT(60) DEF Accept, Parse, IdleDone, Exit, CloseMailbox, Same
  <2>2. CASE Accept(c)
    BY <2>2 DEF Accept, CmdOK, Busy, HasLock, Planned
  <2>3. CASE Parse(c)
    <3>1. PICK k \in CmdsIn(mode[c]) :
            \E m \in IF k \in {"SELECT", "APPEND", "COPY", "MOVE"} THEN Boxes ELSE {Nil} :
              cmd' = [cmd EXCEPT ![c] = [name |-> k, box |-> m]]
      BY <2>3 DEF Parse
    <3>2. cmd'[c].name = k /\ (k = "SELECT" => cmd'[c].box \in Boxes)
      BY <3>1
    <3>3. k \in BoxCmds => mode[c] = "Selected"
      BY DEF CmdsIn, BoxCmds, AnyCmds, AuthCmds, Modes
    <3> QED
      BY <2>3, <3>2, <3>3 DEF Parse, CmdOK, Planned
  <2>4. CASE IdleDone(c)
    BY <2>4 DEF IdleDone, CmdOK, Busy, HasLock, Planned, NoCmd
  <2>5. CASE Exit(c)
    <3>1. (mode[c] = "Selected" => mailbox[c] # Nil)'
      BY <2>5, CloseOK DEF Exit, CmdOK
    <3>2. pc'[c] = "exit" /\ cmd' = cmd /\ (cmd[c].name = "SELECT" => cmd[c].box \in Boxes)
      BY <2>5 DEF Exit, CmdOK
    <3> QED
      BY <1>3, <2>1, <3>1, <3>2 DEF CmdOK, Busy, HasLock, Planned
  <2> QED
    BY <1>3, <1>4, <2>1, <2>2, <2>3, <2>4, <2>5
<1>5. CASE (\E n \in Notes, m \in Boxes : Deliver(n, m)) \/ Shutdown \/ Drained
  <2>1. UNCHANGED <<pc, cmd, plan, mode, mailbox>> /\ (server = "closed" => server' = "closed")
    BY <1>5 DEF Deliver, Shutdown, Drained, connVars
  <2> SUFFICES ASSUME NEW d \in Conns PROVE CmdOK(d)'
    BY DEF AllCmdsOK, CmdOK
  <2>2. CmdOK(d)
    BY DEF CmdInv, AllCmdsOK
  <2> QED
    BY <2>1, <2>2 DEF CmdOK
<1>6. CASE CloseAll
  <2>1. \A d \in Conns : (mode[d] = "Selected" => mailbox[d] # Nil)'
    BY <1>6, CloseOK DEF CloseAll, CmdInv, AllCmdsOK, CmdOK
  <2> SUFFICES ASSUME NEW d \in Conns PROVE CmdOK(d)'
    BY DEF AllCmdsOK, CmdOK
  <2>2. CmdOK(d) /\ UNCHANGED <<pc, cmd, plan>> /\ server' = "closed"
    BY <1>6 DEF CloseAll, CmdInv, AllCmdsOK
  <2> QED
    BY <2>1, <2>2 DEF CmdOK
<1> QED
  BY <1>4, <1>5, <1>6 DEF Environment

LEMMA NextCommands == CmdInv /\ [Next]_vars => CmdInv'
<1> SUFFICES ASSUME CmdInv, [Next]_vars PROVE CmdInv'
  OBVIOUS
<1>1. CASE UNCHANGED vars
  <2>1. Types'
    BY <1>1 DEF vars, connVars, lockVars, CmdInv, Types
  <2>2. AllCmdsOK'
    BY <1>1 DEF vars, connVars, CmdInv, AllCmdsOK, CmdOK
  <2> QED
    BY <1>1, <2>1, <2>2 DEF vars, CmdInv, CommandsFindMailbox
<1> QED
  BY <1>1, ConnCommands, NoteCommands, EnvironmentCommands DEF Next

\* No command ends the process for want of a mailbox while the server serves
\* or drains: the check of the parser, made before bwMu is taken, still holds
\* when the handler reads c.mailbox, once and again after each Info and each
\* callback, as nothing but the connection itself and CloseAll takes it away.
THEOREM CommandsKeepMailbox == Spec => []CommandsFindMailbox
<1>1. Init => CmdInv
  <2>1. Init => Types
    BY InitInv DEF Inv
  <2>2. Init => AllCmdsOK
    BY DEF Init, AllCmdsOK, CmdOK, Busy, HasLock, Planned, NoCmd, BoxCmds
  <2> QED
    BY <2>1, <2>2 DEF Init, CmdInv, CommandsFindMailbox
<1>2. CmdInv => CommandsFindMailbox
  BY DEF CmdInv
<1> QED
  BY <1>1, <1>2, NextCommands, PTL DEF Spec
-----------------------------------------------------------------------------
(***************************************************************************)
(* Types, locks and transactions.                                          *)
(***************************************************************************)
Ops == {"expunge", "commit", "info", "dstInfo"}
StageRecord == [op : Ops, box : Boxes \cup {Nil}, self : BOOLEAN]

HasCommit(p) == \E i \in DOMAIN p : p[i].op = "commit"

\* A handler commits once, after the callbacks of its messages.
PlanOK(p) ==
  /\ p \in Seq(StageRecord)
  /\ \A i \in DOMAIN p : p[i].op = "expunge" => \E j \in DOMAIN p : i < j /\ p[j].op = "commit"
  /\ \A i, j \in DOMAIN p : p[i].op = "commit" /\ p[j].op = "commit" => i = j

MoreTypes ==
  /\ idleStarted \in [Conns -> BOOLEAN] /\ idling \in [Conns -> BOOLEAN]
  /\ updates \in [Conns -> SUBSET ({"EXISTS", "EXPUNGE"} \X Boxes)]
  /\ todo \in [Threads -> Seq(Conns)]
  /\ conns \subseteq Conns /\ userConns \subseteq Conns /\ IsFiniteSet(userConns)
  /\ connsMu \in Conns \cup {Free} /\ userMu \in Threads \cup {Free} /\ db \in Conns \cup {Free}
  /\ server \in {"serving", "draining", "closed"} /\ crashed \in {"no", "command", "notify"}
  /\ owed \in [Conns -> SUBSET Notes]

\* Whoever has a lock, or the transaction, is where the code has it.
HoldsOK(c) ==
  /\ userMu = c <=> pc[c] = "visit"
  /\ connsMu = c <=> pc[c] = "exitUser"
  /\ db = c <=> HasCommit(plan[c])

\* Notify asks for Info with the connection still first in its loop.
NoteHolds(n) ==
  /\ userMu = n <=> note[n].pc \in {"visit", "info"}
  /\ note[n].pc = "info" => todo[n] # <<>> /\ note[n].at = Head(todo[n])

\* While an update is sent, its stage is the first of the plan.
PlansOK ==
  \A c \in Conns :
    /\ PlanOK(plan[c])
    /\ pc[c] \in {"send", "visit"} => plan[c] # <<>> /\ Head(plan[c]).op # "commit"

HoldInv ==
  /\ MoreTypes /\ PlansOK
  /\ \A c \in Conns : HoldsOK(c)
  /\ \A n \in Notes : NoteHolds(n)

LEMMA PlanTail ==
  ASSUME NEW p, PlanOK(p), p # <<>>
  PROVE  /\ PlanOK(Tail(p))
         /\ Head(p).op \in {"expunge", "commit"} => HasCommit(p)
         /\ Head(p).op # "commit" => (HasCommit(Tail(p)) <=> HasCommit(p))
         /\ Head(p).op = "commit" => ~HasCommit(Tail(p))
<1> DEFINE q == Tail(p)
<1>1. p \in Seq(StageRecord) /\ Len(p) \in Nat /\ Len(p) > 0 /\ DOMAIN p = 1..Len(p) /\ Head(p) = p[1]
  BY DEF PlanOK
<1>2. q \in Seq(StageRecord) /\ Len(q) = Len(p) - 1 /\ DOMAIN q = 1..(Len(p) - 1)
  BY <1>1
<1>3. \A i \in DOMAIN q : q[i] = p[i + 1] /\ i + 1 \in DOMAIN p /\ i \in Nat
  BY <1>1, <1>2
<1>4. \A j \in DOMAIN p : j # 1 => j - 1 \in DOMAIN q /\ q[j - 1] = p[j] /\ j \in Nat
  BY <1>1, <1>2
<1>5. 1 \in DOMAIN p /\ \A j \in DOMAIN p : j \in Nat
  BY <1>1
<1> HIDE DEF q
<1>6. PlanOK(q)
  <2>1. ASSUME NEW i \in DOMAIN q, q[i].op = "expunge"
        PROVE  \E j \in DOMAIN q : i < j /\ q[j].op = "commit"
    <3>1. PICK j \in DOMAIN p : i + 1 < j /\ p[j].op = "commit"
      BY <1>3, <2>1 DEF PlanOK
    <3>2. i \in Nat /\ j \in Nat /\ j # 1 /\ i < j - 1
      BY <1>3, <1>5, <3>1
    <3> QED
      BY <1>4, <3>1, <3>2
  <2>2. ASSUME NEW i \in DOMAIN q, NEW j \in DOMAIN q, q[i].op = "commit", q[j].op = "commit"
        PROVE  i = j
    <3>1. i + 1 = j + 1
      BY <1>3, <2>2 DEF PlanOK
    <3> QED
      BY <1>3, <3>1
  <2> QED
    BY <1>2, <2>1, <2>2 DEF PlanOK
<1>7. Head(p).op \in {"expunge", "commit"} => HasCommit(p)
  BY <1>1, <1>5 DEF PlanOK, HasCommit
<1>8. HasCommit(q) => HasCommit(p)
  BY <1>3 DEF HasCommit
<1>9. Head(p).op # "commit" /\ HasCommit(p) => HasCommit(q)
  BY <1>1, <1>4 DEF HasCommit
<1>10. Head(p).op = "commit" => ~HasCommit(q)
  <2> SUFFICES ASSUME Head(p).op = "commit", NEW i \in DOMAIN q, q[i].op = "commit" PROVE FALSE
    BY DEF HasCommit
  <2>1. i + 1 = 1 /\ i \in 1..(Len(p) - 1)
    BY <1>1, <1>2, <1>3, <1>5 DEF PlanOK
  <2> QED
    BY <1>1, <2>1
<1> QED
  BY <1>6, <1>7, <1>8, <1>9, <1>10 DEF q

LEMMA PlanEmpty == PlanOK(<<>>) /\ ~HasCommit(<<>>)
BY DEF PlanOK, HasCommit

LEMMA PlanOne ==
  ASSUME NEW m \in Boxes \cup {Nil}
  PROVE  LET p == <<Stage("dstInfo", m, TRUE)>>
         IN  PlanOK(p) /\ ~HasCommit(p) /\ p # <<>>
<1> DEFINE s == Stage("dstInfo", m, TRUE)
<1>1. s \in StageRecord /\ s.op = "dstInfo"
  BY DEF Stage, StageRecord, Ops
<1> HIDE DEF s
<1>2. <<s>> \in Seq(StageRecord) /\ DOMAIN <<s>> = {1} /\ <<s>>[1] = s
  BY <1>1
<1>3. PlanOK(<<s>>) /\ ~HasCommit(<<s>>)
  BY <1>1, <1>2 DEF PlanOK, HasCommit
<1> QED
  BY <1>3 DEF s

\* k callbacks, the commit, and at most two updates after it.
LEMMA PlanExpunge ==
  ASSUME NEW k \in Nat, NEW e \in StageRecord, NEW t \in StageRecord, NEW r \in Seq(StageRecord),
         e.op = "expunge", t.op = "commit",
         \A i \in DOMAIN r : r[i].op \notin {"expunge", "commit"}
  PROVE  LET p == [i \in 1..k |-> e] \o <<t>> \o r
         IN  PlanOK(p) /\ HasCommit(p)
<1> DEFINE a == [i \in 1..k |-> e]
           b == a \o <<t>>
           p == b \o r
<1>1. a \in Seq(StageRecord) /\ Len(a) = k /\ \A i \in 1..k : a[i] = e
  OBVIOUS
<1> HIDE DEF a
<1>2. /\ b \in Seq(StageRecord) /\ Len(b) = k + 1 /\ b[k + 1] = t
      /\ \A i \in 1..k : b[i] = e
  <2> DEFINE o == <<t>>
  <2>1. o \in Seq(StageRecord) /\ Len(o) = 1 /\ o[1] = t
    OBVIOUS
  <2> HIDE DEF o
  <2>2. /\ a \o o \in Seq(StageRecord) /\ Len(a \o o) = Len(a) + Len(o)
        /\ \A i \in 1..Len(a) + Len(o) :
             (a \o o)[i] = IF i <= Len(a) THEN a[i] ELSE o[i - Len(a)]
    BY <1>1, <2>1, ConcatProperties
  <2>3. (a \o o)[k + 1] = o[1] /\ \A i \in 1..k : (a \o o)[i] = a[i]
    BY <1>1, <2>1, <2>2
  <2> QED
    BY <1>1, <2>1, <2>2, <2>3 DEF o
<1> HIDE DEF b
<1>3. /\ p \in Seq(StageRecord) /\ Len(p) = k + 1 + Len(r) /\ DOMAIN p = 1..(k + 1 + Len(r))
      /\ \A i \in 1..(k + 1) : p[i] = b[i]
      /\ \A i \in 1..Len(r) : p[k + 1 + i] = r[i]
  BY <1>2
<1>4. Len(r) \in Nat /\ DOMAIN r = 1..Len(r)
  OBVIOUS
<1> HIDE DEF p
<1>5. p[k + 1].op = "commit" /\ k + 1 \in DOMAIN p
  BY <1>2, <1>3, <1>4
<1>6. \A i \in DOMAIN p : i > k + 1 => p[i].op \notin {"expunge", "commit"}
  <2> SUFFICES ASSUME NEW i \in DOMAIN p, i > k + 1 PROVE p[i].op \notin {"expunge", "commit"}
    OBVIOUS
  <2>1. i - (k + 1) \in 1..Len(r) /\ k + 1 + (i - (k + 1)) = i
    BY <1>3, <1>4
  <2>2. p[i] = r[i - (k + 1)]
    BY <1>3, <2>1
  <2> QED
    BY <1>4, <2>1, <2>2
<1>7. \A i \in DOMAIN p : i <= k => p[i].op = "expunge"
  <2> SUFFICES ASSUME NEW i \in DOMAIN p, i <= k PROVE p[i].op = "expunge"
    OBVIOUS
  <2>1. i \in 1..k /\ i \in 1..(k + 1)
    BY <1>3, <1>4
  <2> QED
    BY <1>2, <1>3, <2>1
<1>8. \A i \in DOMAIN p : i \in Nat
  BY <1>3, <1>4
<1>9. PlanOK(p)
  <2>1. \A i \in DOMAIN p : p[i].op = "expunge" => i < k + 1
    BY <1>5, <1>6, <1>8
  <2>2. \A i \in DOMAIN p : p[i].op = "commit" => i = k + 1
    BY <1>5, <1>6, <1>7, <1>8
  <2> QED
    BY <1>3, <1>5, <2>1, <2>2 DEF PlanOK
<1>10. HasCommit(p)
  BY <1>5 DEF HasCommit
<1> QED
  BY <1>9, <1>10 DEF p, b, a

\* A loop over user.conns takes a sequence of connections, with all of them.
LEMMA OrdersSeq ==
  ASSUME NEW S, IsFiniteSet(S), NEW q \in Orders(S)
  PROVE  q \in Seq(S) /\ \A x \in S : \E i \in DOMAIN q : q[i] = x
<1> DEFINE k == Cardinality(S)
<1>1. k \in Nat
  BY FS_CardinalityType
<1>2. q \in [1..k -> S] /\ \A i, j \in 1..k : q[i] = q[j] => i = j
  BY DEF Orders
<1>3. Cardinality(1..k) = k /\ IsFiniteSet(1..k)
  <2>1. 1..k = {} \/ k >= 1
    BY <1>1
  <2> HIDE DEF k
  <2> QED
    BY <1>1, FS_Interval
<1>4. ASSUME NEW x \in S, \A i \in 1..k : q[i] # x
      PROVE  FALSE
  <2>1. IsFiniteSet(S \ {x}) /\ Cardinality(S \ {x}) = k - 1
    BY FS_RemoveElement
  <2>2. q \in [1..k -> S \ {x}]
    BY <1>2, <1>4
  <2>3. \E i, j \in 1..k : i # j /\ q[i] = q[j]
    <3>1. Cardinality(S \ {x}) < Cardinality(1..k)
      BY <1>1, <1>3, <2>1
    <3> HIDE DEF k
    <3> QED
      BY <1>3, <2>1, <2>2, <3>1, FS_PigeonHole
  <2> QED
    BY <1>2, <2>3
<1> HIDE DEF k
<1> QED
  BY <1>1, <1>2, <1>4

\* The updates that sendIdleUpdate and Notify queue have their type, as the
\* mailbox they are about is the one that somebody has selected.
LEMMA QueueTypes ==
  ASSUME Types, MoreTypes, NEW d \in Conns, NEW y \in {"EXISTS", "EXPUNGE"}, NEW m \in Boxes
  PROVE  /\ Queue(d, <<y, m>>) \in [Conns -> SUBSET ({"EXISTS", "EXPUNGE"} \X Boxes)]
         /\ [updates EXCEPT ![d] = @ \cup {<<y, m>>}] \in [Conns -> SUBSET ({"EXISTS", "EXPUNGE"} \X Boxes)]
<1> DEFINE u == <<y, m>>
           U == {"EXISTS", "EXPUNGE"} \X Boxes
<1>1. u \in U /\ updates \in [Conns -> SUBSET U]
  BY DEF MoreTypes
<1> HIDE DEF u, U
<1>2. Queue(d, u) \in [Conns -> SUBSET U] /\ [updates EXCEPT ![d] = @ \cup {u}] \in [Conns -> SUBSET U]
  BY <1>1 DEF Queue
<1> QED
  BY <1>2 DEF u, U

LEMMA SentTypes ==
  ASSUME Types, MoreTypes, NEW c \in Conns, NEW d \in Conns, SendTo(c, d)
  PROVE  updates' \in [Conns -> SUBSET ({"EXISTS", "EXPUNGE"} \X Boxes)]
<1> DEFINE s == Head(plan[c])
           y == IF s.op = "expunge" THEN "EXPUNGE" ELSE "EXISTS"
           m == s.box
           new == IF ~Listens(d, m) \/ (d = c /\ ~s.self) THEN updates
                  ELSE IF d = c THEN [updates EXCEPT ![d] = @ \cup {<<y, m>>}]
                  ELSE Queue(d, <<y, m>>)
<1>1. updates' = new
  BY DEF SendTo
<1>2. y \in {"EXISTS", "EXPUNGE"} /\ (Listens(d, m) => m \in Boxes)
  BY DEF Listens, Types
<1> HIDE DEF s, y, m
<1>3. \/ new = updates
      \/ Listens(d, m) /\ new = [updates EXCEPT ![d] = @ \cup {<<y, m>>}]
      \/ Listens(d, m) /\ new = Queue(d, <<y, m>>)
  OBVIOUS
<1> HIDE DEF new
<1> QED
  BY <1>1, <1>2, <1>3, QueueTypes DEF MoreTypes

LEMMA CloseMoreTypes ==
  ASSUME MoreTypes, NEW S, CloseMailbox(S)
  PROVE  /\ idleStarted' \in [Conns -> BOOLEAN] /\ idling' \in [Conns -> BOOLEAN]
         /\ updates' \in [Conns -> SUBSET ({"EXISTS", "EXPUNGE"} \X Boxes)]
         /\ owed' \in [Conns -> SUBSET Notes]
BY DEF MoreTypes, CloseMailbox

LEMMA ConnMoreTypes ==
  ASSUME Types, MoreTypes, NEW c \in Conns, ConnStep(c)
  PROVE  MoreTypes'
<1> USE DEF MoreTypes, connVars, lockVars, Threads
<1>1. CASE Register(c) \/ Respond(c) \/ Login(c)
  <2>1. IsFiniteSet(userConns \cup {c})
    BY FS_AddElement
  <2> QED
    BY <1>1, <2>1 DEF Register, Respond, Login
<1>2. CASE Lock(c)
  BY <1>2 DEF Lock
<1>3. CASE Select(c)
  BY <1>3 DEF Select
<1>4. CASE Idle(c)
  BY <1>4 DEF Idle
<1>5. CASE Logout(c)
  BY <1>5, CloseMoreTypes DEF Logout
<1>6. CASE Append_(c) \/ Copy(c)
  BY <1>6 DEF Append_, Copy
<1>7. CASE Expunge(c)
  BY <1>7 DEF Expunge
<1>8. CASE Callback(c) \/ Commit(c) \/ TxnFails(c) \/ Info(c)
  BY <1>8 DEF Callback, Commit, TxnFails, Info
<1>9. CASE Done(c)
  BY <1>9, CloseMoreTypes DEF Done
<1>10. CASE SendStart(c)
  <2>1. PICK q \in Orders(userConns) : todo' = [todo EXCEPT ![c] = q]
    BY <1>10 DEF SendStart
  <2>2. q \in Seq(Conns)
    BY OrdersSeq, IsFiniteSet(userConns), userConns \subseteq Conns
  <2>3. todo' \in [Threads -> Seq(Conns)]
    BY <2>1, <2>2
  <2> QED
    BY <1>10, <2>3 DEF SendStart
<1>11. ASSUME NEW d \in Conns, SendTo(c, d)
       PROVE  MoreTypes'
  <2>1. updates' \in [Conns -> SUBSET ({"EXISTS", "EXPUNGE"} \X Boxes)]
    BY <1>11, SentTypes
  <2>2. todo' \in [Threads -> Seq(Conns)]
    BY <1>11 DEF SendTo
  <2> QED
    BY <1>11, <2>1, <2>2 DEF SendTo
<1>12. CASE SendDone(c)
  BY <1>12 DEF SendDone
<1>13. CASE CommandPanics(c) \/ ExitConns(c) \/ ExitUser(c)
  <2>1. idleStarted' \in [Conns -> BOOLEAN] /\ IsFiniteSet(userConns \ {c})
    BY <1>13, FS_RemoveElement DEF CommandPanics, ExitConns, ExitUser
  <2> QED
    BY <1>13, <2>1 DEF CommandPanics, ExitConns, ExitUser
<1> QED
  BY <1>1, <1>2, <1>3, <1>4, <1>5, <1>6, <1>7, <1>8, <1>9, <1>10, <1>11, <1>12, <1>13 DEF ConnStep

LEMMA TailTypes ==
  ASSUME MoreTypes, NEW t \in Threads, todo[t] # <<>>, todo' = [todo EXCEPT ![t] = Tail(@)]
  PROVE  todo' \in [Threads -> Seq(Conns)]
BY DEF MoreTypes

LEMMA NoteMoreTypes ==
  ASSUME Inv, HoldInv, NEW n \in Notes, NoteStep(n)
  PROVE  MoreTypes'
<1> MoreTypes /\ n \in Threads
  BY DEF HoldInv, Threads
<1> USE DEF MoreTypes, connVars
<1>1. CASE NotifyStart(n)
  <2>1. PICK q \in Orders(userConns) : todo' = [todo EXCEPT ![n] = q]
    BY <1>1 DEF NotifyStart
  <2>2. q \in Seq(Conns)
    BY OrdersSeq, IsFiniteSet(userConns), userConns \subseteq Conns
  <2>3. todo' \in [Threads -> Seq(Conns)]
    BY <2>1, <2>2
  <2> QED
    BY <1>1, <2>3 DEF NotifyStart
<1>2. ASSUME NEW d \in Conns, NotifyVisit(n, d)
      PROVE  MoreTypes'
  <2>1. todo' \in [Threads -> Seq(Conns)]
    <3>1. CASE todo' = [todo EXCEPT ![n] = Tail(@)]
      BY <1>2, <3>1, TailTypes DEF NotifyVisit
    <3> QED
      BY <1>2, <3>1 DEF NotifyVisit
  <2>2. updates' \in [Conns -> SUBSET ({"EXISTS", "EXPUNGE"} \X Boxes)]
    <3>1. CASE Listens(d, note[n].box) /\ updates' = Queue(d, <<"EXISTS", note[n].box>>)
      <4>1. PICK m \in Boxes : m = note[n].box
        BY <3>1 DEF Listens, Inv, Types
      <4> QED
        BY <3>1, <4>1, QueueTypes DEF Inv
    <3> QED
      BY <1>2, <3>1 DEF NotifyVisit
  <2>3. owed' \in [Conns -> SUBSET Notes]
    <3>1. owed' = owed \/ owed' = [owed EXCEPT ![d] = @ \ {n}]
      BY <1>2 DEF NotifyVisit
    <3> QED
      BY <3>1
  <2> QED
    BY <1>2, <2>1, <2>2, <2>3 DEF NotifyVisit
<1>3. CASE NotifyInfo(n)
  <2>1. todo' \in [Threads -> Seq(Conns)]
    BY <1>3, TailTypes DEF NotifyInfo, HoldInv, NoteHolds
  <2>2. note[n].at \in Conns /\ note[n].box \in Boxes
    BY <1>3 DEF NotifyInfo, Inv, NoteInv
  <2>3. updates' \in [Conns -> SUBSET ({"EXISTS", "EXPUNGE"} \X Boxes)]
    <3>1. updates' = Queue(note[n].at, <<"EXISTS", note[n].box>>)
      BY <1>3 DEF NotifyInfo
    <3> QED
      BY <2>2, <3>1, QueueTypes DEF Inv
  <2>4. owed' \in [Conns -> SUBSET Notes]
    BY <1>3 DEF NotifyInfo
  <2> QED
    BY <1>3, <2>1, <2>3, <2>4 DEF NotifyInfo
<1>4. CASE NotifyFails(n)
  <2>0. PICK q \in Seq(Conns) : q = <<>>
    <3>1. <<>> \in Seq(Conns)
      OBVIOUS
    <3> QED
      BY <3>1, Zenon
  <2>1. todo' = [todo EXCEPT ![n] = q]
    BY <1>4, <2>0 DEF NotifyFails
  <2>2. todo' \in [Threads -> Seq(Conns)]
    BY <2>1
  <2> QED
    BY <1>4, <2>2 DEF NotifyFails, Threads
<1>5. CASE NotifyDone(n)
  BY <1>5 DEF NotifyDone
<1>6. CASE NotifyPanics(n)
  BY <1>6 DEF NotifyPanics, lockVars
<1> QED
  BY <1>1, <1>2, <1>3, <1>4, <1>5, <1>6 DEF NoteStep

LEMMA EnvironmentMoreTypes ==
  ASSUME Types, MoreTypes, Environment
  PROVE  MoreTypes'
<1> USE DEF MoreTypes, connVars, lockVars
<1>1. ASSUME NEW c \in Conns, Accept(c) \/ Parse(c) \/ IdleDone(c)
      PROVE  MoreTypes'
  BY <1>1 DEF Accept, Parse, IdleDone
<1>2. ASSUME NEW c \in Conns, Exit(c)
      PROVE  MoreTypes'
  BY <1>2, CloseMoreTypes DEF Exit
<1>3. ASSUME NEW n \in Notes, NEW m \in Boxes, Deliver(n, m)
      PROVE  MoreTypes'
  <2>1. owed' \in [Conns -> SUBSET Notes]
    BY <1>3 DEF Deliver
  <2> QED
    BY <1>3, <2>1 DEF Deliver
<1>4. CASE Shutdown \/ Drained
  BY <1>4 DEF Shutdown, Drained
<1>5. CASE CloseAll
  BY <1>5, CloseMoreTypes DEF CloseAll
<1> QED
  BY <1>1, <1>2, <1>3, <1>4, <1>5 DEF Environment

\* A step of c takes a lock that is free, or gives back one that c has.
Handed(l, l2, t) == l2 = l \/ (l = Free /\ l2 = t) \/ (l = t /\ l2 = Free)

\* The end of a command, and its first stages.
LEMMA FinishHolds ==
  ASSUME Types, NEW c \in Conns, Finish(c), HoldsOK(c), pc[c] \in {"run", "plan"},
         plan' = plan, UNCHANGED <<userMu, connsMu, db>>
  PROVE  HoldsOK(c)' /\ pc'[c] = "ready"
BY DEF Types, Finish, Goto, HoldsOK

LEMMA BeginHolds ==
  ASSUME Types, NEW c \in Conns, HoldsOK(c), pc[c] = "run", NEW p, Begin(c, p),
         UNCHANGED <<userMu, connsMu>>, db' = c <=> HasCommit(p)
  PROVE  HoldsOK(c)' /\ pc'[c] = "plan" /\ plan'[c] = p
BY DEF Types, Begin, Goto, HoldsOK

ExpungePlan(k, m, r) ==
  [i \in 1..k |-> Stage("expunge", m, FALSE)] \o <<Stage("commit", Nil, FALSE)>> \o r

LEMMA ExpungePlans ==
  ASSUME Types, NEW c \in Conns, Expunge(c)
  PROVE  \E p : Begin(c, p) /\ PlanOK(p) /\ HasCommit(p)
<1> DEFINE m == mailbox[c]
           R(k) == CASE cmd[c].name = "EXPUNGE" -> <<Stage("info", mailbox[c], TRUE)>>
                     [] cmd[c].name = "CLOSE"   -> IF k = 0 THEN <<>> ELSE <<Stage("info", mailbox[c], FALSE)>>
                     [] cmd[c].name = "MOVE"    -> <<Stage("info", mailbox[c], TRUE), Stage("dstInfo", cmd[c].box, TRUE)>>
<1>1. PICK k \in 0..MaxExpunge : Begin(c, ExpungePlan(k, m, R(k)))
  BY DEF Expunge, ExpungePlan
<1>2. k \in Nat
  BY ImapServerAssumption
<1>3. m \in Boxes \cup {Nil} /\ cmd[c].box \in Boxes \cup {Nil}
  BY DEF Types
<1>4. \A y \in {"info", "dstInfo"}, f \in BOOLEAN, b \in Boxes \cup {Nil} :
        Stage(y, b, f) \in StageRecord /\ Stage(y, b, f).op = y
  BY DEF Stage, StageRecord, Ops
<1>5. ASSUME NEW f \in BOOLEAN, NEW b \in Boxes \cup {Nil}
      PROVE  LET r == <<Stage("info", b, f)>>
             IN  r \in Seq(StageRecord) /\ \A i \in DOMAIN r : r[i].op = "info"
  BY <1>4
<1>6. ASSUME NEW b \in Boxes \cup {Nil}, NEW g \in Boxes \cup {Nil}
      PROVE  LET r == <<Stage("info", b, TRUE), Stage("dstInfo", g, TRUE)>>
             IN  r \in Seq(StageRecord) /\ \A i \in DOMAIN r : r[i].op \in {"info", "dstInfo"}
  <2> DEFINE x == Stage("info", b, TRUE)
             y == Stage("dstInfo", g, TRUE)
  <2>1. x \in StageRecord /\ y \in StageRecord /\ x.op = "info" /\ y.op = "dstInfo"
    BY <1>4
  <2> HIDE DEF x, y
  <2>2. DOMAIN <<x, y>> = 1..2 /\ <<x, y>>[1] = x /\ <<x, y>>[2] = y /\ <<x, y>> \in Seq(StageRecord)
    BY <2>1
  <2>3. \A i \in 1..2 : i = 1 \/ i = 2
    OBVIOUS
  <2>4. \A i \in DOMAIN <<x, y>> : <<x, y>>[i].op \in {"info", "dstInfo"}
    BY <2>1, <2>2, <2>3
  <2> QED
    BY <2>2, <2>4 DEF x, y
<1>7. cmd[c].name \in {"EXPUNGE", "CLOSE", "MOVE"}
  BY DEF Expunge
<1>8. R(k) \in Seq(StageRecord) /\ \A i \in DOMAIN R(k) : R(k)[i].op \in {"info", "dstInfo"}
  <2>1. CASE cmd[c].name = "EXPUNGE"
    BY <1>3, <1>5, <2>1
  <2>2. CASE cmd[c].name = "CLOSE"
    <3>1. CASE k = 0
      BY <2>2, <3>1
    <3>2. CASE k # 0
      BY <1>3, <1>5, <2>2, <3>2
    <3> QED
      BY <3>1, <3>2
  <2>3. CASE cmd[c].name = "MOVE"
    BY <1>3, <1>6, <2>3
  <2> QED
    BY <1>7, <2>1, <2>2, <2>3
<1>9. /\ Stage("expunge", m, FALSE) \in StageRecord /\ Stage("expunge", m, FALSE).op = "expunge"
      /\ Stage("commit", Nil, FALSE) \in StageRecord /\ Stage("commit", Nil, FALSE).op = "commit"
  BY <1>3 DEF Stage, StageRecord, Ops
<1> HIDE DEF R, m
<1>10. PlanOK(ExpungePlan(k, m, R(k))) /\ HasCommit(ExpungePlan(k, m, R(k)))
  BY <1>2, <1>8, <1>9, PlanExpunge DEF ExpungePlan
<1> QED
  BY <1>1, <1>10

\* What a connection does to the locks, to the transaction and to its plan.
LEMMA ConnHolds ==
  ASSUME Inv, HoldInv, NEW c \in Conns, ConnStep(c)
  PROVE  /\ HoldsOK(c)' /\ PlanOK(plan[c])'
         /\ (pc[c] \in {"send", "visit"} => plan[c] # <<>> /\ Head(plan[c]).op # "commit")'
         /\ Handed(userMu, userMu', c) /\ Handed(connsMu, connsMu', c) /\ Handed(db, db', c)
         /\ \A t \in Threads \ {c} : todo'[t] = todo[t]
<1> DEFINE Goal == /\ HoldsOK(c)' /\ PlanOK(plan[c])'
                   /\ (pc[c] \in {"send", "visit"} => plan[c] # <<>> /\ Head(plan[c]).op # "commit")'
                   /\ Handed(userMu, userMu', c) /\ Handed(connsMu, connsMu', c) /\ Handed(db, db', c)
                   /\ \A t \in Threads \ {c} : todo'[t] = todo[t]
<1>0. HoldsOK(c) /\ PlanOK(plan[c])
  BY DEF HoldInv, PlansOK
<1>a. ASSUME UNCHANGED <<plan, userMu, connsMu, db, todo>>,
             pc'[c] \notin {"send", "visit", "exitUser"}, pc[c] \notin {"visit", "exitUser"}
      PROVE  Goal
  BY <1>0, <1>a DEF HoldsOK, Handed
<1>b. c # Free
  BY Distinct
<1>t. MoreTypes /\ Types
  BY DEF HoldInv, Inv
<1>1. CASE Register(c) \/ Lock(c) \/ Respond(c) \/ Login(c) \/ Select(c) \/ Idle(c)
  <2>1. pc'[c] \in {"ready", "run", "idle"} /\ pc[c] \in {"wait", "lock", "run"}
    BY <1>1, <1>t DEF Register, Lock, Respond, Login, Select, Idle, Running, Finish, Goto, Types
  <2> QED
    BY <1>1, <1>a, <2>1 DEF Register, Lock, Respond, Login, Select, Idle, lockVars
<1>2. CASE Logout(c) \/ Done(c)
  <2>1. pc'[c] = "ready" /\ pc[c] \in {"run", "plan"}
    BY <1>2, <1>t DEF Logout, Done, Running, Finish, Goto, Types
  <2> QED
    BY <1>2, <1>a, <2>1 DEF Logout, Done
<1>3. CASE Append_(c) \/ Copy(c)
  <2>0. UNCHANGED <<userMu, connsMu, db, todo>> /\ pc[c] = "run" /\ db = Free
    BY <1>3 DEF Append_, Copy, Running
  <2>1. CASE Finish(c) /\ UNCHANGED plan
    <3>1. pc'[c] = "ready"
      BY <1>t, <2>1 DEF Finish, Goto, Types
    <3> QED
      BY <1>a, <2>0, <2>1, <3>1
  <2>2. CASE Begin(c, <<Stage("dstInfo", cmd[c].box, TRUE)>>)
    <3>1. cmd[c].box \in Boxes \cup {Nil}
      BY <1>t DEF Types
    <3>2. PICK p : Begin(c, p) /\ PlanOK(p) /\ ~HasCommit(p)
      BY <2>2, <3>1, PlanOne
    <3>3. HoldsOK(c)' /\ pc'[c] = "plan" /\ plan'[c] = p
      BY <1>0, <1>b, <1>t, <2>0, <3>2, BeginHolds
    <3> QED
      BY <2>0, <3>2, <3>3 DEF Handed
  <2> QED
    BY <1>3, <2>1, <2>2 DEF Append_, Copy
<1>4. CASE Expunge(c)
  <2>1. UNCHANGED <<userMu, connsMu, todo>> /\ pc[c] = "run" /\ db = Free /\ db' = c
    BY <1>4 DEF Expunge
  <2>2. PICK p : Begin(c, p) /\ PlanOK(p) /\ HasCommit(p)
    BY <1>4, <1>t, ExpungePlans
  <2>3. HoldsOK(c)' /\ pc'[c] = "plan" /\ plan'[c] = p
    BY <1>0, <1>t, <2>1, <2>2, BeginHolds
  <2> QED
    BY <2>1, <2>2, <2>3 DEF Handed
<1>5. CASE Callback(c)
  <2>1. pc[c] = "plan" /\ pc'[c] = "send" /\ plan[c] # <<>> /\ Head(plan[c]).op = "expunge"
    BY <1>5, <1>t DEF Callback, AtStage, Goto, Types
  <2> QED
    BY <1>0, <1>5, <2>1 DEF Callback, lockVars, HoldsOK, Handed
<1>6. CASE Commit(c)
  <2>1. pc[c] = "plan" /\ pc' = pc /\ plan[c] # <<>> /\ Head(plan[c]).op = "commit"
    BY <1>6 DEF Commit, AtStage
  <2>2. plan'[c] = Tail(plan[c])
    BY <1>6, <1>t DEF Commit, Types
  <2>3. db = c /\ db' = Free /\ PlanOK(plan'[c]) /\ ~HasCommit(plan'[c])
    BY <1>0, <1>6, <2>1, <2>2, PlanTail DEF Commit, HoldsOK
  <2> QED
    BY <1>0, <1>6, <1>b, <2>1, <2>3 DEF Commit, HoldsOK, Handed
<1>7. CASE TxnFails(c)
  <2>1. pc[c] = "plan" /\ pc' = pc /\ plan[c] # <<>> /\ Head(plan[c]).op \in {"expunge", "commit"}
    BY <1>7 DEF TxnFails, AtStage
  <2>2. plan'[c] = <<>>
    BY <1>7, <1>t DEF TxnFails, Types
  <2>3. db = c /\ db' = Free /\ PlanOK(plan'[c]) /\ ~HasCommit(plan'[c])
    BY <1>0, <1>7, <2>1, <2>2, PlanTail, PlanEmpty DEF TxnFails, HoldsOK
  <2> QED
    BY <1>0, <1>7, <1>b, <2>1, <2>3 DEF TxnFails, HoldsOK, Handed
<1>8. CASE Info(c)
  <2>1. /\ pc[c] = "plan" /\ plan[c] # <<>> /\ Head(plan[c]).op \in {"info", "dstInfo"}
        /\ UNCHANGED <<userMu, connsMu, db, todo>>
    BY <1>8 DEF Info, AtStage, lockVars
  <2>2. CASE Goto(c, "send") /\ UNCHANGED plan
    <3>1. pc'[c] = "send"
      BY <1>t, <2>2 DEF Goto, Types
    <3> QED
      BY <1>0, <2>1, <2>2, <3>1 DEF HoldsOK, Handed
  <2>3. CASE plan' = [plan EXCEPT ![c] = Tail(@)] /\ UNCHANGED pc
    <3>1. plan'[c] = Tail(plan[c])
      BY <1>t, <2>3 DEF Types
    <3>2. PlanOK(plan'[c]) /\ (HasCommit(plan'[c]) <=> HasCommit(plan[c]))
      BY <1>0, <2>1, <3>1, PlanTail
    <3> QED
      BY <1>0, <2>1, <2>3, <3>2 DEF HoldsOK, Handed
  <2> QED
    BY <1>8, <2>2, <2>3 DEF Info
<1>9. CASE SendStart(c)
  <2>1. pc[c] = "send" /\ pc'[c] = "visit" /\ plan' = plan /\ UNCHANGED <<connsMu, db>>
    BY <1>9, <1>t DEF SendStart, Goto, Types
  <2>2. plan[c] # <<>> /\ Head(plan[c]).op # "commit"
    BY <2>1 DEF HoldInv, PlansOK
  <2>3. \A t \in Threads \ {c} : todo'[t] = todo[t]
    BY <1>9, <1>t DEF SendStart, MoreTypes
  <2> QED
    BY <1>0, <1>9, <2>1, <2>2, <2>3 DEF SendStart, HoldsOK, Handed
<1>10. ASSUME NEW d \in Conns, SendTo(c, d)
       PROVE  Goal
  <2>1. pc[c] = "visit" /\ UNCHANGED <<pc, plan, userMu, connsMu, db>>
    BY <1>10 DEF SendTo
  <2>2. plan[c] # <<>> /\ Head(plan[c]).op # "commit"
    BY <2>1 DEF HoldInv, PlansOK
  <2>3. \A t \in Threads \ {c} : todo'[t] = todo[t]
    BY <1>10, <1>t DEF SendTo, MoreTypes
  <2> QED
    BY <1>0, <2>1, <2>2, <2>3 DEF HoldsOK, Handed
<1>11. CASE SendDone(c)
  <2>1. pc[c] = "visit" /\ pc'[c] = "plan" /\ plan'[c] = Tail(plan[c]) /\ UNCHANGED <<connsMu, db, todo>>
    BY <1>11, <1>t DEF SendDone, Goto, Types
  <2>2. plan[c] # <<>> /\ Head(plan[c]).op # "commit"
    BY <2>1 DEF HoldInv, PlansOK
  <2>3. PlanOK(plan'[c]) /\ (HasCommit(plan'[c]) <=> HasCommit(plan[c]))
    BY <1>0, <2>1, <2>2, PlanTail
  <2> QED
    BY <1>0, <1>11, <1>b, <2>1, <2>3 DEF SendDone, HoldsOK, Handed
<1>12. CASE CommandPanics(c)
  BY <1>0, <1>12 DEF CommandPanics, connVars, lockVars, HoldsOK, Handed, HoldInv, PlansOK
<1>13. CASE ExitConns(c)
  <2>1. pc[c] = "exit" /\ pc'[c] = "exitUser" /\ UNCHANGED <<plan, userMu, db, todo>>
    BY <1>13, <1>t DEF ExitConns, Goto, Types
  <2> QED
    BY <1>0, <1>13, <2>1 DEF ExitConns, HoldsOK, Handed
<1>14. CASE ExitUser(c)
  <2>1. pc[c] = "exitUser" /\ pc'[c] \in {"none", "gone"} /\ UNCHANGED <<plan, userMu, db, todo>>
    BY <1>14, <1>t DEF ExitUser, Types
  <2> QED
    BY <1>0, <1>14, <1>b, <2>1 DEF ExitUser, HoldsOK, Handed
<1> QED
  BY <1>1, <1>2, <1>3, <1>4, <1>5, <1>6, <1>7, <1>8, <1>9, <1>10, <1>11, <1>12, <1>13, <1>14 DEF ConnStep

LEMMA ConnHoldInv ==
  ASSUME Inv, HoldInv, NEW c \in Conns, ConnStep(c)
  PROVE  HoldInv'
<1>1. MoreTypes' /\ Types'
  BY ConnMoreTypes, ConnTypes DEF HoldInv, Inv
<1>2. ASSUME NEW d \in Conns, d # c
      PROVE  /\ HoldsOK(d)' /\ PlanOK(plan[d])'
             /\ (pc[d] \in {"send", "visit"} => plan[d] # <<>> /\ Head(plan[d]).op # "commit")'
  <2>1. pc'[d] = pc[d] /\ plan'[d] = plan[d]
    BY <1>2, ConnOthers DEF Inv, Same
  <2>2. (userMu' = d <=> userMu = d) /\ (connsMu' = d <=> connsMu = d) /\ (db' = d <=> db = d)
    BY <1>2, ConnHolds, Distinct DEF Handed
  <2> QED
    BY <2>1, <2>2 DEF HoldInv, HoldsOK, PlansOK
<1>3. ASSUME NEW n \in Notes
      PROVE  NoteHolds(n)'
  <2>1. note' = note /\ todo'[n] = todo[n]
    BY ConnMailbox, ConnHolds, Distinct DEF Threads
  <2>2. userMu' = n <=> userMu = n
    BY ConnHolds, Distinct DEF Handed
  <2> QED
    BY <2>1, <2>2 DEF HoldInv, NoteHolds
<1>4. PlansOK' /\ \A d \in Conns : HoldsOK(d)'
  BY <1>2, ConnHolds DEF PlansOK
<1> QED
  BY <1>1, <1>3, <1>4 DEF HoldInv

\* Nothing that a connection has is touched by Notify.
LEMMA NoteHoldInv ==
  ASSUME Inv, HoldInv, NEW n \in Notes, NoteStep(n)
  PROVE  HoldInv'
<1>1. MoreTypes'
  BY NoteMoreTypes
<1>2. UNCHANGED <<pc, plan, connsMu, db>>
  BY DEF NoteStep, NotifyStart, NotifyVisit, NotifyInfo, NotifyFails, NotifyPanics, NotifyDone, connVars,
         lockVars
<1>t. Types /\ MoreTypes /\ n \in Threads /\ NoteHolds(n) /\ n # Free
  BY Distinct DEF Inv, HoldInv, Threads
<1>3. /\ Handed(userMu, userMu', n) /\ NoteHolds(n)'
      /\ \A k \in Notes \ {n} : note'[k] = note[k] /\ todo'[k] = todo[k]
  <2> USE DEF Threads
  <2>1. CASE NotifyStart(n)
    <3>1. note'[n].pc = "visit" /\ \A k \in Notes \ {n} : note'[k] = note[k]
      BY <1>t, <2>1 DEF NotifyStart, Types, NoteRecord
    <3>2. \A k \in Notes \ {n} : todo'[k] = todo[k]
      BY <1>t, <2>1 DEF NotifyStart, MoreTypes
    <3> QED
      BY <2>1, <3>1, <3>2 DEF NotifyStart, Handed, NoteHolds
  <2>2. ASSUME NEW d \in Conns, NotifyVisit(n, d)
        PROVE  /\ Handed(userMu, userMu', n) /\ NoteHolds(n)'
               /\ \A k \in Notes \ {n} : note'[k] = note[k] /\ todo'[k] = todo[k]
    <3>1. userMu' = userMu /\ userMu = n /\ todo[n] # <<>> /\ d = Head(todo[n]) /\ note[n].pc = "visit"
      BY <1>t, <2>2 DEF NotifyVisit, NoteHolds
    <3>2. CASE UNCHANGED note /\ todo' = [todo EXCEPT ![n] = Tail(@)]
      BY <1>t, <3>1, <3>2 DEF MoreTypes, Handed, NoteHolds
    <3>3. CASE note' = [note EXCEPT ![n].pc = "info", ![n].at = d] /\ UNCHANGED todo
      <4>1. /\ note'[n].at = d /\ note'[n].pc = "info"
            /\ \A k \in Notes \ {n} : note'[k] = note[k]
        <5>1. note[n] \in NoteRecord
          BY <1>t DEF Types
        <5>2. note'[n].pc = "info"
          BY <1>t, <3>3, <5>1 DEF NoteRecord, Types
        <5> QED
          BY <1>t, <3>3, <5>2, NoteAt
      <4> QED
        BY <3>1, <3>3, <4>1 DEF Handed, NoteHolds
    <3> QED
      BY <2>2, <3>2, <3>3 DEF NotifyVisit
  <2>3. CASE NotifyInfo(n)
    <3>1. note' = [note EXCEPT ![n].pc = "visit", ![n].at = Nil, ![n].info = TRUE]
      BY <2>3 DEF NotifyInfo
    <3>2. note'[n].pc = "visit" /\ \A k \in Notes \ {n} : note'[k] = note[k]
      BY <1>t, <3>1, NotePasses
    <3>3. userMu' = userMu /\ userMu = n
      BY <1>t, <2>3 DEF NotifyInfo, NoteHolds
    <3>4. \A k \in Notes \ {n} : todo'[k] = todo[k]
      BY <1>t, <2>3 DEF NotifyInfo, MoreTypes
    <3> QED
      BY <3>2, <3>3, <3>4 DEF Handed, NoteHolds
  <2>4. CASE NotifyFails(n)
    <3>1. userMu = n
      BY <1>t, <2>4 DEF NotifyFails, NoteHolds
    <3>2. /\ note' = [note EXCEPT ![n] = [NoNote EXCEPT !.pc = "leaked"]]
          /\ userMu' = Free /\ todo' = [todo EXCEPT ![n] = <<>>]
      BY <2>4 DEF NotifyFails
    <3>3. note'[n].pc = "leaked" /\ \A k \in Notes \ {n} : note'[k] = note[k]
      BY <1>t, <3>2 DEF Types, NoNote
    <3>4. \A k \in Notes \ {n} : todo'[k] = todo[k]
      BY <1>t, <3>2 DEF MoreTypes
    <3> QED
      BY <1>t, <3>1, <3>2, <3>3, <3>4 DEF Handed, NoteHolds
  <2>5. CASE NotifyDone(n)
    <3>1. note'[n].pc = "none" /\ \A k \in Notes \ {n} : note'[k] = note[k]
      BY <1>t, <2>5 DEF NotifyDone, Types, NoNote
    <3> QED
      BY <1>t, <2>5, <3>1 DEF NotifyDone, Handed, NoteHolds
  <2>6. CASE NotifyPanics(n)
    BY <1>t, <2>6 DEF NotifyPanics, lockVars, Handed, NoteHolds
  <2> QED
    BY <2>1, <2>2, <2>3, <2>4, <2>5, <2>6 DEF NoteStep
<1>4. ASSUME NEW k \in Notes, k # n
      PROVE  NoteHolds(k)'
  <2>1. userMu' = k <=> userMu = k
    BY <1>3, <1>4, Distinct DEF Handed
  <2> QED
    BY <1>3, <1>4, <2>1 DEF HoldInv, NoteHolds
<1>5. ASSUME NEW d \in Conns
      PROVE  HoldsOK(d)'
  <2>1. userMu' = d <=> userMu = d
    BY <1>3, Distinct DEF Handed
  <2> QED
    BY <1>2, <2>1 DEF HoldInv, HoldsOK
<1>6. PlansOK'
  BY <1>2 DEF HoldInv, PlansOK
<1> QED
  BY <1>1, <1>3, <1>4, <1>5, <1>6 DEF HoldInv

LEMMA EnvironmentHoldInv ==
  ASSUME Inv, HoldInv, Environment
  PROVE  HoldInv'
<1>1. MoreTypes'
  BY EnvironmentMoreTypes DEF Inv, HoldInv
<1>2. UNCHANGED <<plan, userMu, connsMu, db, todo>>
  BY DEF Environment, Accept, Parse, IdleDone, Exit, Deliver, Shutdown, Drained, CloseAll, connVars, lockVars
<1>3. \A d \in Conns : \/ pc'[d] = pc[d]
                       \/ /\ pc[d] \notin {"visit", "exitUser"}
                          /\ pc'[d] \notin {"send", "visit", "exitUser"}
  <2>1. ASSUME NEW c \in Conns, NEW l, Goto(c, l), pc[c] \notin {"visit", "exitUser"},
               l \notin {"send", "visit", "exitUser"}
        PROVE  \A d \in Conns : \/ pc'[d] = pc[d]
                                \/ /\ pc[d] \notin {"visit", "exitUser"}
                                   /\ pc'[d] \notin {"send", "visit", "exitUser"}
    BY <2>1 DEF Goto, Inv, Types
  <2>2. CASE \E c \in Conns : Accept(c) \/ Parse(c) \/ IdleDone(c) \/ Exit(c)
    BY <2>1, <2>2 DEF Accept, Parse, IdleDone, Exit
  <2>3. CASE (\E n \in Notes, m \in Boxes : Deliver(n, m)) \/ Shutdown \/ Drained \/ CloseAll
    BY <2>3 DEF Deliver, Shutdown, Drained, CloseAll, connVars
  <2> QED
    BY <2>2, <2>3 DEF Environment
<1>4. PlansOK' /\ \A d \in Conns : HoldsOK(d)'
  BY <1>2, <1>3 DEF HoldInv, PlansOK, HoldsOK
<1>5. \A n \in Notes : NoteHolds(n)'
  <2>1. CASE note' = note
    BY <1>2, <2>1 DEF HoldInv, NoteHolds
  <2>2. ASSUME NEW n \in Notes, NEW m \in Boxes, Deliver(n, m)
        PROVE  \A k \in Notes : NoteHolds(k)'
    <3>1. note[n].pc = "none" /\ note'[n].pc = "start" /\ \A k \in Notes \ {n} : note'[k] = note[k]
      BY <2>2 DEF Deliver, Inv, Types, NoNote
    <3> QED
      BY <1>2, <3>1 DEF HoldInv, NoteHolds
  <2> QED
    BY <2>1, <2>2 DEF Environment, Accept, Parse, IdleDone, Exit, Shutdown, Drained, CloseAll
<1> QED
  BY <1>1, <1>4, <1>5 DEF HoldInv

LEMMA InitHoldInv == Init => HoldInv
<1> SUFFICES ASSUME Init PROVE HoldInv
  OBVIOUS
<1>1. MoreTypes
  <2>1. todo \in [Threads -> Seq(Conns)]
    <3>1. PICK q \in Seq(Conns) : q = <<>>
      <4>1. <<>> \in Seq(Conns)
        OBVIOUS
      <4> QED
        BY <4>1, Zenon
    <3>2. todo = [t \in Threads |-> q]
      BY <3>1 DEF Init
    <3> QED
      BY <3>2
  <2>2. IsFiniteSet(userConns)
    BY FS_EmptySet DEF Init
  <2> QED
    BY <2>1, <2>2 DEF Init, MoreTypes
<1>2. PlansOK
  BY PlanEmpty DEF Init, PlansOK
<1>3. \A c \in Conns : HoldsOK(c)
  BY PlanEmpty, Distinct DEF Init, HoldsOK
<1>4. \A n \in Notes : NoteHolds(n)
  BY Distinct DEF Init, NoteHolds, NoNote
<1> QED
  BY <1>1, <1>2, <1>3, <1>4 DEF HoldInv

LEMMA NextHoldInv == Inv /\ HoldInv /\ [Next]_vars => HoldInv'
<1> SUFFICES ASSUME Inv, HoldInv, [Next]_vars PROVE HoldInv'
  OBVIOUS
<1>1. CASE UNCHANGED vars
  BY <1>1 DEF vars, connVars, lockVars, HoldInv, MoreTypes, PlansOK, HoldsOK, NoteHolds
<1> QED
  BY <1>1, ConnHoldInv, NoteHoldInv, EnvironmentHoldInv DEF Next

LEMMA HoldsTypes == Inv /\ HoldInv => TypeOK
BY DEF Inv, Types, LockInv, Places, Modes, HasLock, HoldInv, MoreTypes, HoldsOK, HasCommit, NoteHolds, TypeOK

\* Every variable keeps its type, and the holder of each lock is where the
\* code releases it: bwMu is with its own connection exactly while a command
\* runs, user.mu exactly in the loops of sendIdleUpdate and Notify, connsMu
\* in the last lines of serveSession, and the database exactly up to the
\* commit or the rollback that the plan of the command still has.
THEOREM ServerTypes == Spec => []TypeOK
BY InitInv, InitHoldInv, NextInv, NextHoldInv, HoldsTypes, PTL DEF Spec
-----------------------------------------------------------------------------
(***************************************************************************)
(* Notifications.                                                          *)
(***************************************************************************)
\* A connection that has logged in is in user.conns, up to its end.
LoggedIn(c) ==
  /\ mode[c] # "NonAuth" \/ mailbox[c] # Nil => c \in userConns
  /\ pc[c] \in {"lock", "run"} /\ cmd[c].name = "SELECT" => c \in userConns
  /\ pc[c] \in {"none", "wait", "exit", "exitUser", "gone"} => mailbox[c] = Nil

\* idling is set only while the client idles.
IdlingOK(c) == idling[c] => pc[c] = "idle" /\ idleStarted[c]

\* A connection that is owed a notification is idling, in the mailbox that it
\* is about, and Notify has not started, or has the connection ahead; or it
\* has failed.
OwedOK(c, n) ==
  \/ note[n].pc = "leaked"
  \/ /\ pc[c] = "idle" /\ Listens(c, note[n].box)
     /\ note[n].pc = "start" \/ (note[n].pc \in {"visit", "info"} /\ c \in Ahead(n))

ReachInv ==
  /\ \A c \in Conns : LoggedIn(c) /\ IdlingOK(c)
  /\ \A c \in Conns : \A n \in owed[c] : OwedOK(c, n)

LEMMA FinishPlace ==
  ASSUME Types, NEW c \in Conns, Finish(c)
  PROVE  pc'[c] = "ready" /\ cmd'[c] = NoCmd
BY DEF Types, Finish, Goto

\* What closeMailbox does to a connection, or leaves alone.
LEMMA CloseReach ==
  ASSUME Types, MoreTypes, NEW S, CloseMailbox(S), NEW d \in Conns
  PROVE  \/ /\ mailbox'[d] = mailbox[d] /\ mode'[d] = mode[d] /\ idling'[d] = idling[d]
            /\ idleStarted'[d] = idleStarted[d] /\ owed'[d] = owed[d]
            /\ d \in S => mailbox[d] = Nil
         \/ /\ d \in S /\ mailbox[d] # Nil /\ mailbox'[d] = Nil /\ ~idling'[d] /\ owed'[d] = {}
BY DEF CloseMailbox

\* A connection is in user.conns from its LOGIN to its end, and SELECT, which
\* gives it a mailbox, comes between.
LEMMA ConnLoggedIn ==
  ASSUME Types, MoreTypes, NEW c \in Conns, ConnStep(c), LoggedIn(c), IdlingOK(c)
  PROVE  LoggedIn(c)' /\ IdlingOK(c)' /\ pc[c] # "idle"
<1> USE DEF Types, Goto, LoggedIn, IdlingOK
<1>1. CASE Register(c) \/ Lock(c)
  BY <1>1 DEF Register, Lock
<1>2. CASE Respond(c) \/ Login(c)
  <2>1. pc'[c] = "ready" /\ pc[c] = "run" /\ UNCHANGED <<mailbox, idling>>
    BY <1>2, FinishPlace DEF Respond, Login, Running
  <2>2. \/ mode'[c] = mode[c] /\ userConns' = userConns
        \/ c \in userConns'
    BY <1>2 DEF Respond, Login
  <2> QED
    BY <2>1, <2>2
<1>3. CASE Select(c)
  <2>1. pc'[c] = "ready" /\ pc[c] = "run" /\ userConns' = userConns /\ c \in userConns
    BY <1>3, FinishPlace DEF Select, Running
  <2>2. ~idling'[c]
    BY <1>3 DEF Select, MoreTypes
  <2> QED
    BY <2>1, <2>2
<1>4. CASE Idle(c)
  <2>1. pc'[c] = "idle" /\ pc[c] = "run" /\ UNCHANGED <<mailbox, mode, userConns>>
    BY <1>4 DEF Idle, Running
  <2>2. idleStarted'[c]
    BY <1>4 DEF Idle, MoreTypes
  <2> QED
    BY <2>1, <2>2
<1>5. CASE Logout(c) \/ (Done(c) /\ cmd[c].name = "CLOSE")
  <2>1. pc'[c] = "ready" /\ pc[c] \in {"run", "plan"} /\ CloseMailbox({c}) /\ userConns' = userConns
    BY <1>5, FinishPlace DEF Logout, Done, Running
  <2>2. mode'[c] = mode[c] \/ mailbox[c] # Nil
    BY <2>1 DEF CloseMailbox
  <2>3. ~idling'[c]
    BY <2>1, CloseReach
  <2> QED
    BY <2>1, <2>2, <2>3, CloseReach
<1>6. CASE Done(c) /\ cmd[c].name # "CLOSE"
  BY <1>6, FinishPlace DEF Done
<1>7. CASE Append_(c) \/ Copy(c)
  <2>1. pc'[c] \in {"ready", "plan"} /\ pc[c] = "run" /\ UNCHANGED <<mailbox, mode, userConns, idling>>
    BY <1>7, FinishPlace DEF Append_, Copy, Running, Begin
  <2> QED
    BY <2>1
<1>8. CASE Expunge(c)
  <2>1. pc'[c] = "plan" /\ pc[c] = "run" /\ UNCHANGED <<mailbox, mode, userConns, idling>>
    BY <1>8 DEF Expunge, Begin
  <2> QED
    BY <2>1
<1>9. CASE Callback(c) \/ Commit(c) \/ TxnFails(c) \/ Info(c)
  <2>1. pc'[c] \in {"send", "plan"} /\ pc[c] = "plan" /\ UNCHANGED <<mailbox, mode, userConns, idling>>
    BY <1>9 DEF Callback, Commit, TxnFails, Info, AtStage
  <2> QED
    BY <2>1
<1>10. CASE SendStart(c) \/ SendDone(c) \/ \E d \in Conns : SendTo(c, d)
  <2>1. /\ pc'[c] \in {"visit", "plan"} /\ pc[c] \in {"send", "visit"}
        /\ UNCHANGED <<mailbox, mode, userConns, idling>>
    BY <1>10 DEF SendStart, SendDone, SendTo
  <2> QED
    BY <2>1
<1>11. CASE CommandPanics(c)
  BY <1>11 DEF CommandPanics, AtStage, connVars
<1>12. CASE ExitConns(c)
  BY <1>12 DEF ExitConns
<1>13. CASE ExitUser(c)
  <2>1. /\ pc[c] = "exitUser" /\ pc'[c] \in {"none", "gone"} /\ mode'[c] = "NonAuth"
        /\ UNCHANGED <<mailbox, idling>>
    BY <1>13 DEF ExitUser
  <2> QED
    BY <2>1
<1> QED
  BY <1>1, <1>2, <1>3, <1>4, <1>5, <1>6, <1>7, <1>8, <1>9, <1>10, <1>11, <1>12, <1>13 DEF ConnStep

\* A connection that runs a command takes nobody else out of user.conns, out
\* of IDLE or out of debt.
LEMMA ConnReachOthers ==
  ASSUME Types, MoreTypes, NEW c \in Conns, ConnStep(c), NEW d \in Conns
  PROVE  /\ owed'[d] \subseteq owed[d]
         /\ d # c => /\ d \in userConns => d \in userConns'
                     /\ idling'[d] = idling[d] /\ idleStarted'[d] = idleStarted[d]
<1> USE DEF MoreTypes, connVars
<1>1. CASE Register(c) \/ Lock(c) \/ Respond(c) \/ Login(c) \/ Select(c) \/ Idle(c)
  BY <1>1 DEF Register, Lock, Respond, Login, Select, Idle
<1>2. CASE Logout(c)
  BY <1>2, CloseReach DEF Logout
<1>3. CASE Append_(c) \/ Copy(c) \/ Expunge(c) \/ Callback(c) \/ Commit(c) \/ TxnFails(c) \/ Info(c)
  BY <1>3 DEF Append_, Copy, Expunge, Callback, Commit, TxnFails, Info
<1>4. CASE Done(c)
  BY <1>4, CloseReach DEF Done
<1>5. CASE SendStart(c) \/ SendDone(c) \/ CommandPanics(c) \/ ExitConns(c) \/ ExitUser(c)
  BY <1>5 DEF SendStart, SendDone, CommandPanics, ExitConns, ExitUser
<1>6. CASE \E k \in Conns : SendTo(c, k)
  BY <1>6 DEF SendTo
<1> QED
  BY <1>1, <1>2, <1>3, <1>4, <1>5, <1>6 DEF ConnStep

LEMMA ConnReach ==
  ASSUME Inv, HoldInv, ReachInv, NEW c \in Conns, ConnStep(c)
  PROVE  ReachInv'
<1>t. Types /\ MoreTypes
  BY DEF Inv, HoldInv
<1>1. LoggedIn(c)' /\ IdlingOK(c)' /\ pc[c] # "idle"
  BY <1>t, ConnLoggedIn DEF ReachInv
<1>2. ASSUME NEW d \in Conns, d # c
      PROVE  /\ LoggedIn(d)' /\ IdlingOK(d)'
             /\ pc'[d] = pc[d] /\ mailbox'[d] = mailbox[d] /\ idleStarted'[d] = idleStarted[d]
  <2>1. d \in userConns => d \in userConns'
    BY <1>2, <1>t, ConnReachOthers
  <2>2. Same(d)
    BY <1>2, <1>t, ConnOthers
  <2>3. idling'[d] = idling[d] /\ idleStarted'[d] = idleStarted[d]
    BY <1>2, <1>t, ConnReachOthers
  <2> QED
    BY <2>1, <2>2, <2>3 DEF ReachInv, LoggedIn, IdlingOK, Same
<1>3. ASSUME NEW d \in Conns, NEW n \in owed'[d]
      PROVE  OwedOK(d, n)'
  <2>1. n \in owed[d] /\ n \in Notes
    BY <1>3, <1>t, ConnReachOthers DEF MoreTypes
  <2>2. OwedOK(d, n)
    BY <2>1 DEF ReachInv
  <2>3. note[n].pc = "leaked" \/ d # c
    BY <1>1, <2>2 DEF OwedOK
  <2>4. note' = note /\ todo'[n] = todo[n]
    BY <2>1, ConnMailbox, ConnHolds, Distinct DEF Threads
  <2> QED
    BY <1>2, <2>2, <2>3, <2>4 DEF OwedOK, Listens, Ahead
<1> QED
  BY <1>1, <1>2, <1>3 DEF ReachInv

\* Notify takes the connections of its loop one by one.
LEMMA AheadTail ==
  ASSUME MoreTypes, NEW t \in Threads, todo[t] # <<>>, todo' = [todo EXCEPT ![t] = Tail(@)],
         NEW x \in Ahead(t), x # Head(todo[t])
  PROVE  x \in Ahead(t)'
<1>1. todo[t] \in Seq(Conns) /\ todo'[t] = Tail(todo[t])
  BY DEF MoreTypes
<1>2. PICK i \in DOMAIN todo[t] : x = todo[t][i]
  BY DEF Ahead
<1>3. PICK q \in Seq(Conns) : q = todo[t]
  BY <1>1
<1>4. i \in 1..Len(q) /\ i # 1 /\ Len(q) \in Nat
  BY <1>2, <1>3
<1>5. i - 1 \in DOMAIN Tail(q) /\ Tail(q)[i - 1] = q[i]
  BY <1>3, <1>4
<1> QED
  BY <1>1, <1>2, <1>3, <1>5 DEF Ahead

\* Notify passes over no connection that it owes: one that listens gets the
\* update when its turn comes, and one that does not is not owed any.
LEMMA NoteReach ==
  ASSUME Inv, HoldInv, ReachInv, NEW n \in Notes, NoteStep(n)
  PROVE  ReachInv'
<1>t. Types /\ MoreTypes /\ NoteHolds(n) /\ n \in Threads
  BY DEF Inv, HoldInv, Threads
<1>1. UNCHANGED <<pc, cmd, mode, mailbox, idling, idleStarted, userConns>>
  BY DEF NoteStep, NotifyStart, NotifyVisit, NotifyInfo, NotifyFails, NotifyPanics, NotifyDone, connVars
<1>2. \A d \in Conns : LoggedIn(d)' /\ IdlingOK(d)'
  BY <1>1 DEF ReachInv, LoggedIn, IdlingOK
<1> SUFFICES ASSUME NEW d \in Conns, NEW k \in owed'[d] PROVE OwedOK(d, k)'
  BY <1>2 DEF ReachInv
<1>4. owed'[d] \subseteq owed[d] /\ k \in Notes
  <2>1. owed' = owed \/ \E e : owed' = [owed EXCEPT ![e] = @ \ {n}]
    BY DEF NoteStep, NotifyStart, NotifyVisit, NotifyInfo, NotifyFails, NotifyPanics, NotifyDone
  <2>2. owed'[d] \subseteq owed[d]
    BY <1>t, <2>1 DEF MoreTypes
  <2> QED
    BY <1>t, <2>2 DEF MoreTypes
<1>5. OwedOK(d, k) /\ k \in Threads
  BY <1>4 DEF ReachInv, Threads
<1>6. ASSUME note[k].pc # "leaked", note'[k].box = note[k].box, note'[k].pc \in {"visit", "info"}, d \in Ahead(k)'
      PROVE  OwedOK(d, k)'
  BY <1>1, <1>5, <1>6 DEF OwedOK, Listens
<1>7. ASSUME note'[k] = note[k], todo'[k] = todo[k]
      PROVE  OwedOK(d, k)'
  BY <1>1, <1>5, <1>7 DEF OwedOK, Listens, Ahead
<1>8. CASE NotifyStart(n)
  <2>1. note[n].pc = "start" /\ note'[n].pc = "visit" /\ note'[n].box = note[n].box
    BY <1>8, <1>t DEF NotifyStart, Types, NoteRecord
  <2>2. CASE k # n
    BY <1>4, <1>5, <1>7, <1>8, <1>t, <2>2 DEF NotifyStart, Types, MoreTypes
  <2>3. CASE k = n
    <3>1. d \in userConns
      BY <1>5, <2>1, <2>3 DEF OwedOK, Listens, ReachInv, LoggedIn
    <3>2. PICK q \in Orders(userConns) : todo' = [todo EXCEPT ![n] = q]
      BY <1>8 DEF NotifyStart
    <3>3. \E i \in DOMAIN q : q[i] = d
      BY <1>t, <3>1, OrdersSeq DEF MoreTypes
    <3>4. todo'[n] = q
      BY <1>t, <3>2 DEF MoreTypes
    <3>5. d \in Ahead(n)'
      BY <3>3, <3>4 DEF Ahead
    <3> QED
      BY <1>6, <2>1, <2>3, <3>5
  <2> QED
    BY <2>2, <2>3
<1>9. ASSUME NEW e \in Conns, NotifyVisit(n, e)
      PROVE  OwedOK(d, k)'
  <2>1. note[n].pc = "visit" /\ todo[n] # <<>> /\ e = Head(todo[n])
    BY <1>9 DEF NotifyVisit
  <2>2. CASE /\ note' = [note EXCEPT ![n].pc = "info", ![n].at = e]
             /\ UNCHANGED <<todo, owed>>
    <3>1. note'[n].box = note[n].box /\ \A j \in Notes \ {n} : note'[j] = note[j]
      BY <1>t, <2>2, NoteAt
    <3>2. note'[n].pc = "info"
      BY <1>t, <2>2 DEF Types, NoteRecord
    <3>3. CASE k = n
      <4>1. d \in Ahead(k)'
        BY <1>5, <2>1, <2>2, <3>3 DEF OwedOK, Ahead
      <4> QED
        BY <1>6, <2>1, <3>1, <3>2, <3>3, <4>1
    <3> QED
      BY <1>4, <1>7, <2>2, <3>1, <3>3
  <2>3. CASE todo' = [todo EXCEPT ![n] = Tail(@)] /\ UNCHANGED note
    <3>1. CASE k # n
      BY <1>5, <1>7, <1>t, <2>3, <3>1 DEF MoreTypes
    <3>2. CASE k = n
      <4>1. d # e
        <5>1. CASE ~Listens(e, note[n].box)
          BY <1>5, <2>1, <3>2, <5>1 DEF OwedOK
        <5>2. CASE owed' = [owed EXCEPT ![e] = @ \ {n}]
          BY <1>t, <3>2, <5>2 DEF MoreTypes
        <5> QED
          BY <1>9, <1>t, <2>1, <2>3, <5>1, <5>2 DEF NotifyVisit, Types, NoteRecord
      <4>2. d \in Ahead(n)
        BY <1>5, <2>1, <3>2 DEF OwedOK
      <4>3. d \in Ahead(n)'
        BY <1>t, <2>1, <2>3, <4>1, <4>2, AheadTail
      <4> QED
        BY <1>6, <2>1, <2>3, <3>2, <4>3
    <3> QED
      BY <3>1, <3>2
  <2> QED
    BY <1>9, <2>2, <2>3 DEF NotifyVisit
<1>10. CASE NotifyInfo(n)
  <2>1. PICK e \in Conns : e = note[n].at /\ e = Head(todo[n]) /\ todo[n] # <<>>
    BY <1>10, <1>t DEF NotifyInfo, NoteHolds, Inv, NoteInv
  <2>2. /\ note' = [note EXCEPT ![n].pc = "visit", ![n].at = Nil, ![n].info = TRUE]
        /\ owed' = [owed EXCEPT ![e] = @ \ {n}] /\ todo' = [todo EXCEPT ![n] = Tail(@)]
        /\ note[n].pc = "info"
    BY <1>10, <2>1 DEF NotifyInfo
  <2>3. note'[n].pc = "visit" /\ \A j \in Notes \ {n} : note'[j] = note[j]
    BY <1>t, <2>2, NotePasses
  <2>4. note'[n].box = note[n].box
    <3>1. note[n] \in NoteRecord /\ note \in [Notes -> NoteRecord]
      BY <1>t DEF Types
    <3>2. note'[n] = [[[note[n] EXCEPT !.pc = "visit"] EXCEPT !.at = Nil] EXCEPT !.info = TRUE]
      BY <2>2, <3>1
    <3> QED
      BY <3>1, <3>2 DEF NoteRecord
  <2>5. CASE k # n
    BY <1>4, <1>5, <1>7, <1>t, <2>2, <2>3, <2>5 DEF MoreTypes
  <2>6. CASE k = n
    <3>1. d # e
      BY <1>t, <2>2, <2>6 DEF MoreTypes
    <3>2. d \in Ahead(n)
      BY <1>5, <2>2, <2>6 DEF OwedOK
    <3>3. d \in Ahead(n)'
      BY <1>t, <2>1, <2>2, <3>1, <3>2, AheadTail
    <3> QED
      BY <1>6, <2>2, <2>3, <2>4, <2>6, <3>3
  <2> QED
    BY <2>5, <2>6
<1>11. CASE NotifyFails(n)
  <2>1. note'[n].pc = "leaked"
    BY <1>11, <1>t DEF NotifyFails, Types, NoNote
  <2>2. CASE k = n
    BY <2>1, <2>2 DEF OwedOK
  <2>3. CASE k # n
    BY <1>11, <1>4, <1>5, <1>7, <1>t, <2>3 DEF NotifyFails, Types, MoreTypes
  <2> QED
    BY <2>2, <2>3
<1>13. CASE NotifyPanics(n)
  BY <1>13, <1>7 DEF NotifyPanics, lockVars
<1>12. CASE NotifyDone(n)
  <2>1. k # n
    BY <1>12, <1>5 DEF NotifyDone, OwedOK, Ahead
  <2> QED
    BY <1>12, <1>4, <1>7, <1>t, <2>1 DEF NotifyDone, Types
<1> QED
  BY <1>8, <1>9, <1>10, <1>11, <1>12, <1>13 DEF NoteStep

LEMMA EnvironmentReach ==
  ASSUME Inv, HoldInv, ReachInv, Environment
  PROVE  ReachInv'
<1>t. Types /\ MoreTypes
  BY DEF Inv, HoldInv
<1>0. UNCHANGED <<todo, userConns>>
  BY DEF Environment, Accept, Parse, IdleDone, Exit, Deliver, Shutdown, Drained, CloseAll, lockVars
\* What keeps a connection as it is, and what takes it out of debt.
<1>1. ASSUME note' = note, \A d \in Conns : LoggedIn(d)' /\ IdlingOK(d)',
             \A d \in Conns : \/ owed'[d] = {}
                              \/ /\ owed'[d] = owed[d] /\ mailbox'[d] = mailbox[d]
                                 /\ idleStarted'[d] = idleStarted[d]
                                 /\ pc[d] = "idle" => pc'[d] = "idle"
      PROVE  ReachInv'
  <2> SUFFICES ASSUME NEW d \in Conns, NEW n \in owed'[d] PROVE OwedOK(d, n)'
    BY <1>0, <1>1 DEF ReachInv
  <2>1. owed'[d] # {} /\ n \in owed[d] /\ OwedOK(d, n)
    BY <1>1 DEF ReachInv
  <2> QED
    BY <1>0, <1>1, <2>1 DEF OwedOK, Listens, Ahead
<1>2. ASSUME NEW c \in Conns, Accept(c) \/ Parse(c)
      PROVE  ReachInv'
  <2>1. /\ pc[c] \in {"none", "ready"} /\ pc'[c] \in {"wait", "lock"} /\ note' = note
        /\ UNCHANGED <<mode, mailbox, idling, idleStarted, owed>>
        /\ pc'[c] = "wait" => pc[c] = "none"
        /\ \A d \in Conns \ {c} : pc'[d] = pc[d] /\ cmd'[d] = cmd[d]
    BY <1>2, <1>t DEF Accept, Parse, Goto, Types
  <2>2. pc'[c] = "lock" /\ cmd'[c].name = "SELECT" => mode[c] # "NonAuth"
    <3>1. CASE Accept(c)
      BY <1>t, <3>1 DEF Accept, Goto, Types
    <3>2. CASE Parse(c)
      <4>1. PICK j \in CmdsIn(mode[c]) :
              \E m \in IF j \in {"SELECT", "APPEND", "COPY", "MOVE"} THEN Boxes ELSE {Nil} :
                cmd' = [cmd EXCEPT ![c] = [name |-> j, box |-> m]]
        BY <3>2 DEF Parse
      <4>2. cmd'[c].name = j
        BY <1>t, <4>1 DEF Types
      <4>3. j = "SELECT" => mode[c] # "NonAuth"
        BY DEF CmdsIn, AnyCmds
      <4> QED
        BY <4>2, <4>3
    <3> QED
      BY <1>2, <3>1, <3>2
  <2>3. LoggedIn(c)' /\ IdlingOK(c)'
    BY <1>0, <2>1, <2>2 DEF ReachInv, LoggedIn, IdlingOK
  <2>4. \A d \in Conns \ {c} : LoggedIn(d)' /\ IdlingOK(d)'
    BY <1>0, <2>1 DEF ReachInv, LoggedIn, IdlingOK
  <2> QED
    BY <1>1, <2>1, <2>3, <2>4
<1>3. ASSUME NEW c \in Conns, IdleDone(c)
      PROVE  ReachInv'
  <2>1. /\ pc'[c] = "ready" /\ owed'[c] = {} /\ note' = note
        /\ UNCHANGED <<mode, mailbox, idleStarted>>
        /\ \A d \in Conns \ {c} : pc'[d] = pc[d] /\ cmd'[d] = cmd[d] /\ owed'[d] = owed[d]
    BY <1>3, <1>t DEF IdleDone, Goto, Types, MoreTypes
  <2>2. ~idling'[c] /\ \A d \in Conns \ {c} : idling'[d] = idling[d]
    BY <1>3, <1>t DEF IdleDone, MoreTypes
  <2>3. \A d \in Conns : LoggedIn(d)' /\ IdlingOK(d)'
    BY <1>0, <2>1, <2>2 DEF ReachInv, LoggedIn, IdlingOK
  <2> QED
    BY <1>1, <2>1, <2>3
<1>4. ASSUME NEW S, CloseMailbox(S), note' = note, cmd' = cmd,
             \A d \in Conns : pc'[d] = pc[d] \/ (d \in S /\ pc[d] = "ready" /\ pc'[d] = "exit")
      PROVE  ReachInv'
  <2>1. ASSUME NEW d \in Conns
        PROVE  LoggedIn(d)' /\ IdlingOK(d)'
    <3>1. mode'[d] = mode[d] \/ mailbox[d] # Nil
      BY <1>4 DEF CloseMailbox
    <3>2. CASE mailbox'[d] = mailbox[d] /\ idling'[d] = idling[d] /\ idleStarted'[d] = idleStarted[d]
               /\ (d \in S => mailbox[d] = Nil)
      BY <1>0, <1>4, <3>1, <3>2 DEF ReachInv, LoggedIn, IdlingOK
    <3>3. CASE mailbox'[d] = Nil /\ ~idling'[d]
      BY <1>0, <1>4, <3>1, <3>3 DEF ReachInv, LoggedIn, IdlingOK
    <3> QED
      BY <1>4, <1>t, <3>2, <3>3, CloseReach
  <2>2. ASSUME NEW d \in Conns
        PROVE  \/ owed'[d] = {}
               \/ /\ owed'[d] = owed[d] /\ mailbox'[d] = mailbox[d]
                  /\ idleStarted'[d] = idleStarted[d]
                  /\ pc[d] = "idle" => pc'[d] = "idle"
    BY <1>4, <1>t, CloseReach
  <2> QED
    BY <1>1, <1>4, <2>1, <2>2
<1>5. ASSUME NEW c \in Conns, Exit(c)
      PROVE  ReachInv'
  <2>1. \A d \in Conns : pc'[d] = pc[d] \/ (d \in {c} /\ pc[d] = "ready" /\ pc'[d] = "exit")
    BY <1>5, <1>t DEF Exit, Goto, Types
  <2> QED
    BY <1>4, <1>5, <2>1 DEF Exit
<1>6. CASE CloseAll
  BY <1>4, <1>6 DEF CloseAll
<1>7. CASE Shutdown \/ Drained
  <2>1. UNCHANGED <<connVars, note, owed>>
    BY <1>7 DEF Shutdown, Drained
  <2>2. \A d \in Conns : LoggedIn(d)' /\ IdlingOK(d)'
    BY <1>0, <2>1 DEF connVars, ReachInv, LoggedIn, IdlingOK
  <2> QED
    BY <1>1, <2>1, <2>2 DEF connVars
<1>8. ASSUME NEW n \in Notes, NEW m \in Boxes, Deliver(n, m)
      PROVE  ReachInv'
  <2>1. UNCHANGED connVars
    BY <1>8 DEF Deliver
  <2>2. \A d \in Conns : LoggedIn(d)' /\ IdlingOK(d)'
    BY <1>0, <2>1 DEF connVars, ReachInv, LoggedIn, IdlingOK
  <2>3. /\ note[n].pc = "none" /\ note'[n].pc = "start" /\ note'[n].box = m
        /\ \A k \in Notes \ {n} : note'[k] = note[k]
    BY <1>8, <1>t DEF Deliver, Types, NoNote
  <2> SUFFICES ASSUME NEW d \in Conns, NEW k \in owed'[d] PROVE OwedOK(d, k)'
    BY <1>0, <2>2 DEF ReachInv
  <2>4. CASE k \in owed[d]
    <3>1. OwedOK(d, k) /\ k \in Notes
      BY <1>t, <2>4 DEF ReachInv, MoreTypes
    <3>2. k # n
      BY <2>3, <3>1 DEF OwedOK
    <3> QED
      BY <1>0, <2>1, <2>3, <3>1, <3>2 DEF connVars, OwedOK, Listens, Ahead
  <2>5. CASE k \notin owed[d]
    <3>1. k = n /\ idling[d] /\ mailbox[d] = m
      BY <1>8, <2>5 DEF Deliver
    <3>2. pc[d] = "idle" /\ idleStarted[d]
      BY <3>1 DEF ReachInv, IdlingOK
    <3>3. m # Nil
      BY ImapServerAssumption DEF Nil
    <3> QED
      BY <2>1, <2>3, <3>1, <3>2, <3>3 DEF connVars, OwedOK, Listens
  <2> QED
    BY <2>4, <2>5
<1> QED
  BY <1>2, <1>3, <1>5, <1>6, <1>7, <1>8 DEF Environment

LEMMA NextReach == Inv /\ HoldInv /\ ReachInv /\ [Next]_vars => ReachInv'
<1> SUFFICES ASSUME Inv, HoldInv, ReachInv, [Next]_vars PROVE ReachInv'
  OBVIOUS
<1>1. CASE UNCHANGED vars
  BY <1>1 DEF vars, connVars, lockVars, ReachInv, LoggedIn, IdlingOK, OwedOK, Listens, Ahead
<1> QED
  BY <1>1, ConnReach, NoteReach, EnvironmentReach DEF Next

\* A connection that idles in a mailbox when mail is delivered to it is told:
\* the goroutine of Notify has not taken user.mu yet, or still has the
\* connection in the rest of its loop.  Logins, commands, other deliveries and
\* connections that end cannot make it pass the connection over; only an error
\* of Info, after which that goroutine is at its end with bwMu locked, can.
THEOREM NotifyReachesAll == Spec => []NotifyReaches
<1>1. Init => ReachInv
  BY DEF Init, ReachInv, LoggedIn, IdlingOK
<1>2. ReachInv => NotifyReaches
  BY DEF ReachInv, OwedOK, NotifyReaches
<1> QED
  BY <1>1, <1>2, InitInv, InitHoldInv, NextInv, NextHoldInv, NextReach, PTL DEF Spec
=============================================================================
