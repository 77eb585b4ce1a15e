----------------------------- MODULE ImapServer -----------------------------
(***************************************************************************)
(* The IMAP server (imap/imapserver): the connections of one user, the     *)
(* goroutines that announce delivered mail, and Shutdown.  A connection    *)
(* runs one command at a time, with its bwMu held.  A command that changes *)
(* a mailbox tells the other connections of the user, and takes user.mu    *)
(* and their bwMu for it; so does Notify.  While a command has a           *)
(* transaction open on the user's database, readers of it wait.            *)
(***************************************************************************)
EXTENDS Naturals, FiniteSets, Sequences

CONSTANTS
  Conns,      \* connections of the user
  Notes,      \* goroutines that run Notify, one for a delivered message
  Boxes,      \* mailboxes
  MaxConns,   \* Server.MaxConns
  MaxExpunge  \* bound: messages that a command expunges or moves

ASSUME ImapServerAssumption ==
  /\ MaxConns \in Nat /\ MaxExpunge \in Nat
  /\ "nil" \notin Boxes /\ "free" \notin Conns \cup Notes /\ Conns \cap Notes = {}

Nil  == "nil"
Free == "free"
Threads == Conns \cup Notes

\* What a command can be, by the mode in which the parser lets it pass.
\* OTHER stands for the commands that change no state of the server.
AnyCmds  == {"OTHER", "LOGOUT"}
AuthCmds == {"APPEND", "IDLE", "SELECT"}
BoxCmds  == {"EXPUNGE", "CLOSE", "COPY", "MOVE"}
CmdsIn(m) == AnyCmds \cup (CASE m = "NonAuth"  -> {"LOGIN"}
                             [] m = "Auth"     -> AuthCmds
                             [] m = "Selected" -> AuthCmds \cup BoxCmds)

VARIABLES
  pc,          \* where the goroutine of a connection is
  cmd,         \* Parser.Command: its name and its mailbox
  plan,        \* what is left to do of the command
  mode,        \* Parser.Mode
  mailbox,     \* Conn.mailbox
  idleStarted, \* Conn.idleStarted
  idling,      \* Conn.idling
  updates,     \* Conn.updates, as a set of <<type, mailbox>>
  bwMu,        \* Conn.bwMu: the thread that has it
  todo,        \* thread -> connections its loop over user.conns has left, in order
  note,        \* goroutine of Notify -> its state
  conns,       \* Server.conns
  userConns,   \* user.conns
  connsMu,     \* Server.connsMu: the thread that has it
  userMu,      \* user.mu
  db,          \* the connection that has a transaction open, or Free
  server,      \* "serving", "draining", "closed"
  crashed,     \* the goroutine whose panic ended the process, "no" if none
  owed         \* connection -> notifiers that must reach it, as it idles

connVars == <<pc, cmd, plan, mode, mailbox, idleStarted, idling, updates>>
lockVars == <<bwMu, todo, connsMu, userMu, db>>
vars == <<connVars, lockVars, note, conns, userConns, server, crashed, owed>>

NoCmd  == [name |-> "none", box |-> Nil]
NoNote == [pc |-> "none", box |-> Nil, at |-> Nil, info |-> FALSE]

\* Ranging over a map takes its keys in any order.
Orders(S) == {q \in [1..Cardinality(S) -> S] : \A i, j \in DOMAIN q : q[i] = q[j] => i = j}
Ahead(t) == {todo[t][i] : i \in DOMAIN todo[t]}

Goto(c, l) == pc' = [pc EXCEPT ![c] = l]

\* The end of serveCmd, where the deferred Unlock runs.
Finish(c) ==
  /\ Goto(c, "ready")
  /\ bwMu' = [bwMu EXCEPT ![c] = Free]
  /\ cmd' = [cmd EXCEPT ![c] = NoCmd]

\* closeMailbox on the connections of a set; it does nothing without mailbox.
CloseMailbox(S) ==
  LET T == {c \in S : mailbox[c] # Nil} IN
  /\ mailbox'     = [c \in Conns |-> IF c \in T THEN Nil ELSE mailbox[c]]
  /\ mode'        = [c \in Conns |-> IF c \in T THEN "Auth" ELSE mode[c]]
  /\ updates'     = [c \in Conns |-> IF c \in T THEN {} ELSE updates[c]]
  /\ idling'      = [c \in Conns |-> IF c \in T THEN FALSE ELSE idling[c]]
  /\ idleStarted' = [c \in Conns |-> IF c \in T THEN FALSE ELSE idleStarted[c]]
  /\ owed'        = [c \in Conns |-> IF c \in T THEN {} ELSE owed[c]]

-----------------------------------------------------------------------------
(***************************************************************************)
(* Connections                                                             *)
(***************************************************************************)
Accept(c) ==
  /\ server = "serving" /\ pc[c] = "none"
  /\ Goto(c, "wait")
  /\ UNCHANGED <<cmd, plan, mode, mailbox, idleStarted, idling, updates, lockVars, note,
                 conns, userConns, server, crashed, owed>>

\* serveSession: `for len(server.conns) > server.MaxConns` waits.
Register(c) ==
  /\ pc[c] = "wait"
  /\ connsMu = Free /\ Cardinality(conns) <= MaxConns
  /\ conns' = conns \cup {c}
  /\ Goto(c, "ready")
  /\ UNCHANGED <<cmd, plan, mode, mailbox, idleStarted, idling, updates, lockVars, note,
                 userConns, server, crashed, owed>>

\* ParseCommand; what it lets pass depends on the mode it finds.
Parse(c) ==
  /\ pc[c] = "ready"
  /\ \E n \in CmdsIn(mode[c]) :
       \E m \in IF n \in {"SELECT", "APPEND", "COPY", "MOVE"} THEN Boxes ELSE {Nil} :
         cmd' = [cmd EXCEPT ![c] = [name |-> n, box |-> m]]
  /\ Goto(c, "lock")
  /\ UNCHANGED <<plan, mode, mailbox, idleStarted, idling, updates, lockVars, note, conns,
                 userConns, server, crashed, owed>>

\* Mutant: what is queued is not written.
LockWritesNothing(c) ==
  /\ pc[c] = "lock" /\ bwMu[c] = Free
  /\ bwMu' = [bwMu EXCEPT ![c] = c]
  /\ Goto(c, "run")
  /\ UNCHANGED <<cmd, plan, mode, mailbox, idleStarted, idling, updates, todo, connsMu, userMu,
                 db, note, conns, userConns, server, crashed, owed>>

\* serveCmd: lock, and write what is queued.
Lock(c) ==
  /\ pc[c] = "lock" /\ bwMu[c] = Free
  /\ bwMu' = [bwMu EXCEPT ![c] = c]
  /\ updates' = [updates EXCEPT ![c] = {}]
  /\ Goto(c, "run")
  /\ UNCHANGED <<cmd, plan, mode, mailbox, idleStarted, idling, todo, connsMu, userMu, db,
                 note, conns, userConns, server, crashed, owed>>

Running(c, name) == pc[c] = "run" /\ cmd[c].name = name

\* CAPABILITY, COMPRESS, NOOP, STARTTLS, CREATE, DELETE, ENABLE, ID, LIST,
\* STATUS, CHECK, FETCH, STORE, SEARCH and the rest, most of which use the
\* database.
Respond(c) ==
  /\ Running(c, "OTHER")
  /\ db = Free
  /\ Finish(c)
  /\ UNCHANGED <<plan, mode, mailbox, idleStarted, idling, updates, todo, connsMu, userMu,
                 db, note, conns, userConns, server, crashed, owed>>

Login(c) ==
  /\ Running(c, "LOGIN")
  /\ \/ /\ connsMu = Free /\ userMu = Free      \* getUser, u.mu.Lock
        /\ mode' = [mode EXCEPT ![c] = "Auth"]
        /\ userConns' = userConns \cup {c}
     \/ UNCHANGED <<mode, userConns>>           \* bad credentials
  /\ Finish(c)
  /\ UNCHANGED <<plan, mailbox, idleStarted, idling, updates, todo, connsMu, userMu, db,
                 note, conns, server, crashed, owed>>

\* Mutant: the mode stays as it is when the mailbox cannot be read.
SelectKeepsMode(c) ==
  /\ Running(c, "SELECT")
  /\ db = Free
  /\ \/ /\ mailbox' = [mailbox EXCEPT ![c] = cmd[c].box]
        /\ mode' = [mode EXCEPT ![c] = "Selected"]
     \/ /\ mailbox' = [mailbox EXCEPT ![c] = Nil]
        /\ mode' = [mode EXCEPT ![c] = "Selected"]
  /\ updates' = [updates EXCEPT ![c] = {}]
  /\ idling' = [idling EXCEPT ![c] = FALSE]
  /\ idleStarted' = [idleStarted EXCEPT ![c] = FALSE]
  /\ Finish(c)
  /\ UNCHANGED <<plan, todo, connsMu, userMu, db, note, conns, userConns, server, crashed,
                 owed>>

\* cmdSelect; with an error, of Mailbox or of Info, there is no mailbox.
Select(c) ==
  /\ Running(c, "SELECT")
  /\ db = Free
  /\ \/ /\ mailbox' = [mailbox EXCEPT ![c] = cmd[c].box]
        /\ mode' = [mode EXCEPT ![c] = "Selected"]
     \/ /\ mailbox' = [mailbox EXCEPT ![c] = Nil]
        /\ mode' = [mode EXCEPT ![c] = "Auth"]
  /\ updates' = [updates EXCEPT ![c] = IF mailbox[c] = Nil THEN @ ELSE {}]
  /\ idling' = [idling EXCEPT ![c] = FALSE]
  /\ idleStarted' = [idleStarted EXCEPT ![c] = IF mailbox[c] = Nil THEN @ ELSE FALSE]
  /\ Finish(c)
  /\ UNCHANGED <<plan, todo, connsMu, userMu, db, note, conns, userConns, server, crashed,
                 owed>>

\* bwMu is free while the client idles; without a mailbox nothing is written.
Idle(c) ==
  /\ Running(c, "IDLE")
  /\ idleStarted' = [idleStarted EXCEPT ![c] = TRUE]
  /\ idling' = [idling EXCEPT ![c] = TRUE]
  /\ updates' = [updates EXCEPT ![c] = IF mailbox[c] = Nil THEN @ ELSE {}]
  /\ Goto(c, "idle")
  /\ bwMu' = [bwMu EXCEPT ![c] = Free]
  /\ UNCHANGED <<cmd, plan, mode, mailbox, todo, connsMu, userMu, db, note, conns, userConns,
                 server, crashed, owed>>

\* The client ends IDLE, or the connection does.
IdleDone(c) ==
  /\ pc[c] = "idle" /\ bwMu[c] = Free
  /\ idling' = [idling EXCEPT ![c] = FALSE]
  /\ owed' = [owed EXCEPT ![c] = {}]
  /\ Goto(c, "ready")
  /\ cmd' = [cmd EXCEPT ![c] = NoCmd]
  /\ UNCHANGED <<plan, mode, mailbox, idleStarted, updates, lockVars, note, conns,
                 userConns, server, crashed>>

\* The connection is closed, but its goroutine goes on to the next command.
Logout(c) ==
  /\ Running(c, "LOGOUT")
  /\ CloseMailbox({c})
  /\ Finish(c)
  /\ UNCHANGED <<plan, todo, connsMu, userMu, db, note, conns, userConns, server, crashed>>

-----------------------------------------------------------------------------
(***************************************************************************)
(* Commands that change a mailbox                                          *)
(***************************************************************************)
Stage(op, m, self) == [op |-> op, box |-> m, self |-> self]

Begin(c, p) == plan' = [plan EXCEPT ![c] = p] /\ Goto(c, "plan")

\* cmdAppend: the message is in the database; Info and the update follow.
Append_(c) ==
  /\ Running(c, "APPEND")
  /\ db = Free
  /\ \/ Begin(c, <<Stage("dstInfo", cmd[c].box, TRUE)>>) /\ UNCHANGED <<cmd, bwMu>>
     \/ Finish(c) /\ UNCHANGED plan
  /\ UNCHANGED <<mode, mailbox, idleStarted, idling, updates, todo, connsMu, userMu, db,
                 note, conns, userConns, server, crashed, owed>>

\* cmdCopyOrMove for COPY, whose transaction has no callback of interest.
Copy(c) ==
  /\ Running(c, "COPY") /\ mailbox[c] # Nil
  /\ db = Free
  /\ \/ Begin(c, <<Stage("dstInfo", cmd[c].box, TRUE)>>) /\ UNCHANGED <<cmd, bwMu>>
     \/ Finish(c) /\ UNCHANGED plan
  /\ UNCHANGED <<mode, mailbox, idleStarted, idling, updates, todo, connsMu, userMu, db,
                 note, conns, userConns, server, crashed, owed>>

\* EXPUNGE, CLOSE and MOVE open a transaction and call back for each message.
Expunge(c) ==
  /\ pc[c] = "run" /\ cmd[c].name \in {"EXPUNGE", "CLOSE", "MOVE"} /\ mailbox[c] # Nil
  /\ db = Free
  /\ \E k \in 0..MaxExpunge :
       Begin(c, [i \in 1..k |-> Stage("expunge", mailbox[c], FALSE)] \o
         <<Stage("commit", Nil, FALSE)>> \o
         (CASE cmd[c].name = "EXPUNGE" -> <<Stage("info", mailbox[c], TRUE)>>
            [] cmd[c].name = "CLOSE"   -> IF k = 0 THEN <<>> ELSE <<Stage("info", mailbox[c], FALSE)>>
            [] cmd[c].name = "MOVE"    -> <<Stage("info", mailbox[c], TRUE), Stage("dstInfo", cmd[c].box, TRUE)>>))
  /\ db' = c
  /\ UNCHANGED <<cmd, mode, mailbox, idleStarted, idling, updates, bwMu, todo, connsMu, userMu,
                 note, conns, userConns, server, crashed, owed>>

AtStage(c, op) == pc[c] = "plan" /\ plan[c] # <<>> /\ Head(plan[c]).op = op
\* The callback of a message, or the update after Info, is to be sent.
Callback(c) ==
  /\ AtStage(c, "expunge") /\ mailbox[c] # Nil
  /\ Goto(c, "send")
  /\ UNCHANGED <<cmd, plan, mode, mailbox, idleStarted, idling, updates, lockVars, note, conns,
                 userConns, server, crashed, owed>>

Commit(c) ==
  /\ AtStage(c, "commit")
  /\ db' = Free
  /\ plan' = [plan EXCEPT ![c] = Tail(@)]
  /\ UNCHANGED <<pc, cmd, mode, mailbox, idleStarted, idling, updates, bwMu, todo, connsMu,
                 userMu, note, conns, userConns, server, crashed, owed>>

\* Mutant: the transaction is not rolled back.
TxnFailsNoRollback(c) ==
  /\ AtStage(c, "expunge") \/ AtStage(c, "commit")
  /\ plan' = [plan EXCEPT ![c] = <<>>]
  /\ UNCHANGED <<pc, cmd, mode, mailbox, idleStarted, idling, updates, lockVars, note, conns,
                 userConns, server, crashed, owed>>

\* The transaction fails, after any number of callbacks; CLOSE goes on.
TxnFails(c) ==
  /\ AtStage(c, "expunge") \/ AtStage(c, "commit")
  /\ db' = Free
  /\ plan' = [plan EXCEPT ![c] = <<>>]
  /\ UNCHANGED <<pc, cmd, mode, mailbox, idleStarted, idling, updates, bwMu, todo, connsMu,
                 userMu, note, conns, userConns, server, crashed, owed>>

\* mailbox.Info: with an error there is no update.
Info(c) ==
  /\ AtStage(c, "dstInfo") \/ (AtStage(c, "info") /\ mailbox[c] # Nil)
  /\ db = Free
  /\ \/ Goto(c, "send") /\ UNCHANGED plan
     \/ plan' = [plan EXCEPT ![c] = Tail(@)] /\ UNCHANGED pc
  /\ UNCHANGED <<cmd, mode, mailbox, idleStarted, idling, updates, lockVars, note, conns,
                 userConns, server, crashed, owed>>

\* The rest of the handler: CLOSE closes, APPEND and MOVE write the updates.
Done(c) ==
  /\ pc[c] = "plan" /\ plan[c] = <<>>
  /\ \/ cmd[c].name = "CLOSE" /\ CloseMailbox({c})
     \/ /\ cmd[c].name # "CLOSE"
        /\ updates' = [updates EXCEPT ![c] = IF cmd[c].name \in {"APPEND", "MOVE"} THEN {} ELSE @]
        /\ UNCHANGED <<mode, mailbox, idleStarted, idling, owed>>
  /\ Finish(c)
  /\ UNCHANGED <<plan, todo, connsMu, userMu, db, note, conns, userConns, server, crashed>>

\* Closed from outside, a command finds c.mailbox nil; the panic of a
\* goroutine ends the process.
CommandPanics(c) ==
  /\ mailbox[c] = Nil
  /\ \/ pc[c] = "run" /\ cmd[c].name \in BoxCmds
     \/ AtStage(c, "expunge")
     \/ AtStage(c, "info")
  /\ crashed' = "command"
  /\ UNCHANGED <<connVars, lockVars, note, conns, userConns, server, owed>>

-----------------------------------------------------------------------------
(***************************************************************************)
(* sendIdleUpdate, with the bwMu of the sender held                        *)
(***************************************************************************)
Listens(d, m) == mailbox[d] # Nil /\ mailbox[d] = m /\ idleStarted[d]

\* The updates of d after one more; a connection that idles gets them at once.
Queue(d, u) == [updates EXCEPT ![d] = IF idling[d] THEN {} ELSE @ \cup {u}]

SendStart(c) ==
  /\ pc[c] = "send"
  /\ connsMu = Free /\ userMu = Free
  /\ userMu' = c
  /\ \E q \in Orders(userConns) : todo' = [todo EXCEPT ![c] = q]
  /\ Goto(c, "visit")
  /\ UNCHANGED <<cmd, plan, mode, mailbox, idleStarted, idling, updates, bwMu, connsMu, db, note,
                 conns, userConns, server, crashed, owed>>

SendTo(c, d) ==
  /\ pc[c] = "visit" /\ todo[c] # <<>> /\ d = Head(todo[c])
  /\ d = c \/ bwMu[d] = Free
  /\ LET s == Head(plan[c])
         u == <<IF s.op = "expunge" THEN "EXPUNGE" ELSE "EXISTS", s.box>>
     IN  updates' = IF ~Listens(d, s.box) \/ (d = c /\ ~s.self) THEN updates
                    ELSE IF d = c THEN [updates EXCEPT ![d] = @ \cup {u}]
                    ELSE Queue(d, u)
  /\ todo' = [todo EXCEPT ![c] = Tail(@)]
  /\ UNCHANGED <<pc, cmd, plan, mode, mailbox, idleStarted, idling, bwMu, connsMu, userMu, db,
                 note, conns, userConns, server, crashed, owed>>

SendDone(c) ==
  /\ pc[c] = "visit" /\ todo[c] = <<>>
  /\ userMu' = Free
  /\ plan' = [plan EXCEPT ![c] = Tail(@)]
  /\ Goto(c, "plan")
  /\ UNCHANGED <<cmd, mode, mailbox, idleStarted, idling, updates, bwMu, todo, connsMu, db, note,
                 conns, userConns, server, crashed, owed>>

-----------------------------------------------------------------------------
(***************************************************************************)
(* Delivered mail                                                          *)
(***************************************************************************)
\* Box.InsertMsg has committed and starts a goroutine for Notify.
Deliver(n, m) ==
  /\ note[n].pc = "none"
  /\ db = Free
  /\ note' = [note EXCEPT ![n] = [NoNote EXCEPT !.pc = "start", !.box = m]]
  /\ owed' = [c \in Conns |-> IF idling[c] /\ mailbox[c] = m THEN owed[c] \cup {n} ELSE owed[c]]
  /\ UNCHANGED <<connVars, lockVars, conns, userConns, server, crashed>>

NotifyStart(n) ==
  /\ note[n].pc = "start"
  /\ connsMu = Free /\ userMu = Free
  /\ userMu' = n
  /\ \E q \in Orders(userConns) : todo' = [todo EXCEPT ![n] = q]
  /\ note' = [note EXCEPT ![n].pc = "visit"]
  /\ UNCHANGED <<connVars, bwMu, connsMu, db, conns, userConns, server, crashed, owed>>

\* The first connection that listens is asked for Info, with its bwMu held.
NotifyVisit(n, d) ==
  /\ note[n].pc = "visit" /\ todo[n] # <<>> /\ d = Head(todo[n])
  /\ bwMu[d] = Free
  /\ \/ /\ Listens(d, note[n].box) /\ ~note[n].info
        /\ bwMu' = [bwMu EXCEPT ![d] = n]
        /\ note' = [note EXCEPT ![n].pc = "info", ![n].at = d]
        /\ UNCHANGED <<updates, owed, todo>>
     \/ /\ Listens(d, note[n].box) /\ note[n].info
        /\ updates' = Queue(d, <<"EXISTS", note[n].box>>)
        /\ owed' = [owed EXCEPT ![d] = @ \ {n}]
        /\ todo' = [todo EXCEPT ![n] = Tail(@)]
        /\ UNCHANGED <<bwMu, note>>
     \/ /\ ~Listens(d, note[n].box)
        /\ todo' = [todo EXCEPT ![n] = Tail(@)]
        /\ UNCHANGED <<updates, owed, bwMu, note>>
  /\ UNCHANGED <<pc, cmd, plan, mode, mailbox, idleStarted, idling, connsMu, userMu, db, conns,
                 userConns, server, crashed>>

\* Mutant: the connection that was asked for Info gets no update.
NotifyInfoSkips(n) ==
  LET d == note[n].at IN
  /\ note[n].pc = "info" /\ db = Free
  /\ note' = [note EXCEPT ![n].pc = "visit", ![n].at = Nil, ![n].info = TRUE]
  /\ bwMu' = [bwMu EXCEPT ![d] = Free]
  /\ todo' = [todo EXCEPT ![n] = Tail(@)]
  /\ UNCHANGED <<connVars, connsMu, userMu, db, conns, userConns, server, crashed, owed>>

\* The update is queued even if the mailbox was closed meanwhile, without lock.
NotifyInfo(n) ==
  LET d == note[n].at IN
  /\ note[n].pc = "info" /\ db = Free
  /\ note' = [note EXCEPT ![n].pc = "visit", ![n].at = Nil, ![n].info = TRUE]
  /\ updates' = Queue(d, <<"EXISTS", note[n].box>>)
  /\ owed' = [owed EXCEPT ![d] = @ \ {n}]
  /\ bwMu' = [bwMu EXCEPT ![d] = Free]
  /\ todo' = [todo EXCEPT ![n] = Tail(@)]
  /\ UNCHANGED <<pc, cmd, plan, mode, mailbox, idleStarted, idling, connsMu, userMu, db, conns,
                 userConns, server, crashed>>

\* Info fails: Notify returns, with bwMu locked and the rest of its loop undone.
NotifyFails(n) ==
  /\ note[n].pc = "info"
  /\ note' = [note EXCEPT ![n] = [NoNote EXCEPT !.pc = "leaked"]]
  /\ userMu' = Free
  /\ todo' = [todo EXCEPT ![n] = <<>>]
  /\ UNCHANGED <<connVars, bwMu, connsMu, db, conns, userConns, server, crashed, owed>>

\* c.mailbox, which was just found, is nil when its Info is called.
NotifyPanics(n) ==
  /\ note[n].pc = "info" /\ mailbox[note[n].at] = Nil
  /\ crashed' = "notify"
  /\ UNCHANGED <<connVars, lockVars, note, conns, userConns, server, owed>>

NotifyDone(n) ==
  /\ note[n].pc = "visit" /\ todo[n] = <<>>
  /\ userMu' = Free
  /\ note' = [note EXCEPT ![n] = NoNote]
  /\ UNCHANGED <<connVars, bwMu, todo, connsMu, db, conns, userConns, server, crashed, owed>>

-----------------------------------------------------------------------------
(***************************************************************************)
(* The end of a connection and of the server                               *)
(***************************************************************************)
\* ParseCommand returns an error: serve ends, and its deferred function
\* closes the mailbox without bwMu.
Exit(c) ==
  /\ pc[c] = "ready"
  /\ CloseMailbox({c})
  /\ Goto(c, "exit")
  /\ UNCHANGED <<cmd, plan, lockVars, note, conns, userConns, server, crashed>>

ExitConns(c) ==
  /\ pc[c] = "exit"
  /\ connsMu = Free
  /\ connsMu' = c
  /\ conns' = conns \ {c}
  /\ Goto(c, "exitUser")
  /\ UNCHANGED <<cmd, plan, mode, mailbox, idleStarted, idling, updates, bwMu, todo, userMu, db,
                 note, userConns, server, crashed, owed>>

\* user.mu is taken with connsMu held.  A new connection is a new Conn.
ExitUser(c) ==
  /\ pc[c] = "exitUser"
  /\ c \in userConns => userMu = Free
  /\ userConns' = userConns \ {c}
  /\ connsMu' = Free
  /\ pc' = [pc EXCEPT ![c] = IF bwMu[c] = Free THEN "none" ELSE "gone"]
  /\ mode' = [mode EXCEPT ![c] = "NonAuth"]
  /\ idleStarted' = [idleStarted EXCEPT ![c] = FALSE]
  /\ updates' = [updates EXCEPT ![c] = {}]
  /\ UNCHANGED <<cmd, plan, mailbox, idling, bwMu, todo, userMu, db, note,
                 conns, server, crashed, owed>>

Shutdown ==
  /\ server = "serving"
  /\ server' = "draining"
  /\ UNCHANGED <<connVars, lockVars, note, conns, userConns, crashed, owed>>

\* ServeTLS returns when no connection is left.
Drained ==
  /\ server = "draining" /\ connsMu = Free /\ conns = {}
  /\ server' = "closed"
  /\ UNCHANGED <<connVars, lockVars, note, conns, userConns, crashed, owed>>

\* At the deadline it closes the connections, without their bwMu.
CloseAll ==
  /\ server = "draining" /\ connsMu = Free /\ conns # {}
  /\ CloseMailbox(conns)
  /\ server' = "closed"
  /\ UNCHANGED <<pc, cmd, plan, lockVars, note, conns, userConns, crashed>>

-----------------------------------------------------------------------------
Init ==
  /\ pc = [c \in Conns |-> "none"] /\ cmd = [c \in Conns |-> NoCmd]
  /\ plan = [c \in Conns |-> <<>>] /\ mode = [c \in Conns |-> "NonAuth"]
  /\ mailbox = [c \in Conns |-> Nil] /\ updates = [c \in Conns |-> {}]
  /\ idleStarted = [c \in Conns |-> FALSE] /\ idling = [c \in Conns |-> FALSE]
  /\ bwMu = [c \in Conns |-> Free] /\ todo = [t \in Threads |-> <<>>]
  /\ note = [n \in Notes |-> NoNote]
  /\ conns = {} /\ userConns = {}
  /\ connsMu = Free /\ userMu = Free /\ db = Free
  /\ server = "serving" /\ crashed = "no"
  /\ owed = [c \in Conns |-> {}]

\* What the code does by itself, once it can.
ConnStep(c) ==
  \/ Register(c) \/ Lock(c) \/ Respond(c) \/ Login(c) \/ Select(c) \/ Idle(c) \/ Logout(c)
  \/ Append_(c) \/ Copy(c) \/ Expunge(c) \/ Callback(c) \/ Commit(c) \/ TxnFails(c) \/ Info(c)
  \/ Done(c) \/ SendStart(c) \/ (\E d \in Conns : SendTo(c, d)) \/ SendDone(c)
  \/ CommandPanics(c) \/ ExitConns(c) \/ ExitUser(c)

NoteStep(n) ==
  \/ NotifyStart(n) \/ (\E d \in Conns : NotifyVisit(n, d)) \/ NotifyInfo(n) \/ NotifyFails(n)
  \/ NotifyPanics(n) \/ NotifyDone(n)

\* What clients, senders of mail and the operator do.
Environment ==
  \/ \E c \in Conns : Accept(c) \/ Parse(c) \/ IdleDone(c) \/ Exit(c)
  \/ \E n \in Notes, m \in Boxes : Deliver(n, m)
  \/ Shutdown \/ Drained \/ CloseAll

Next ==
  /\ crashed = "no"
  /\ \/ \E c \in Conns : ConnStep(c)
     \/ \E n \in Notes : NoteStep(n)
     \/ Environment

Spec == Init /\ [][Next]_vars

\* Goroutines that can run do run, and sync.Mutex starves none that waits.
FairSpec ==
  /\ Spec
  /\ \A c \in Conns : SF_vars(crashed = "no" /\ ConnStep(c))
  /\ \A n \in Notes : SF_vars(crashed = "no" /\ NoteStep(n))

-----------------------------------------------------------------------------
(***************************************************************************)
(* Properties                                                              *)
(***************************************************************************)
\* Every variable has its type, and a lock is held by a thread on its way to
\* release it: user.mu in a loop over user.conns, connsMu at the end of a
\* connection, the database up to the commit of a transaction.
TypeOK ==
  /\ pc \in [Conns -> {"none", "wait", "ready", "lock", "run", "plan", "send", "visit", "idle",
                       "exit", "exitUser", "gone"}]
  /\ mode \in [Conns -> {"NonAuth", "Auth", "Selected"}]
  /\ mailbox \in [Conns -> Boxes \cup {Nil}]
  /\ idleStarted \in [Conns -> BOOLEAN] /\ idling \in [Conns -> BOOLEAN]
  /\ updates \in [Conns -> SUBSET ({"EXISTS", "EXPUNGE"} \X Boxes)]
  /\ bwMu \in [Conns -> Threads \cup {Free}]
  /\ todo \in [Threads -> Seq(Conns)]
  /\ conns \subseteq Conns /\ userConns \subseteq Conns
  /\ connsMu \in Conns \cup {Free} /\ userMu \in Threads \cup {Free} /\ db \in Conns \cup {Free}
  /\ server \in {"serving", "draining", "closed"} /\ crashed \in {"no", "command", "notify"}
  /\ owed \in [Conns -> SUBSET Notes]
  /\ \A c \in Conns :
       /\ bwMu[c] = c <=> pc[c] \in {"run", "plan", "send", "visit"}
       /\ userMu = c <=> pc[c] = "visit"
       /\ connsMu = c <=> pc[c] = "exitUser"
       /\ db = c <=> \E i \in DOMAIN plan[c] : plan[c][i].op = "commit"
  /\ \A n \in Notes : userMu = n <=> note[n].pc \in {"visit", "info"}

\* A command that works on the selected mailbox finds one: the mode that the
\* parser checked before the lock was free still holds, except that ServeTLS
\* closes connections under their feet when the time of Shutdown is over.
CommandsFindMailbox == crashed = "command" => server = "closed"

\* The updates that are queued for a connection are about the mailbox it has
\* selected, so no EXPUNGE or EXISTS is applied to another one.  Only one that
\* is closed under Notify, at its end or by ServeTLS, is left with an update;
\* it has no mailbox, and gets none before the update is out of the queue.
UpdatesForMailbox ==
  \A c \in Conns : \A u \in updates[c] :
    \/ u[2] = mailbox[c]
    \/ mailbox[c] = Nil /\ (server = "closed" \/ pc[c] \in {"exit", "exitUser", "gone"})

\* A connection that idles when mail arrives is told of it: until then, the
\* goroutine of Notify has it still ahead, whatever commands and connections
\* do; an error of Info, which ends Notify in the middle of its loop, is all
\* that can prevent it.
NotifyReaches ==
  \A c \in Conns : \A n \in owed[c] :
    note[n].pc \in {"start", "leaked"} \/ c \in Ahead(n)

\* "an externally-send message should notify over IDLE" (commandtest.go:571):
\* in the end, the goroutine of Notify does reach the connections that idle,
\* if no Info fails.
IdleNotified ==
  \A c \in Conns, n \in Notes :
    (n \in owed[c]) ~> \/ n \notin owed[c]
                       \/ crashed # "no"
                       \/ \E m \in Notes : note[m].pc = "leaked"
=============================================================================
