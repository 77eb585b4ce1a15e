----------------------------- MODULE SmtpServer -----------------------------
(***************************************************************************)
(* The SMTP server (smtp/smtpserver): the accept loop, the limit on        *)
(* concurrent sessions (a mutex and a sync.Cond), Shutdown, and each       *)
(* session's command loop.  What NewMessage returns (smtpdb's smtpMsg) is  *)
(* only known by the calls the session makes on it: AddRecipient, Write,   *)
(* and then Close or Cancel.                                               *)
(***************************************************************************)
EXTENDS Integers, FiniteSets

CONSTANTS
  Conns,          \* connections clients make
  MaxSessions,    \* Server.MaxSessions
  MaxRecipients,  \* Server.MaxRecipients
  ServingTLS,     \* Server.servingTLS: ServeTLS, not ServeSTARTTLS
  AllowNoTLS,     \* Server.AllowNoTLS
  HasAuth,        \* Server.Auth is set
  MustAuth,       \* Server.MustAuth
  MaxMsgs         \* bound: number of messages begun

ASSUME SmtpServerAssumption ==
  /\ IsFiniteSet(Conns)
  /\ MaxSessions \in Nat \ {0}      \* serve replaces 0 by the default
  /\ MaxRecipients \in Nat \ {0}
  /\ ServingTLS \in BOOLEAN /\ AllowNoTLS \in BOOLEAN
  /\ HasAuth \in BOOLEAN /\ MustAuth \in BOOLEAN
  /\ MaxMsgs \in Nat

Msgs == 1..MaxMsgs
NoMsg == 0     \* session.msg is nil

VARIABLES
  serving,     \* where Server.serve is
  lnOpen,      \* the listener is open
  shutdown,    \* Server.shutdown is closed
  ctxDone,     \* the context given to Shutdown is done
  sessions,    \* Server.sessions
  phase,       \* connection -> where its goroutine is
  open,        \* connection -> the server has not closed it
  tls,         \* session.tls
  authToken,   \* session.authToken # 0
  msg,         \* session.msg
  numRcpts,    \* session.numRcpts
  nmsgs,       \* messages begun
  msgState,    \* message -> the last call of its life cycle
  rcpts        \* message -> recipients added

serverVars == <<serving, lnOpen, shutdown, ctxDone>>
connVars   == <<tls, authToken, msg, numRcpts>>
msgVars    == <<nmsgs, msgState, rcpts>>
vars       == <<serverVars, sessions, phase, open, connVars, msgVars>>

\* "new": not accepted.  "starting": serveSession is about to look at the number
\* of sessions; "waiting": it is in sessionsCond.Wait.  "command": the command
\* loop; "mail": a MAIL command past its checks; "data": the body is read.
\* "ending" and "leaving": before the first and the second deferred function.
Phases == {"new", "starting", "waiting", "command", "mail", "data", "ending", "leaving", "ended"}

\* The phases of a registered session.
Served == {"command", "mail", "data", "ending", "leaving"}

Init ==
  /\ serving = "accept" /\ lnOpen = TRUE /\ shutdown = FALSE /\ ctxDone = FALSE
  /\ sessions = {}
  /\ phase = [c \in Conns |-> "new"]
  /\ open = [c \in Conns |-> TRUE]
  /\ tls = [c \in Conns |-> ServingTLS]
  /\ authToken = [c \in Conns |-> FALSE]
  /\ msg = [c \in Conns |-> NoMsg]
  /\ numRcpts = [c \in Conns |-> 0]
  /\ nmsgs = 0
  /\ msgState = [m \in Msgs |-> "none"]
  /\ rcpts = [m \in Msgs |-> 0]

Goto(c, p) == phase' = [phase EXCEPT ![c] = p]

\* s.msg = nil, s.numRcpts = 0, after the message got the call that ends it.
EndMsg(c, call) ==
  /\ msgState' = [msgState EXCEPT ![msg[c]] = call]
  /\ msg' = [msg EXCEPT ![c] = NoMsg]
  /\ UNCHANGED <<nmsgs, rcpts>>

-----------------------------------------------------------------------------
(***************************************************************************)
(* The server.                                                             *)
(***************************************************************************)
Accept(c) ==
  /\ serving = "accept" /\ lnOpen
  /\ phase[c] = "new"
  /\ Goto(c, "starting")
  /\ UNCHANGED <<serverVars, sessions, open, connVars, msgVars>>

\* Accept returns an error that is not temporary, and serve returns it.
AcceptFails ==
  /\ serving = "accept" /\ lnOpen /\ ~shutdown
  /\ serving' = "failed"
  /\ lnOpen' = FALSE
  /\ UNCHANGED <<shutdown, ctxDone, sessions, phase, open, connVars, msgVars>>

\* Shutdown closes the channel and then the listener.
Shutdown ==
  /\ ~shutdown
  /\ shutdown' = TRUE
  /\ UNCHANGED <<serving, lnOpen, ctxDone, sessions, phase, open, connVars, msgVars>>

ShutdownListener ==
  /\ shutdown /\ lnOpen
  /\ lnOpen' = FALSE
  /\ UNCHANGED <<serving, shutdown, ctxDone, sessions, phase, open, connVars, msgVars>>

\* The caller of Shutdown gives the sessions this long.
ContextDone ==
  /\ shutdown /\ ~ctxDone
  /\ ctxDone' = TRUE
  /\ UNCHANGED <<serving, lnOpen, shutdown, sessions, phase, open, connVars, msgVars>>

\* Accept returns an error after the channel was closed.
StopAccepting ==
  /\ serving = "accept" /\ shutdown
  /\ serving' = "cleanup"
  /\ UNCHANGED <<lnOpen, shutdown, ctxDone, sessions, phase, open, connVars, msgVars>>

\* serve returns because there are no sessions ...
Drained ==
  /\ serving = "cleanup"
  /\ sessions = {}
  /\ serving' = "drained"
  /\ lnOpen' = FALSE
  /\ UNCHANGED <<shutdown, ctxDone, sessions, phase, open, connVars, msgVars>>

\* Mutant of Expired: it still waits for the sessions.
ExpiredWaits ==
  /\ serving = "cleanup" /\ ctxDone
  /\ sessions = {}
  /\ serving' = "expired"
  /\ lnOpen' = FALSE
  /\ open' = [c \in Conns |-> open[c] /\ c \notin sessions]
  /\ UNCHANGED <<shutdown, ctxDone, sessions, phase, connVars, msgVars>>

\* ... or because the time is over, and closes their connections.
Expired ==
  /\ serving = "cleanup" /\ ctxDone
  /\ serving' = "expired"
  /\ lnOpen' = FALSE
  /\ open' = [c \in Conns |-> open[c] /\ c \notin sessions]
  /\ UNCHANGED <<shutdown, ctxDone, sessions, phase, connVars, msgVars>>

-----------------------------------------------------------------------------
(***************************************************************************)
(* serveSession, up to the command loop and from its end.                  *)
(***************************************************************************)
\* The condition of the wait loop.
Full == Cardinality(sessions) > MaxSessions

Register(c) ==
  /\ phase[c] = "starting"
  /\ ~Full
  /\ sessions' = sessions \cup {c}
  /\ Goto(c, "command")
  /\ UNCHANGED <<serverVars, open, connVars, msgVars>>

Wait(c) ==
  /\ phase[c] = "starting"
  /\ Full
  /\ Goto(c, "waiting")
  /\ UNCHANGED <<serverVars, sessions, open, connVars, msgVars>>

\* Mutant of Cleanup: the message is forgotten.
CleanupForgets(c) ==
  /\ phase[c] = "ending"
  /\ open' = [open EXCEPT ![c] = FALSE]
  /\ msg' = [msg EXCEPT ![c] = NoMsg]
  /\ Goto(c, "leaving")
  /\ UNCHANGED <<serverVars, sessions, tls, authToken, numRcpts, msgVars>>

\* The deferred function that closes the connection and cancels the message.
Cleanup(c) ==
  /\ phase[c] = "ending"
  /\ open' = [open EXCEPT ![c] = FALSE]
  /\ IF msg[c] = NoMsg THEN UNCHANGED <<msg, msgVars>> ELSE EndMsg(c, "cancelled")
  /\ Goto(c, "leaving")
  /\ UNCHANGED <<serverVars, sessions, tls, authToken, numRcpts>>

\* Mutant of Leave: nobody is woken up.
LeaveSilently(c) ==
  /\ phase[c] = "leaving"
  /\ sessions' = sessions \ {c}
  /\ Goto(c, "ended")
  /\ UNCHANGED <<serverVars, open, connVars, msgVars>>

\* The deferred function that takes the session off the list and signals.
Leave(c) ==
  /\ phase[c] = "leaving"
  /\ sessions' = sessions \ {c}
  /\ \/ /\ \A d \in Conns : phase[d] # "waiting"
        /\ Goto(c, "ended")
     \/ \E d \in Conns :
          /\ phase[d] = "waiting"
          /\ phase' = [phase EXCEPT ![c] = "ended", ![d] = "starting"]
  /\ UNCHANGED <<serverVars, open, connVars, msgVars>>

-----------------------------------------------------------------------------
(***************************************************************************)
(* The commands.  A command that is refused without ending the session,    *)
(* NOOP and EHLO change nothing and are left out.  After the server closed *)
(* the connection the reader may still have commands in its buffer.        *)
(***************************************************************************)
\* hasTLS
TLSEnough(c) == AllowNoTLS \/ ServingTLS \/ tls[c]

\* QUIT, a read error or timeout, or a connection closed by either side.
EndSession(c) ==
  /\ phase[c] \in {"command", "data"}
  /\ Goto(c, "ending")
  /\ UNCHANGED <<serverVars, sessions, open, connVars, msgVars>>

StartTLS(c) ==
  /\ phase[c] = "command"
  /\ ~tls[c]
  /\ tls' = [tls EXCEPT ![c] = TRUE]
  /\ UNCHANGED <<serverVars, sessions, phase, open, authToken, msg, numRcpts, msgVars>>

Auth(c, ok) ==
  /\ phase[c] = "command"
  /\ HasAuth
  /\ authToken' = [authToken EXCEPT ![c] = ok]
  /\ UNCHANGED <<serverVars, sessions, phase, open, tls, msg, numRcpts, msgVars>>

\* Mutant of Mail: no look at the shutdown channel.
MailAnyTime(c) ==
  /\ phase[c] = "command"
  /\ TLSEnough(c)
  /\ MustAuth => authToken[c]
  /\ msg[c] = NoMsg
  /\ Goto(c, "mail")
  /\ UNCHANGED <<serverVars, sessions, open, connVars, msgVars>>

\* MAIL, up to NewMessage.
Mail(c) ==
  /\ phase[c] = "command"
  /\ TLSEnough(c)
  /\ MustAuth => authToken[c]
  /\ msg[c] = NoMsg
  /\ Goto(c, IF shutdown THEN "ending" ELSE "mail")
  /\ UNCHANGED <<serverVars, sessions, open, connVars, msgVars>>

NewMessage(c) ==
  /\ phase[c] = "mail"
  /\ nmsgs < MaxMsgs
  /\ nmsgs' = nmsgs + 1
  /\ msgState' = [msgState EXCEPT ![nmsgs + 1] = "open"]
  /\ msg' = [msg EXCEPT ![c] = nmsgs + 1]
  /\ Goto(c, "command")
  /\ UNCHANGED <<serverVars, sessions, open, tls, authToken, numRcpts, rcpts>>

NewMessageFails(c) ==
  /\ phase[c] = "mail"
  /\ Goto(c, "ending")
  /\ UNCHANGED <<serverVars, sessions, open, connVars, msgVars>>

\* Mutant of TooMany: off by two.
TooManyLate(c) == numRcpts[c] > MaxRecipients

TooMany(c) == numRcpts[c] + 1 >= MaxRecipients

\* RCPT, counted before it is looked at: a bad address, one that AddRecipient
\* refuses, or one it adds.
Rcpt(c, added) ==
  /\ phase[c] = "command"
  /\ TLSEnough(c)
  /\ msg[c] # NoMsg
  /\ ~TooMany(c)
  /\ numRcpts' = [numRcpts EXCEPT ![c] = @ + 1]
  /\ rcpts' = IF added THEN [rcpts EXCEPT ![msg[c]] = @ + 1] ELSE rcpts
  /\ UNCHANGED <<serverVars, sessions, phase, open, tls, authToken, msg, nmsgs, msgState>>

\* AddRecipient returns an error.
RcptFails(c) ==
  /\ phase[c] = "command"
  /\ TLSEnough(c)
  /\ msg[c] # NoMsg
  /\ ~TooMany(c)
  /\ numRcpts' = [numRcpts EXCEPT ![c] = @ + 1]
  /\ Goto(c, "ending")
  /\ UNCHANGED <<serverVars, sessions, open, tls, authToken, msg, msgVars>>

Data(c) ==
  /\ phase[c] = "command"
  /\ TLSEnough(c)
  /\ msg[c] # NoMsg /\ numRcpts[c] # 0
  /\ Goto(c, "data")
  /\ UNCHANGED <<serverVars, sessions, open, connVars, msgVars>>

\* Mutant of Close: the session keeps the message after an error.
CloseKeeps(c, call) ==
  /\ phase[c] = "data"
  /\ msgState' = [msgState EXCEPT ![msg[c]] = call]
  /\ IF call = "queued" THEN msg' = [msg EXCEPT ![c] = NoMsg] ELSE UNCHANGED msg
  /\ numRcpts' = [numRcpts EXCEPT ![c] = 0]
  /\ Goto(c, IF call = "queued" THEN "command" ELSE "ending")
  /\ UNCHANGED <<serverVars, sessions, open, tls, authToken, nmsgs, rcpts>>

\* The end of the body: Close, whose error ends the session.
Close(c, call) ==
  /\ phase[c] = "data"
  /\ EndMsg(c, call)
  /\ numRcpts' = [numRcpts EXCEPT ![c] = 0]
  /\ Goto(c, IF call = "queued" THEN "command" ELSE "ending")
  /\ UNCHANGED <<serverVars, sessions, open, tls, authToken>>

\* RSET
Reset(c) ==
  /\ phase[c] = "command"
  /\ TLSEnough(c)
  /\ IF msg[c] = NoMsg THEN UNCHANGED <<msg, msgVars>> ELSE EndMsg(c, "cancelled")
  /\ numRcpts' = [numRcpts EXCEPT ![c] = 0]
  /\ UNCHANGED <<serverVars, sessions, phase, open, tls, authToken>>

-----------------------------------------------------------------------------
ServerNext ==
  \/ AcceptFails \/ Shutdown \/ ShutdownListener \/ ContextDone
  \/ StopAccepting \/ Drained \/ Expired

ConnNext(c) ==
  \/ Accept(c) \/ Register(c) \/ Wait(c) \/ Cleanup(c) \/ Leave(c)
  \/ EndSession(c)
  \/ StartTLS(c)
  \/ \E ok \in BOOLEAN : Auth(c, ok)
  \/ Mail(c) \/ NewMessage(c) \/ NewMessageFails(c)
  \/ \E added \in BOOLEAN : Rcpt(c, added)
  \/ RcptFails(c)
  \/ Data(c)
  \/ \E call \in {"queued", "failed"} : Close(c, call)
  \/ Reset(c)

Next == ServerNext \/ \E c \in Conns : ConnNext(c)

Spec == Init /\ [][Next]_vars

\* The goroutines are scheduled, a closed listener's Accept fails, and the
\* context given to Shutdown has a time limit.  Nothing is assumed of the
\* clients: spilldb sets no ReadTimeout.
Fairness ==
  /\ WF_vars(ShutdownListener)
  /\ WF_vars(ContextDone)
  /\ WF_vars(~lnOpen /\ StopAccepting)
  /\ WF_vars(Drained)
  /\ WF_vars(Expired)
  /\ \A c \in Conns : WF_vars(Register(c) \/ Wait(c) \/ Cleanup(c) \/ Leave(c)
                                 \/ NewMessage(c) \/ NewMessageFails(c))

FairSpec == Spec /\ Fairness

-----------------------------------------------------------------------------
(***************************************************************************)
(* Properties                                                              *)
(***************************************************************************)
\* Every variable has its type.
TypeOK ==
  /\ serving \in {"accept", "failed", "cleanup", "drained", "expired"}
  /\ lnOpen \in BOOLEAN /\ shutdown \in BOOLEAN /\ ctxDone \in BOOLEAN
  /\ sessions \subseteq Conns
  /\ phase \in [Conns -> Phases]
  /\ open \in [Conns -> BOOLEAN]
  /\ tls \in [Conns -> BOOLEAN]
  /\ authToken \in [Conns -> BOOLEAN]
  /\ msg \in [Conns -> 0..MaxMsgs]
  /\ numRcpts \in [Conns -> 0..(MaxRecipients - 1)]
  /\ nmsgs \in 0..MaxMsgs
  /\ msgState \in [Msgs -> {"none", "open", "queued", "failed", "cancelled"}]
  /\ rcpts \in [Msgs -> Nat]

\* However many goroutines leave the wait loop of serveSession, no more than
\* MaxSessions + 1 sessions are served at a time: the loop waits while there
\* are more than MaxSessions, one more than the "max concurrent clients" that
\* the field is documented to be (SessionLimit, which the code violates).
SessionsBounded == Cardinality(sessions) <= MaxSessions + 1

Waiting  == {c \in Conns : phase[c] = "waiting"}
Starting == {c \in Conns : phase[c] = "starting"}

\* No connection sleeps in sessionsCond.Wait while there is room: Leave's Signal
\* wakes one goroutine per free place, even when new connections take the
\* places first.
NoLostWakeup ==
  Waiting # {} => Cardinality(sessions) + Cardinality(Starting) > MaxSessions

\* A message that NewMessage made and that has had neither Close nor Cancel is
\* the message of exactly one served session, which will see to it.
MessagesOwned ==
  /\ \A m \in Msgs : msgState[m] = "open" => \E c \in sessions : msg[c] = m
  /\ \A c \in Conns : msg[c] # NoMsg => c \in sessions /\ msgState[msg[c]] = "open"
  /\ \A c, d \in Conns : msg[c] # NoMsg /\ msg[c] = msg[d] => c = d

\* A message gets Close or Cancel once, and nothing after that.
EndsOnce ==
  [][\A m \in Msgs : msgState[m] \in {"queued", "failed", "cancelled"} =>
       msgState'[m] = msgState[m] /\ rcpts'[m] = rcpts[m]]_<<msgState, rcpts>>

\* When Shutdown returns because the sessions have ended, no message is under
\* way and none will be: not by a connection that was accepted but not yet on
\* the list of sessions, either.
DrainedIsQuiet ==
  serving = "drained" => \A c \in Conns : msg[c] = NoMsg /\ phase[c] # "mail"

\* A message never has as many recipients as MaxRecipients, over any sequence
\* of RCPT, RSET and MAIL.
RecipientsBounded == \A m \in Msgs : rcpts[m] < MaxRecipients

\* After Shutdown, serve returns, however long its clients stay.
ServeReturns == shutdown ~> serving \in {"failed", "drained", "expired"}

\* If every session comes to an end, every connection the server accepted is
\* served: none is left behind in sessionsCond.Wait.
EveryoneServed ==
  (\A c \in Conns : phase[c] \in Served ~> phase[c] = "ended")
    => (\A c \in Conns : phase[c] = "starting" ~> phase[c] = "ended")

-----------------------------------------------------------------------------
(***************************************************************************)
(* What the proofs need besides the properties.                            *)
(***************************************************************************)
\* The list of sessions and the goroutines agree, and only a session that can
\* still get commands, or is about to cancel it, has a message.
PhaseInv ==
  /\ \A c \in Conns : c \in sessions <=> phase[c] \in Served
  /\ \A c \in Conns : phase[c] \notin {"command", "data", "ending"} => msg[c] = NoMsg
  /\ \A c \in Conns : phase[c] = "data" => msg[c] # NoMsg

\* serve stops accepting only after the channel was closed.
ShutdownInv == serving \in {"cleanup", "drained", "expired"} => shutdown

\* Messages are numbered as they begin.
NumberInv == \A m \in Msgs : m > nmsgs => msgState[m] = "none" /\ rcpts[m] = 0

\* A message has no more recipients than its session has counted.
CountInv == \A c \in Conns : msg[c] # NoMsg => rcpts[msg[c]] <= numRcpts[c]

-----------------------------------------------------------------------------
(***************************************************************************)
(* What comments say, and the code does not do.                            *)
(***************************************************************************)
\* Server.MaxSessions: "max concurrent clients".
SessionLimit == Cardinality(sessions) <= MaxSessions

\* Server.MaxRecipients: "max message recipients".
RecipientLimit ==
  \A c \in Conns : msg[c] # NoMsg /\ TooMany(c) => rcpts[msg[c]] >= MaxRecipients
=============================================================================
