-------------------------- MODULE SmtpServerProofs --------------------------
(***************************************************************************)
(* Theorems about the SMTP server: types, the life cycle of a message, the *)
(* limits, and that no wake-up is lost.                                    *)
(***************************************************************************)
EXTENDS SmtpServer, FiniteSetTheorems, TLAPS

\* What a session's steps rest on, all of it inductive together.
Inv ==
  /\ TypeOK
  /\ PhaseInv
  /\ ShutdownInv
  /\ NumberInv
  /\ CountInv
  /\ MessagesOwned
  /\ RecipientsBounded
  /\ DrainedIsQuiet

\* A server that begins to accept has no sessions and no messages.
LEMMA InitInv == Init => Inv
<1> USE SmtpServerAssumption DEF Init
<1>1. Init => TypeOK
  <2>1. 0 \in 0..(MaxRecipients - 1) /\ 0 \in 0..MaxMsgs
    OBVIOUS
  <2>2. Init => /\ open \in [Conns -> BOOLEAN] /\ tls \in [Conns -> BOOLEAN]
                /\ authToken \in [Conns -> BOOLEAN]
    OBVIOUS
  <2>3. Init => /\ msg \in [Conns -> 0..MaxMsgs] /\ numRcpts \in [Conns -> 0..(MaxRecipients - 1)]
                /\ rcpts \in [Msgs -> Nat] /\ nmsgs \in 0..MaxMsgs
    BY <2>1 DEF NoMsg
  <2>4. Init => /\ phase \in [Conns -> Phases] /\ sessions \subseteq Conns
                /\ msgState \in [Msgs -> {"none", "open", "queued", "failed", "cancelled"}]
    BY DEF Phases
  <2> QED
    BY <2>2, <2>3, <2>4 DEF TypeOK
<1>2. Init => PhaseInv /\ ShutdownInv /\ NumberInv /\ CountInv
  BY DEF PhaseInv, Served, ShutdownInv, NumberInv, CountInv, Msgs, NoMsg
<1>3. Init => MessagesOwned /\ RecipientsBounded /\ DrainedIsQuiet
  BY DEF MessagesOwned, RecipientsBounded, DrainedIsQuiet, Msgs, NoMsg
<1> QED
  BY <1>1, <1>2, <1>3 DEF Inv

\* The steps of serve and Shutdown keep Inv.
LEMMA ServerInv == Inv /\ ServerNext => Inv'
<1> SUFFICES ASSUME Inv, ServerNext PROVE Inv'
  OBVIOUS
<1> USE DEF Inv
<1>1. UNCHANGED <<sessions, phase, connVars, msgVars>>
  BY DEF ServerNext, AcceptFails, Shutdown, ShutdownListener, ContextDone, StopAccepting, Drained, Expired
<1>2. TypeOK'
  BY <1>1 DEF ServerNext, AcceptFails, Shutdown, ShutdownListener, ContextDone, StopAccepting, Drained,
     Expired, TypeOK, connVars, msgVars
<1>3. PhaseInv' /\ NumberInv' /\ CountInv' /\ MessagesOwned' /\ RecipientsBounded'
  BY <1>1 DEF PhaseInv, NumberInv, CountInv, MessagesOwned, RecipientsBounded, connVars, msgVars
<1>4. ShutdownInv'
  BY DEF ServerNext, AcceptFails, Shutdown, ShutdownListener, ContextDone, StopAccepting, Drained, Expired,
     ShutdownInv
<1>5. DrainedIsQuiet'
  <2>1. CASE Drained
    BY <1>1, <2>1 DEF Drained, DrainedIsQuiet, PhaseInv, Served, connVars
  <2>2. CASE ~Drained
    BY <1>1, <2>2 DEF ServerNext, AcceptFails, Shutdown, ShutdownListener, ContextDone, StopAccepting, Expired,
       DrainedIsQuiet, connVars
  <2> QED
    BY <2>1, <2>2
<1> QED
  BY <1>2, <1>3, <1>4, <1>5

\* The steps of a connection keep Inv, and leave messages that have ended alone.
LEMMA ConnInv ==
  ASSUME Inv, NEW c \in Conns, ConnNext(c)
  PROVE  /\ Inv'
         /\ \A m \in Msgs : msgState[m] \in {"queued", "failed", "cancelled"} =>
              msgState'[m] = msgState[m] /\ rcpts'[m] = rcpts[m]
<1> USE SmtpServerAssumption DEF Inv, TypeOK, serverVars, connVars, msgVars, Goto, Msgs, NoMsg, Phases, Served
<1> DEFINE Kept == \A m \in Msgs : msgState[m] \in {"queued", "failed", "cancelled"} =>
                     msgState'[m] = msgState[m] /\ rcpts'[m] = rcpts[m]
<1>0. ShutdownInv'
  BY DEF ConnNext, Accept, Register, Wait, Cleanup, Leave, EndSession, StartTLS, Auth, Mail, NewMessage,
     NewMessageFails, Rcpt, RcptFails, Data, Close, Reset, ShutdownInv
<1>Z. 0 \in 0..(MaxRecipients - 1)
  OBVIOUS
<1>E. ASSUME NEW call \in {"queued", "failed", "cancelled"}, EndMsg(c, call), msg[c] # NoMsg,
             UNCHANGED sessions
      PROVE  /\ msg' \in [Conns -> 0..MaxMsgs]
             /\ msgState' \in [Msgs -> {"none", "open", "queued", "failed", "cancelled"}]
             /\ nmsgs' = nmsgs /\ rcpts' = rcpts
             /\ MessagesOwned' /\ NumberInv' /\ Kept
  <2>1. msg[c] \in Msgs /\ msgState[msg[c]] = "open" /\ rcpts' = rcpts /\ nmsgs' = nmsgs
    BY <1>E DEF EndMsg, MessagesOwned
  <2>2. msg' \in [Conns -> 0..MaxMsgs] /\ msgState' \in [Msgs -> {"none", "open", "queued", "failed", "cancelled"}]
    BY <1>E DEF EndMsg
  <2>3. MessagesOwned'
    BY <1>E, <2>1, <2>2 DEF EndMsg, MessagesOwned
  <2>4. NumberInv' /\ Kept
    BY <1>E, <2>1 DEF EndMsg, NumberInv
  <2> QED
    BY <2>1, <2>2, <2>3, <2>4
<1>1. CASE Accept(c)
  BY <1>0, <1>1 DEF Accept, PhaseInv, NumberInv, CountInv, MessagesOwned, RecipientsBounded, DrainedIsQuiet
<1>2. CASE Register(c)
  BY <1>0, <1>2 DEF Register, PhaseInv, NumberInv, CountInv, MessagesOwned, RecipientsBounded, DrainedIsQuiet
<1>3. CASE Wait(c)
  BY <1>0, <1>3 DEF Wait, PhaseInv, NumberInv, CountInv, MessagesOwned, RecipientsBounded, DrainedIsQuiet
<1>4. CASE Cleanup(c)
  <2>1. CASE msg[c] = NoMsg
    BY <1>0, <1>4, <2>1 DEF Cleanup, PhaseInv, NumberInv, CountInv, MessagesOwned, RecipientsBounded, DrainedIsQuiet
  <2>2. CASE msg[c] # NoMsg
    <3>1. EndMsg(c, "cancelled") /\ UNCHANGED sessions
      BY <1>4, <2>2 DEF Cleanup
    <3>2. TypeOK'
      BY <1>4, <1>E, <2>2, <3>1 DEF Cleanup
    <3>3. PhaseInv' /\ DrainedIsQuiet'
      BY <1>4, <3>1 DEF Cleanup, EndMsg, PhaseInv, DrainedIsQuiet
    <3>4. CountInv' /\ RecipientsBounded'
      BY <1>4, <3>1 DEF Cleanup, EndMsg, CountInv, RecipientsBounded
    <3> QED
      BY <1>0, <1>E, <2>2, <3>1, <3>2, <3>3, <3>4
  <2> QED
    BY <2>1, <2>2
<1>5. CASE Leave(c)
  <2>1. PICK D \in SUBSET Conns :
          /\ \A d \in D : phase[d] = "waiting"
          /\ phase' = [d \in Conns |-> IF d = c THEN "ended" ELSE IF d \in D THEN "starting" ELSE phase[d]]
    <3>1. CASE Goto(c, "ended")
      <4> WITNESS {} \in SUBSET Conns
      <4> QED
        BY <3>1
    <3>2. ASSUME NEW d \in Conns, phase[d] = "waiting",
                 phase' = [phase EXCEPT ![c] = "ended", ![d] = "starting"]
          PROVE  \E D \in SUBSET Conns :
                   /\ \A e \in D : phase[e] = "waiting"
                   /\ phase' = [e \in Conns |-> IF e = c THEN "ended" ELSE IF e \in D THEN "starting" ELSE phase[e]]
      <4>1. phase[c] = "leaving" /\ d # c
        BY <1>5, <3>2 DEF Leave
      <4> WITNESS {d} \in SUBSET Conns
      <4> QED
        BY <3>2, <4>1
    <3> QED
      BY <1>5, <3>1, <3>2 DEF Leave
  <2>2. phase[c] = "leaving" /\ sessions' = sessions \ {c} /\ UNCHANGED <<serverVars, open, connVars, msgVars>>
    BY <1>5 DEF Leave
  <2>3. TypeOK'
    BY <2>1, <2>2
  <2>4. PhaseInv'
    BY <2>1, <2>2 DEF PhaseInv
  <2>5. DrainedIsQuiet'
    BY <2>1, <2>2 DEF DrainedIsQuiet
  <2>6. MessagesOwned'
    <3>1. msg[c] = NoMsg
      BY <2>2 DEF PhaseInv
    <3> QED
      BY <2>2, <3>1 DEF MessagesOwned
  <2>7. NumberInv' /\ CountInv' /\ RecipientsBounded' /\ Kept
    BY <2>2 DEF NumberInv, CountInv, RecipientsBounded
  <2> QED
    BY <1>0, <2>3, <2>4, <2>5, <2>6, <2>7
<1>6. CASE EndSession(c)
  BY <1>0, <1>6 DEF EndSession, PhaseInv, NumberInv, CountInv, MessagesOwned, RecipientsBounded, DrainedIsQuiet
<1>7. CASE StartTLS(c)
  BY <1>0, <1>7 DEF StartTLS, PhaseInv, NumberInv, CountInv, MessagesOwned, RecipientsBounded, DrainedIsQuiet
<1>8. ASSUME NEW ok \in BOOLEAN, Auth(c, ok) PROVE Inv' /\ Kept
  BY <1>0, <1>8 DEF Auth, PhaseInv, NumberInv, CountInv, MessagesOwned, RecipientsBounded, DrainedIsQuiet
<1>9. CASE Mail(c)
  BY <1>0, <1>9 DEF Mail, PhaseInv, NumberInv, CountInv, MessagesOwned, RecipientsBounded, DrainedIsQuiet, ShutdownInv
<1>10. CASE NewMessage(c)
  <2> DEFINE m == nmsgs + 1
  <2>1. /\ m \in Msgs /\ msgState[m] = "none" /\ rcpts[m] = 0
        /\ \A d \in Conns : msg[d] # m
    <3>1. m \in Msgs /\ m # NoMsg /\ m > nmsgs
      BY <1>10 DEF NewMessage
    <3>2. msgState[m] = "none" /\ rcpts[m] = 0
      BY <3>1 DEF NumberInv
    <3> QED
      BY <3>1, <3>2 DEF MessagesOwned
  <2>2. /\ msg' = [msg EXCEPT ![c] = m] /\ msgState' = [msgState EXCEPT ![m] = "open"]
        /\ nmsgs' = m /\ UNCHANGED <<serverVars, sessions, open, tls, authToken, numRcpts, rcpts>>
        /\ phase[c] = "mail" /\ phase' = [phase EXCEPT ![c] = "command"]
    BY <1>10 DEF NewMessage
  <2> HIDE DEF m
  <2>3. TypeOK'
    BY <2>1, <2>2
  <2>4. PhaseInv'
    BY <2>1, <2>2 DEF PhaseInv
  <2>5. MessagesOwned'
    <3>1. c \in sessions
      BY <2>2 DEF PhaseInv
    <3>2. \A k \in Msgs : msgState'[k] = "open" => \E d \in sessions : msg'[d] = k
      <4> SUFFICES ASSUME NEW k \in Msgs, msgState'[k] = "open" PROVE \E d \in sessions : msg'[d] = k
        OBVIOUS
      <4>1. CASE k = m
        BY <2>2, <3>1, <4>1
      <4>2. CASE k # m
        <5>1. PICK d \in sessions : msg[d] = k
          BY <2>1, <2>2, <4>2 DEF MessagesOwned
        <5>2. msg[c] = NoMsg
          BY <2>2 DEF PhaseInv
        <5>3. d # c
          BY <5>1, <5>2
        <5> QED
          BY <2>2, <5>1, <5>3
      <4> QED
        BY <4>1, <4>2
    <3>3. \A d \in Conns : msg'[d] # NoMsg => d \in sessions /\ msgState'[msg'[d]] = "open"
      BY <2>1, <2>2, <3>1 DEF MessagesOwned
    <3>4. \A d, e \in Conns : msg'[d] # NoMsg /\ msg'[d] = msg'[e] => d = e
      BY <2>1, <2>2 DEF MessagesOwned
    <3> QED
      BY <2>2, <3>2, <3>3, <3>4 DEF MessagesOwned
  <2>6. NumberInv' /\ Kept
    BY <2>1, <2>2 DEF NumberInv, m
  <2>7. CountInv' /\ RecipientsBounded'
    BY <2>1, <2>2 DEF CountInv, RecipientsBounded
  <2>8. DrainedIsQuiet'
    BY <2>2 DEF DrainedIsQuiet
  <2> QED
    BY <1>0, <2>3, <2>4, <2>5, <2>6, <2>7, <2>8
<1>11. CASE NewMessageFails(c)
  BY <1>0, <1>11 DEF NewMessageFails, PhaseInv, NumberInv, CountInv, MessagesOwned, RecipientsBounded, DrainedIsQuiet
<1>12. ASSUME NEW added \in BOOLEAN, Rcpt(c, added) PROVE Inv' /\ Kept
  <2>1. msg[c] \in Msgs /\ msgState[msg[c]] = "open"
    BY <1>12 DEF Rcpt, MessagesOwned
  <2>2. numRcpts' \in [Conns -> 0..(MaxRecipients - 1)] /\ rcpts' \in [Msgs -> Nat]
    <3>1. numRcpts[c] + 1 \in 0..(MaxRecipients - 1)
      BY <1>12 DEF Rcpt, TooMany
    <3>2. numRcpts' \in [Conns -> 0..(MaxRecipients - 1)]
      BY <1>12, <3>1 DEF Rcpt
    <3>3. rcpts' \in [Msgs -> Nat]
      BY <1>12, <2>1 DEF Rcpt
    <3> QED
      BY <3>2, <3>3
  <2>3. TypeOK'
    BY <1>12, <2>2 DEF Rcpt
  <2>4. PhaseInv' /\ MessagesOwned' /\ DrainedIsQuiet'
    BY <1>12 DEF Rcpt, PhaseInv, MessagesOwned, DrainedIsQuiet
  <2>5. NumberInv' /\ Kept
    BY <1>12, <2>1 DEF Rcpt, NumberInv
  <2>6. CountInv' /\ RecipientsBounded'
    <3>1. numRcpts[c] + 1 < MaxRecipients /\ rcpts[msg[c]] <= numRcpts[c]
      BY <1>12 DEF Rcpt, TooMany, CountInv
    <3>2. /\ rcpts'[msg[c]] <= numRcpts[c] + 1
          /\ \A m \in Msgs \ {msg[c]} : rcpts'[m] = rcpts[m]
      BY <1>12, <2>1, <3>1 DEF Rcpt
    <3>3. \A d \in Conns \ {c} : msg[d] # NoMsg => msg[d] \in Msgs \ {msg[c]}
      BY <1>12 DEF Rcpt, MessagesOwned
    <3>4. CountInv'
      <4>1. /\ UNCHANGED msg
            /\ numRcpts'[c] = numRcpts[c] + 1
            /\ \A d \in Conns \ {c} : numRcpts'[d] = numRcpts[d]
        BY <1>12 DEF Rcpt
      <4>2. \A d \in Conns \ {c} : msg[d] # NoMsg => rcpts'[msg[d]] = rcpts[msg[d]]
        BY <3>2, <3>3
      <4> QED
        BY <3>2, <4>1, <4>2 DEF CountInv
    <3>5. rcpts'[msg[c]] < MaxRecipients
      BY <2>1, <2>2, <3>1, <3>2
    <3>6. RecipientsBounded'
      BY <3>2, <3>5 DEF RecipientsBounded
    <3> QED
      BY <3>4, <3>6
  <2> QED
    BY <1>0, <2>3, <2>4, <2>5, <2>6
<1>13. CASE RcptFails(c)
  BY <1>0, <1>13 DEF RcptFails, TooMany, PhaseInv, NumberInv, CountInv, MessagesOwned, RecipientsBounded, DrainedIsQuiet
<1>14. CASE Data(c)
  BY <1>0, <1>14 DEF Data, PhaseInv, NumberInv, CountInv, MessagesOwned, RecipientsBounded, DrainedIsQuiet
<1>15. ASSUME NEW call \in {"queued", "failed"}, Close(c, call) PROVE Inv' /\ Kept
  <2>1. EndMsg(c, call) /\ UNCHANGED sessions /\ msg[c] # NoMsg
    BY <1>15 DEF Close, PhaseInv
  <2>2. TypeOK'
    BY <1>15, <1>E, <1>Z, <2>1 DEF Close
  <2>3. PhaseInv' /\ DrainedIsQuiet'
    BY <1>15, <2>1 DEF Close, EndMsg, PhaseInv, DrainedIsQuiet
  <2>4. CountInv' /\ RecipientsBounded'
    BY <1>15, <2>1 DEF Close, EndMsg, CountInv, RecipientsBounded
  <2> QED
    BY <1>0, <1>E, <2>1, <2>2, <2>3, <2>4
<1>16. CASE Reset(c)
  <2>1. CASE msg[c] = NoMsg
    BY <1>0, <1>16, <2>1 DEF Reset, PhaseInv, NumberInv, CountInv, MessagesOwned, RecipientsBounded, DrainedIsQuiet
  <2>2. CASE msg[c] # NoMsg
    <3>1. EndMsg(c, "cancelled") /\ UNCHANGED sessions
      BY <1>16, <2>2 DEF Reset
    <3>2. TypeOK'
      BY <1>16, <1>E, <1>Z, <2>2, <3>1 DEF Reset
    <3>3. PhaseInv' /\ DrainedIsQuiet'
      BY <1>16, <3>1 DEF Reset, EndMsg, PhaseInv, DrainedIsQuiet
    <3>4. CountInv' /\ RecipientsBounded'
      BY <1>16, <3>1 DEF Reset, EndMsg, CountInv, RecipientsBounded
    <3> QED
      BY <1>0, <1>E, <2>2, <3>1, <3>2, <3>3, <3>4
  <2> QED
    BY <2>1, <2>2
<1> QED
  BY <1>1, <1>2, <1>3, <1>4, <1>5, <1>6, <1>7, <1>8, <1>9, <1>10, <1>11, <1>12, <1>13, <1>14, <1>15, <1>16
  DEF ConnNext

\* Inv in every reachable state.
LEMMA InvAlways == Spec => []Inv
<1>1. Inv /\ [Next]_vars => Inv'
  <2> SUFFICES ASSUME Inv, [Next]_vars PROVE Inv'
    OBVIOUS
  <2>1. CASE Next
    BY <2>1, ServerInv, ConnInv DEF Next
  <2>2. CASE UNCHANGED vars
    BY <2>2 DEF vars, serverVars, connVars, msgVars, Inv, TypeOK, PhaseInv, ShutdownInv, NumberInv, CountInv,
       MessagesOwned, RecipientsBounded, DrainedIsQuiet
  <2> QED
    BY <2>1, <2>2
<1> QED
  BY InitInv, <1>1, PTL DEF Spec

-----------------------------------------------------------------------------
(***************************************************************************)
(* Messages.                                                               *)
(***************************************************************************)
\* The type invariant, with numRcpts below MaxRecipients in every session.
THEOREM ServerTypes == Spec => []TypeOK
BY InvAlways, PTL DEF Inv

\* Whatever commands a session gets and whenever it ends, the message it began is
\* its own until Close or Cancel: deferred functions, RSET, errors of Close.
THEOREM MessagesHandled == Spec => []MessagesOwned
BY InvAlways, PTL DEF Inv

\* No message gets a second Close or Cancel, or a recipient after it.
THEOREM MessagesEndOnce == Spec => EndsOnce
<1> DEFINE Kept == \A m \in Msgs : msgState[m] \in {"queued", "failed", "cancelled"} =>
                     msgState'[m] = msgState[m] /\ rcpts'[m] = rcpts[m]
<1>1. Inv /\ [Next]_vars => [Kept]_<<msgState, rcpts>>
  <2> SUFFICES ASSUME Inv, [Next]_vars PROVE Kept
    OBVIOUS
  <2>1. CASE ServerNext
    BY <2>1 DEF ServerNext, AcceptFails, Shutdown, ShutdownListener, ContextDone, StopAccepting, Drained, Expired,
       msgVars
  <2>2. CASE \E c \in Conns : ConnNext(c)
    BY <2>2, ConnInv
  <2>3. CASE UNCHANGED vars
    BY <2>3 DEF vars, msgVars
  <2> QED
    BY <2>1, <2>2, <2>3 DEF Next
<1> QED
  BY InvAlways, <1>1, PTL DEF Spec, EndsOnce

\* MaxRecipients is never reached, although numRcpts is counted by the session
\* and the recipients by the message.
THEOREM RecipientsStayBounded == Spec => []RecipientsBounded
BY InvAlways, PTL DEF Inv

\* A server whose Shutdown saw no sessions has no message under way, then or
\* later: MAIL looks at the shutdown channel after the session is on the list.
THEOREM QuietWhenDrained == Spec => []DrainedIsQuiet
BY InvAlways, PTL DEF Inv

-----------------------------------------------------------------------------
(***************************************************************************)
(* Places.                                                                 *)
(***************************************************************************)
\* A step changes the numbers of sessions and of starting connections only in
\* Accept, Register, Wait and Leave (serveSession, and serve's deferred Signal).
LEMMA PlacesInv == Inv /\ SessionsBounded /\ NoLostWakeup /\ [Next]_vars => SessionsBounded' /\ NoLostWakeup'
<1> SUFFICES ASSUME Inv, SessionsBounded, NoLostWakeup, [Next]_vars PROVE SessionsBounded' /\ NoLostWakeup'
  OBVIOUS
<1> USE SmtpServerAssumption DEF Inv
<1>1. /\ IsFiniteSet(sessions) /\ Cardinality(sessions) \in Nat
      /\ IsFiniteSet(Starting) /\ Cardinality(Starting) \in Nat
  BY FS_Subset, FS_CardinalityType DEF TypeOK, Starting
<1>2. ASSUME UNCHANGED <<sessions, phase>> PROVE SessionsBounded' /\ NoLostWakeup'
  BY <1>2 DEF SessionsBounded, NoLostWakeup, Waiting, Starting
<1>3. CASE ServerNext
  BY <1>2, <1>3 DEF ServerNext, AcceptFails, Shutdown, ShutdownListener, ContextDone, StopAccepting, Drained, Expired
<1>4. CASE UNCHANGED vars
  BY <1>2, <1>4 DEF vars
<1>5. ASSUME NEW c \in Conns, ConnNext(c) PROVE SessionsBounded' /\ NoLostWakeup'
  <2> USE DEF TypeOK, Phases, Goto
  <2>1. CASE Accept(c)
    <3>1. phase' = [phase EXCEPT ![c] = "starting"] /\ phase[c] = "new" /\ sessions' = sessions
      BY <2>1 DEF Accept
    <3>2. Starting' = Starting \cup {c} /\ c \notin Starting /\ Waiting' = Waiting
      BY <3>1 DEF Starting, Waiting
    <3>3. Cardinality(Starting') = Cardinality(Starting) + 1
      BY <1>1, <3>2, FS_AddElement
    <3> QED
      BY <1>1, <3>1, <3>2, <3>3 DEF SessionsBounded, NoLostWakeup
  <2>2. CASE Register(c)
    <3>1. /\ phase' = [phase EXCEPT ![c] = "command"] /\ phase[c] = "starting"
          /\ sessions' = sessions \cup {c} /\ c \notin sessions /\ ~Full
      BY <2>2 DEF Register, PhaseInv, Served
    <3>2. Starting' = Starting \ {c} /\ c \in Starting /\ Waiting' = Waiting
      BY <3>1 DEF Starting, Waiting
    <3>3. Cardinality(Starting') = Cardinality(Starting) - 1
      BY <1>1, <3>2, FS_RemoveElement
    <3>4. Cardinality(sessions') = Cardinality(sessions) + 1
      BY <1>1, <3>1, FS_AddElement
    <3> QED
      BY <1>1, <3>1, <3>2, <3>3, <3>4 DEF SessionsBounded, NoLostWakeup, Full
  <2>3. CASE Wait(c)
    <3>1. phase' = [phase EXCEPT ![c] = "waiting"] /\ sessions' = sessions /\ Full
      BY <2>3 DEF Wait
    <3>2. Starting' \subseteq Starting
      BY <3>1 DEF Starting
    <3>3. Cardinality(Starting') \in Nat
      BY <1>1, <3>2, FS_Subset, FS_CardinalityType
    <3> QED
      BY <1>1, <3>1, <3>3 DEF SessionsBounded, NoLostWakeup, Full
  <2>4. CASE Leave(c)
    <3>1. sessions' = sessions \ {c} /\ c \in sessions /\ phase[c] = "leaving"
      BY <2>4 DEF Leave, PhaseInv, Served
    <3>2. Cardinality(sessions') = Cardinality(sessions) - 1
      BY <1>1, <3>1, FS_RemoveElement
    <3>3. CASE (\A d \in Conns : phase[d] # "waiting") /\ Goto(c, "ended")
      BY <1>1, <3>2, <3>3 DEF SessionsBounded, NoLostWakeup, Waiting
    <3>4. ASSUME NEW d \in Conns, phase[d] = "waiting",
                 phase' = [phase EXCEPT ![c] = "ended", ![d] = "starting"]
          PROVE  SessionsBounded' /\ NoLostWakeup'
      <4>1. Starting' = Starting \cup {d} /\ d \notin Starting
        BY <3>1, <3>4 DEF Starting
      <4>2. Cardinality(Starting') = Cardinality(Starting) + 1
        BY <1>1, <4>1, FS_AddElement
      <4>3. Cardinality(sessions) + Cardinality(Starting) > MaxSessions
        BY <3>4 DEF NoLostWakeup, Waiting
      <4> QED
        BY <1>1, <3>2, <4>2, <4>3 DEF SessionsBounded, NoLostWakeup
    <3> QED
      BY <2>4, <3>3, <3>4 DEF Leave
  <2>5. ASSUME NEW p \in Phases \ {"starting", "waiting"}, phase[c] \notin {"starting", "waiting"},
               Goto(c, p), UNCHANGED sessions
        PROVE  SessionsBounded' /\ NoLostWakeup'
    <3>1. Starting' = Starting /\ Waiting' = Waiting
      BY <2>5 DEF Starting, Waiting
    <3> QED
      BY <2>5, <3>1 DEF SessionsBounded, NoLostWakeup
  <2>6. CASE StartTLS(c) \/ (\E ok \in BOOLEAN : Auth(c, ok)) \/ (\E added \in BOOLEAN : Rcpt(c, added)) \/ Reset(c)
    BY <1>2, <2>6 DEF StartTLS, Auth, Rcpt, Reset
  <2>7. CASE Cleanup(c) \/ EndSession(c) \/ Mail(c) \/ NewMessage(c) \/ NewMessageFails(c) \/ RcptFails(c) \/ Data(c)
    BY <2>5, <2>7 DEF Cleanup, EndSession, Mail, NewMessage, NewMessageFails, RcptFails, Data
  <2>8. CASE \E call \in {"queued", "failed"} : Close(c, call)
    BY <2>5, <2>8 DEF Close
  <2> QED
    BY <1>5, <2>1, <2>2, <2>3, <2>4, <2>6, <2>7, <2>8 DEF ConnNext
<1> QED
  BY <1>3, <1>4, <1>5 DEF Next

\* Places are bounded and no wake-up is lost.
LEMMA PlacesAlways == Spec => [](SessionsBounded /\ NoLostWakeup)
<1>1. Init => SessionsBounded /\ NoLostWakeup
  BY SmtpServerAssumption, FS_EmptySet DEF Init, SessionsBounded, NoLostWakeup, Waiting
<1> QED
  BY <1>1, InvAlways, PlacesInv, PTL DEF Spec

\* However many goroutines leave the wait loop at once, at most MaxSessions + 1
\* sessions are served: what the code keeps of the limit it documents.
THEOREM SessionsStayBounded == Spec => []SessionsBounded
BY PlacesAlways, PTL

\* No connection sleeps in sessionsCond.Wait while there is a place that no
\* woken or new connection is about to take.
THEOREM WakeupsNotLost == Spec => []NoLostWakeup
BY PlacesAlways, PTL
=============================================================================
