------------------------- MODULE SpilldServerProofs -------------------------
(***************************************************************************)
(* Theorems about SpilldServer, for any set of loops, listeners and users, *)
(* any size of the pool and any capacity of the error channel.             *)
(***************************************************************************)
EXTENDS SpilldServer, FiniteSetTheorems, TLAPS

(***************************************************************************)
(* Types, and the table of open boxes                                      *)
(***************************************************************************)
\* The size of a set of connections counts only if the set is finite.
TypeInv == TypeOK /\ IsFiniteSet(conns)

LEMMA TypeInit == Init => TypeInv
<1> SUFFICES ASSUME Init PROVE TypeInv
  OBVIOUS
<1>1. IsFiniteSet(conns) /\ Cardinality(conns) = 0
  BY FS_EmptySet DEF Init
<1>2. notifiers \in Seq(Imap) /\ DOMAIN boxes = {}
  BY DEF Init
<1>3. pc \in [Services -> LoopPC \cup ListenerPC] /\ session \in [Listeners -> {"none", "open", "db"}]
  BY DEF Init, LoopPC
<1>4. errs \in 0..ErrCap /\ Cardinality(conns) <= PoolSize
  BY <1>1, ServerAssumption DEF Init
<1>5. stop \in [Services -> {"no", "started", "told"}]
  BY DEF Init
<1> QED
  BY <1>1, <1>2, <1>3, <1>4, <1>5 DEF Init, TypeInv, TypeOK

\* A connection more is within the size of the pool; one less leaves a subset.
LEMMA GetsConnType ==
  ASSUME TypeInv, NEW s \in Services, GetsConn(s)
  PROVE  IsFiniteSet(conns') /\ conns' \subseteq Services /\ Cardinality(conns') <= PoolSize /\ pool' = pool
<1>1. IsFiniteSet(conns) /\ conns \subseteq Services /\ Cardinality(conns) < PoolSize /\ PoolSize \in Nat
  BY ServerAssumption DEF TypeInv, TypeOK, GetsConn
<1>2. Cardinality(conns) \in Nat
  BY <1>1, FS_CardinalityType
<1>3. /\ IsFiniteSet(conns \cup {s})
      /\ Cardinality(conns \cup {s}) = IF s \in conns THEN Cardinality(conns) ELSE Cardinality(conns) + 1
  BY <1>1, FS_AddElement
<1> QED
  BY <1>1, <1>2, <1>3 DEF GetsConn

LEMMA PutConnType ==
  ASSUME TypeInv, NEW s \in Services, PutConn(s)
  PROVE  IsFiniteSet(conns') /\ conns' \subseteq Services /\ Cardinality(conns') <= PoolSize /\ pool' = pool
<1>1. IsFiniteSet(conns) /\ conns \subseteq Services /\ Cardinality(conns) <= PoolSize /\ PoolSize \in Nat
  BY ServerAssumption DEF TypeInv, TypeOK
<1>2. IsFiniteSet(conns') /\ Cardinality(conns') <= Cardinality(conns)
  BY <1>1, FS_Subset DEF PutConn
<1>3. Cardinality(conns) \in Nat /\ Cardinality(conns') \in Nat
  BY <1>1, <1>2, FS_CardinalityType
<1> QED
  BY <1>1, <1>2, <1>3 DEF PutConn

\* Steps that only move the goroutine of a service, with the pool as it is or
\* with a connection more or less.
LEMMA MoveType ==
  ASSUME TypeInv, NEW s \in Services, NEW to \in LoopPC \cup ListenerPC, Goto(s, to),
         \/ UNCHANGED database
         \/ IsFiniteSet(conns') /\ conns' \subseteq Services /\ Cardinality(conns') <= PoolSize /\ pool' = pool,
         UNCHANGED <<errs, made, session, stopping, boxmgmt, process>>
  PROVE  TypeInv'
BY DEF TypeInv, TypeOK, Goto, database, stopping, boxmgmt

LEMMA LoopType ==
  ASSUME TypeInv, NEW s \in Loops, LoopStep(s)
  PROVE  TypeInv'
<1> s \in Services
  BY DEF Services
<1>1. CASE Run(s) \/ Canceled(s) \/ Handled(s)
  BY <1>1, MoveType DEF Run, Canceled, Handled, LoopPC
<1>2. CASE Cycle(s) \/ HandleGets(s)
  BY <1>2, MoveType, GetsConnType DEF Cycle, HandleGets, LoopPC
<1>3. CASE CycleEnds(s) \/ CycleFails(s) \/ HandlePuts(s)
  BY <1>3, MoveType, PutConnType DEF CycleEnds, CycleFails, HandlePuts, LoopPC
<1> QED
  BY <1>1, <1>2, <1>3 DEF LoopStep

LEMMA DeliverType ==
  ASSUME TypeInv, DeliverStep
  PROVE  TypeInv'
<1> "deliverer" \in Services
  BY ServerAssumption DEF Services
<1>1. CASE Sent
  BY <1>1, MoveType DEF Sent, LoopPC
<1>2. CASE RecordDelivery \/ ReadLogs
  BY <1>2, MoveType, GetsConnType DEF RecordDelivery, ReadLogs, LoopPC
<1>3. CASE Recorded \/ LogsRead
  BY <1>3, MoveType, PutConnType DEF Recorded, LogsRead, LoopPC
<1>4. CASE RecordDeliveryNil \/ ReadLogsNil
  BY <1>4 DEF RecordDeliveryNil, ReadLogsNil, Panics, TypeInv, TypeOK, services, stopping, database, boxmgmt
<1> QED
  BY <1>1, <1>2, <1>3, <1>4 DEF DeliverStep

LEMMA ListenerType ==
  ASSUME TypeInv, NEW l \in Listeners, ListenerStep(l)
  PROVE  TypeInv'
<1> l \in Services
  BY DEF Services
<1>1. CASE StartFails(l) \/ ListenFails(l) \/ AcceptFails(l) \/ AcceptLoopEnds(l) \/ Cleanup(l)
  BY <1>1, MoveType DEF StartFails, ListenFails, AcceptFails, AcceptLoopEnds, Cleanup, ListenerPC
<1>2. CASE Listen(l)
  <2>1. pc' \in [Services -> LoopPC \cup ListenerPC] /\ made' \subseteq Listeners
    BY <1>2 DEF Listen, Goto, TypeInv, TypeOK, ListenerPC
  <2>2. CASE l \in Imap
    <3>1. RegisterNotifier(l)
      BY <1>2, <2>2 DEF Listen
    <3>2. /\ notifiers \in Seq(Imap)
          /\ DOMAIN boxes \subseteq Users /\ \A u \in DOMAIN boxes : boxes[u] \in Seq(Imap)
      BY DEF TypeInv, TypeOK
    <3>3. \A q \in Seq(Imap) : Append(q, l) \in Seq(Imap)
      BY <2>2
    <3>4. /\ notifiers' \in Seq(Imap)
          /\ DOMAIN boxes' \subseteq Users /\ \A u \in DOMAIN boxes' : boxes'[u] \in Seq(Imap)
      BY <3>1, <3>2, <3>3 DEF RegisterNotifier
    <3> QED
      BY <1>2, <2>1, <3>4 DEF Listen, TypeInv, TypeOK, stopping, database
  <2>3. CASE l \notin Imap
    BY <1>2, <2>1, <2>3 DEF Listen, TypeInv, TypeOK, stopping, database, boxmgmt
  <2> QED
    BY <2>2, <2>3
<1>3. ASSUME NEW to \in {"none", "open", "db"}, SetSession(l, to)
      PROVE  session' \in [Listeners -> {"none", "open", "db"}]
  BY <1>3 DEF SetSession, TypeInv, TypeOK
<1>4. CASE Accept(l) \/ SessionEnds(l)
  BY <1>3, <1>4 DEF Accept, SessionEnds, TypeInv, TypeOK, stopping, database, boxmgmt
<1>5. CASE SessionGets(l)
  BY <1>3, <1>5, GetsConnType DEF SessionGets, TypeInv, TypeOK, stopping, boxmgmt
<1>6. CASE SessionPuts(l)
  BY <1>3, <1>6, PutConnType DEF SessionPuts, TypeInv, TypeOK, stopping, boxmgmt
<1> QED
  BY <1>1, <1>2, <1>4, <1>5, <1>6 DEF ListenerStep

LEMMA OpenType ==
  ASSUME TypeInv, NEW u \in Users, Open(u), UNCHANGED <<services, stopping, database, process>>
  PROVE  TypeInv'
<1>1. DOMAIN boxes' \subseteq Users /\ \A v \in DOMAIN boxes' : boxes'[v] \in Seq(Imap)
  BY DEF Open, TypeInv, TypeOK
<1> QED
  BY <1>1 DEF Open, TypeInv, TypeOK, services, stopping, database

LEMMA ServeType ==
  ASSUME TypeInv, Serve \/ ServeReturns \/ ShutdownStep
  PROVE  TypeInv'
<1>1. CASE Serve
  BY <1>1 DEF Serve, TypeInv, TypeOK, LoopPC, Services, database, boxmgmt
<1>2. CASE ServeReturns
  BY <1>2 DEF ServeReturns, TypeInv, TypeOK, services, database, boxmgmt
<1>3. CASE Interrupt \/ Deadline \/ Exit
  BY <1>3 DEF Interrupt, Deadline, Exit, TypeInv, TypeOK, services, stopping, database, boxmgmt
<1>4. CASE Stage1
  BY <1>4 DEF Stage1, TypeInv, TypeOK, services, database, boxmgmt
<1>5. CASE CloseDB \/ DBClosed
  BY <1>5 DEF CloseDB, DBClosed, TypeInv, TypeOK, services, boxmgmt
<1> QED
  BY <1>1, <1>2, <1>3, <1>4, <1>5 DEF ShutdownStep

LEMMA ServiceType ==
  ASSUME TypeInv, NEW s \in Services, AddShutdownFn(s) \/ Report(s) \/ Stop(s) \/ StopNil(s)
  PROVE  TypeInv'
<1>1. CASE AddShutdownFn(s)
  BY <1>1 DEF AddShutdownFn, Goto, TypeInv, TypeOK, ListenerPC, database, boxmgmt
<1>2. CASE Report(s)
  <2>1. errs' \in 0..ErrCap
    BY <1>2, ServerAssumption DEF Report, TypeInv, TypeOK
  <2> QED
    BY <1>2, <2>1 DEF Report, Goto, TypeInv, TypeOK, LoopPC, stopping, database, boxmgmt
<1>3. CASE Stop(s)
  BY <1>3 DEF Stop, TypeInv, TypeOK, services, database, boxmgmt
<1>4. CASE StopNil(s)
  BY <1>4 DEF StopNil, Panics, TypeInv, TypeOK, services, stopping, database, boxmgmt
<1> QED
  BY <1>1, <1>2, <1>3, <1>4

LEMMA TypeNext == TypeInv /\ [Next]_vars => TypeInv'
<1> SUFFICES ASSUME TypeInv, [Next]_vars PROVE TypeInv'
  OBVIOUS
<1>1. CASE UNCHANGED vars
  BY <1>1 DEF vars, services, stopping, database, boxmgmt, TypeInv, TypeOK
<1>2. ASSUME NEW u \in Users, SenderOpens(u) \/ \E l \in Imap : LoginOpens(l, u)
      PROVE  TypeInv'
  BY <1>2, OpenType DEF SenderOpens, LoginOpens
<1> QED
  BY <1>1, <1>2, LoopType, DeliverType, ListenerType, ServeType, ServiceType DEF Next, Terminated

\* Every variable of the server keeps its type: the pool never lends more
\* connections than it has, and no more errors are in errCh than fit.
THEOREM ServerTypes == Spec => []TypeOK
<1>1. Spec => []TypeInv
  BY TypeInit, TypeNext, PTL DEF Spec
<1> QED
  BY <1>1, PTL DEF TypeInv
-----------------------------------------------------------------------------
\* Only Listen and Open touch the table of boxes.
LEMMA BoxesNext == BoxesNotifyAll /\ [Next]_vars => BoxesNotifyAll'
<1> SUFFICES ASSUME BoxesNotifyAll, [Next]_vars PROVE BoxesNotifyAll'
  OBVIOUS
<1>1. CASE UNCHANGED boxmgmt
  BY <1>1 DEF BoxesNotifyAll, boxmgmt
<1>2. ASSUME NEW n, RegisterNotifier(n)
      PROVE  BoxesNotifyAll'
  BY <1>2 DEF RegisterNotifier, BoxesNotifyAll
<1>3. ASSUME NEW u, Open(u)
      PROVE  BoxesNotifyAll'
  BY <1>3 DEF Open, BoxesNotifyAll
<1>4. ASSUME NEW l \in Listeners, Listen(l)
      PROVE  BoxesNotifyAll'
  BY <1>1, <1>2, <1>4 DEF Listen
<1>5. ASSUME NEW u \in Users, SenderOpens(u) \/ \E l \in Imap : LoginOpens(l, u)
      PROVE  BoxesNotifyAll'
  BY <1>3, <1>5 DEF SenderOpens, LoginOpens
<1>6. CASE Terminated \/ UNCHANGED vars
  BY <1>1, <1>6 DEF Terminated, vars
<1>7. CASE Serve \/ ServeReturns \/ DeliverStep \/ ShutdownStep
  BY <1>1, <1>7 DEF Serve, ServeReturns, DeliverStep, ShutdownStep, Sent, RecordDelivery,
     RecordDeliveryNil, Recorded, ReadLogs, ReadLogsNil, LogsRead, Interrupt, Stage1, CloseDB,
     DBClosed, Deadline, Exit
<1>8. ASSUME NEW s \in Services, AddShutdownFn(s) \/ Report(s) \/ Stop(s) \/ StopNil(s)
      PROVE  BoxesNotifyAll'
  BY <1>1, <1>8 DEF AddShutdownFn, Report, Stop, StopNil
<1>9. ASSUME NEW s \in Loops, LoopStep(s)
      PROVE  BoxesNotifyAll'
  BY <1>1, <1>9 DEF LoopStep, Run, Cycle, Canceled, CycleEnds, CycleFails, HandleGets, HandlePuts, Handled
<1>10. ASSUME NEW l \in Listeners, ListenerStep(l)
       PROVE  BoxesNotifyAll'
  BY <1>1, <1>4, <1>10 DEF ListenerStep, StartFails, ListenFails, AcceptFails, Accept, AcceptLoopEnds,
     Cleanup, SessionGets, SessionPuts, SessionEnds
<1> QED
  BY <1>5, <1>6, <1>7, <1>8, <1>9, <1>10 DEF Next

\* Every open box has all notifiers, each once, in whatever order logins and
\* the local sender open boxes (Open) and IMAP servers start
\* (RegisterNotifier), for any number of servers and users.
THEOREM BoxesNotifyAllServers == Spec => []BoxesNotifyAll
<1>1. Init => BoxesNotifyAll
  BY DEF Init, BoxesNotifyAll
<1> QED
  BY <1>1, BoxesNext, PTL DEF Spec

-----------------------------------------------------------------------------
(***************************************************************************)
(* Shutdown                                                                *)
(***************************************************************************)
\* The shutdown function of s is on the list, or Shutdown has started it.
Known(s) == s \in fns \/ stop[s] # "no"

\* NoneForgotten is about services that run.  One registers before it runs,
\* and the loops are on the list from the start; Serve, which assigns the list,
\* finds none there.
ShutdownInv ==
  /\ serve = "no" => \A s \in Services : pc[s] = "off"
  /\ \A s \in Services : IsUp(s) /\ ~Finished(s) => Known(s)
  /\ \A s \in Services : pc[s] = "registered" => Known(s)
  /\ \A s \in Loops \ {"localSender"} : pc[s] = "spawned" => Known(s)

LEMMA LoopsServe == Loops \subseteq Services
BY DEF Services

LEMMA ShutdownInit == Init => ShutdownInv
<1> SUFFICES ASSUME Init PROVE ShutdownInv
  OBVIOUS
<1>1. \A s \in Services : pc[s] = "off"
  BY DEF Init
<1> QED
  BY <1>1, LoopsServe DEF Init, ShutdownInv, IsUp, Finished, Known

\* A goroutine that goes on is up, and its function stays where it is.
LEMMA MoveShutdown ==
  ASSUME TypeInv, ShutdownInv, NEW s \in Services, NEW to, Goto(s, to), UNCHANGED stopping,
         pc[s] # "off", to \notin {"off", "spawned", "registered"},
         Known(s) \/ to \in {"failing", "ended"}
  PROVE  ShutdownInv'
<1>1. pc'[s] = to /\ \A r \in Services \ {s} : pc'[r] = pc[r]
  BY DEF Goto, TypeInv, TypeOK
<1> QED
  BY <1>1, LoopsServe DEF stopping, ShutdownInv, IsUp, Finished, Known

LEMMA RunningKnown ==
  ASSUME ShutdownInv, NEW s \in Services, pc[s] \notin {"off", "spawned", "failing", "ended"}
  PROVE  Known(s)
BY DEF ShutdownInv, IsUp, Finished

\* Steps that leave the services where they are, and what Shutdown knows.
LEMMA StillShutdown ==
  ASSUME ShutdownInv, UNCHANGED <<pc, stopping>>
  PROVE  ShutdownInv'
BY DEF stopping, ShutdownInv, IsUp, Finished, Known

LEMMA LoopShutdown ==
  ASSUME TypeInv, ShutdownInv, NEW s \in Loops, LoopStep(s)
  PROVE  ShutdownInv'
<1> s \in Services
  BY DEF Services
<1>1. CASE Run(s)
  <2>1. Known(s) /\ pc[s] # "off"
    BY <1>1 DEF Run, ShutdownInv
  <2> QED
    BY <1>1, <2>1, MoveShutdown DEF Run
<1>2. CASE Cycle(s) \/ Canceled(s) \/ CycleEnds(s) \/ CycleFails(s)
  BY <1>2, MoveShutdown, RunningKnown DEF Cycle, Canceled, CycleEnds, CycleFails
<1>3. CASE HandleGets(s) \/ HandlePuts(s) \/ Handled(s)
  BY <1>3, MoveShutdown, RunningKnown DEF HandleGets, HandlePuts, Handled
<1> QED
  BY <1>1, <1>2, <1>3 DEF LoopStep

LEMMA DeliverShutdown ==
  ASSUME TypeInv, ShutdownInv, DeliverStep
  PROVE  ShutdownInv'
<1> "deliverer" \in Services
  BY ServerAssumption DEF Services
<1>1. CASE Sent \/ RecordDelivery \/ Recorded \/ ReadLogs \/ LogsRead
  BY <1>1, MoveShutdown, RunningKnown DEF Sent, RecordDelivery, Recorded, ReadLogs, LogsRead
<1>2. CASE RecordDeliveryNil \/ ReadLogsNil
  BY <1>2, StillShutdown DEF RecordDeliveryNil, ReadLogsNil, services
<1> QED
  BY <1>1, <1>2 DEF DeliverStep

LEMMA ListenerShutdown ==
  ASSUME TypeInv, ShutdownInv, NEW l \in Listeners, ListenerStep(l)
  PROVE  ShutdownInv'
<1> l \in Services
  BY DEF Services
<1>1. CASE StartFails(l) \/ ListenFails(l) \/ AcceptFails(l)
  BY <1>1, MoveShutdown DEF StartFails, ListenFails, AcceptFails
<1>2. CASE Listen(l) \/ AcceptLoopEnds(l) \/ Cleanup(l)
  BY <1>2, MoveShutdown, RunningKnown DEF Listen, AcceptLoopEnds, Cleanup
<1>3. CASE Accept(l) \/ SessionGets(l) \/ SessionPuts(l) \/ SessionEnds(l)
  BY <1>3, StillShutdown DEF Accept, SessionGets, SessionPuts, SessionEnds
<1> QED
  BY <1>1, <1>2, <1>3 DEF ListenerStep

LEMMA ServiceShutdown ==
  ASSUME TypeInv, ShutdownInv, NEW s \in Services, AddShutdownFn(s) \/ Report(s) \/ Stop(s) \/ StopNil(s)
  PROVE  ShutdownInv'
<1>1. CASE AddShutdownFn(s)
  <2>1. pc'[s] = "registered" /\ \A r \in Services \ {s} : pc'[r] = pc[r]
    BY <1>1 DEF AddShutdownFn, Goto, TypeInv, TypeOK
  <2> QED
    BY <1>1, <2>1, LoopsServe DEF AddShutdownFn, ShutdownInv, IsUp, Finished, Known
<1>2. CASE Report(s)
  BY <1>2, MoveShutdown DEF Report
<1>3. CASE Stop(s)
  <2>1. \A r \in Services : stop[r] # "no" => stop'[r] # "no"
    BY <1>3 DEF Stop, TypeInv, TypeOK
  <2> QED
    BY <1>3, <2>1 DEF Stop, services, ShutdownInv, IsUp, Finished, Known
<1>4. CASE StopNil(s)
  BY <1>4, StillShutdown DEF StopNil, services
<1> QED
  BY <1>1, <1>2, <1>3, <1>4

LEMMA ServeShutdown ==
  ASSUME TypeInv, ShutdownInv, Serve \/ ServeReturns \/ ShutdownStep
  PROVE  ShutdownInv'
<1>1. CASE Serve
  <2>1. \A s \in Services : pc'[s] = "spawned"
    BY <1>1 DEF Serve
  <2> QED
    BY <1>1, <2>1, LoopsServe DEF Serve, ShutdownInv, IsUp, Finished, Known
<1>2. CASE ServeReturns \/ Interrupt \/ Deadline
  BY <1>2 DEF ServeReturns, Interrupt, Deadline, services, ShutdownInv, IsUp, Finished, Known
<1>3. CASE Exit
  BY <1>3, StillShutdown DEF Exit, services
<1>4. CASE Stage1
  <2>1. \A s \in Services : Known(s) => stop'[s] # "no"
    BY <1>4 DEF Stage1, Known, TypeInv, TypeOK
  <2> QED
    BY <1>4, <2>1, LoopsServe DEF Stage1, services, ShutdownInv, IsUp, Finished, Known
<1>5. CASE CloseDB \/ DBClosed
  BY <1>5 DEF CloseDB, DBClosed, services, ShutdownInv, IsUp, Finished, Known
<1> QED
  BY <1>1, <1>2, <1>3, <1>4, <1>5 DEF ShutdownStep

LEMMA ShutdownNext == TypeInv /\ ShutdownInv /\ [Next]_vars => ShutdownInv'
<1> SUFFICES ASSUME TypeInv, ShutdownInv, [Next]_vars PROVE ShutdownInv'
  OBVIOUS
<1>1. CASE Terminated \/ UNCHANGED vars
  BY <1>1, StillShutdown DEF Terminated, vars, services
<1>2. ASSUME NEW u \in Users, SenderOpens(u) \/ \E l \in Imap : LoginOpens(l, u)
      PROVE  ShutdownInv'
  BY <1>2, StillShutdown DEF SenderOpens, LoginOpens, services
<1> QED
  BY <1>1, <1>2, LoopShutdown, DeliverShutdown, ListenerShutdown, ServeShutdown, ServiceShutdown DEF Next

\* No registration of a shutdown function is lost, whenever the interrupt comes:
\* a service that runs is on the list or its function has been started,
\* although Serve assigns the list, each listener and the local sender append
\* to it from their goroutines, and Shutdown empties it.
THEOREM ShutdownForgetsNone == Spec => []NoneForgotten
<1>1. ShutdownInv => NoneForgotten
  BY DEF ShutdownInv, NoneForgotten, Known
<1> QED
  BY <1>1, TypeInit, TypeNext, ShutdownInit, ShutdownNext, PTL DEF Spec
=============================================================================
