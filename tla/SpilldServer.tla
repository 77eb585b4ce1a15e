---------------------------- MODULE SpilldServer ----------------------------
(* Start and shutdown of the server (spilldb.Server, the main function that  *)
(* drives it, the janitor and the table of open user boxes).                 *)
(*                                                                           *)
(* Serve starts a goroutine per service: the four loops (local sender,       *)
(* deliverer, processor, janitor) and one listener per address.  Shutdown    *)
(* starts the shutdown function of every service that has registered one,    *)
(* and closes the database at once.  What a loop or a session does with the  *)
(* database is reduced to taking a connection of the pool and giving it      *)
(* back; of the deliverer's cycle the steps are kept, because they use the   *)
(* pool in three different ways.                                             *)
EXTENDS Naturals, Sequences, FiniteSets

CONSTANTS
  Loops,             \* the background loops that run
  Smtp, Imap, Dns,   \* the addresses to serve, of each protocol
  Users,             \* users with a box
  PoolSize,          \* connections of the pool of spilld.db
  ErrCap             \* capacity of Serve's errCh

Listeners == Smtp \cup Imap \cup Dns
Services == Loops \cup Listeners

ASSUME ServerAssumption ==
  /\ Loops \subseteq {"localSender", "deliverer", "processor", "janitor"}
  /\ {"localSender", "deliverer"} \subseteq Loops
  /\ PoolSize \in Nat \ {0} /\ ErrCap \in Nat \ {0}
  /\ Loops \cap Listeners = {}

VARIABLES
  pc,         \* where the goroutine of each service is
  serve,      \* Serve: "no", "waiting" in wg.Wait, "nil" or "error" returned
  errs,       \* errors in Serve's errCh
  fns,        \* s.shutdownFns, by the service they stop
  stop,       \* the goroutine of a shutdown function: started, or the service told
  made,       \* listeners whose shutdown channels are made
  session,    \* per listener a session: "none", "open", or "db" with a connection
  shutdown,   \* progress of Server.Shutdown
  deadline,   \* is the context given to Shutdown done?
  pool,       \* s.DB: "open", "closing", "closed"
  conns,      \* services that hold a connection of s.DB
  notifiers,  \* bm.notifiers
  boxes,      \* bm.users: the notifiers of each open box
  process     \* "up", "panicked", "exited"

services == <<pc, errs, made, session>>
stopping == <<serve, fns, stop, shutdown, deadline>>
database == <<pool, conns>>
boxmgmt == <<notifiers, boxes>>
vars == <<services, stopping, database, boxmgmt, process>>

LoopPC == {"off", "spawned", "registered", "starting", "loading", "idle",
           "working", "handling", "using", "recording", "saving", "concluding", "logs",
           "failing", "ended"}
ListenerPC == {"off", "spawned", "registered", "accepting", "cleanup", "failing", "ended"}

Finished(s) == pc[s] \in {"failing", "ended"}    \* Run or serve has returned
Told(s) == stop[s] = "told"
IsUp(s) == pc[s] \notin {"off", "spawned", "registered"}

\* The life of the process: New has been called.
Init ==
  /\ pc = [s \in Services |-> "off"]
  /\ serve = "no" /\ errs = 0
  /\ fns = {} /\ stop = [s \in Services |-> "no"]
  /\ made = {} /\ session = [l \in Listeners |-> "none"]
  /\ shutdown = "no" /\ deadline = FALSE
  /\ pool = "open" /\ conns = {}
  /\ notifiers = <<>> /\ boxes = <<>>
  /\ process = "up"

Goto(s, to) == pc' = [pc EXCEPT ![s] = to]
Panics == process' = "panicked"

-----------------------------------------------------------------------------
(* The pool.  Get answers a connection, or nil once the pool is closed or    *)
(* the caller's context is cancelled; when both are possible, either.        *)

GetsConn(s) ==
  /\ pool = "open" /\ Cardinality(conns) < PoolSize
  /\ conns' = conns \cup {s} /\ pool' = pool
GetsNil(s) == Told(s) \/ pool # "open"
PutConn(s) == conns' = conns \ {s} /\ pool' = pool

-----------------------------------------------------------------------------
(* boxmgmt: the table of open boxes, under its mutex.                        *)

RegisterNotifier(n) ==
  /\ notifiers' = Append(notifiers, n)
  /\ boxes' = [u \in DOMAIN boxes |-> Append(boxes[u], n)]

\* Mutant of Open: a new box gets no notifiers.
OpenUnnotified(u) ==
  /\ u \notin DOMAIN boxes
  /\ boxes' = [v \in DOMAIN boxes \cup {u} |-> IF v = u THEN <<>> ELSE boxes[v]]
  /\ UNCHANGED notifiers

Open(u) ==
  /\ u \notin DOMAIN boxes
  /\ boxes' = [v \in DOMAIN boxes \cup {u} |-> IF v = u THEN notifiers ELSE boxes[v]]
  /\ UNCHANGED notifiers

\* The local sender opens the box of a user it has mail for.
SenderOpens(u) ==
  /\ pc["localSender"] = "handling" /\ Open(u)
  /\ UNCHANGED <<services, stopping, database, process>>

\* A login opens the user's box.
LoginOpens(l, u) ==
  /\ session[l] = "open" /\ Open(u)
  /\ UNCHANGED <<services, stopping, database, process>>

-----------------------------------------------------------------------------
(* Serve.                                                                    *)

Serve ==
  /\ serve = "no"
  /\ serve' = "waiting"
  /\ fns' = Loops \ {"localSender"}
  /\ pc' = [s \in Services |-> "spawned"]
  /\ UNCHANGED <<errs, made, session, stop, shutdown, deadline,
                 database, boxmgmt, process>>

\* Mutant of AddShutdownFn: it assigns the list, as Serve does, and appends nothing.
AddShutdownFnAssigns(s) ==
  /\ s \in Listeners \cup {"localSender"}
  /\ pc[s] = "spawned" /\ Goto(s, "registered")
  /\ fns' = {s}
  /\ UNCHANGED <<serve, errs, made, session, stop, shutdown, deadline,
                 database, boxmgmt, process>>

\* addShutdownFn, before the service runs.
AddShutdownFn(s) ==
  /\ s \in Listeners \cup {"localSender"}
  /\ pc[s] = "spawned" /\ Goto(s, "registered")
  /\ fns' = fns \cup {s}
  /\ UNCHANGED <<serve, errs, made, session, stop, shutdown, deadline,
                 database, boxmgmt, process>>

\* Mutant of Report: errCh has no capacity.
ReportUnbounded(s) ==
  /\ pc[s] = "failing"
  /\ errs' = errs + 1 /\ Goto(s, "ended")
  /\ UNCHANGED <<made, session, stopping, database, boxmgmt, process>>

\* A service whose error is not ErrServerClosed reports it; the ninth waits.
Report(s) ==
  /\ pc[s] = "failing" /\ errs < ErrCap
  /\ errs' = errs + 1 /\ Goto(s, "ended")
  /\ UNCHANGED <<made, session, stopping, database, boxmgmt, process>>

ServeReturns ==
  /\ serve = "waiting" /\ \A s \in Services : pc[s] = "ended"
  /\ serve' = IF errs > 0 THEN "error" ELSE "nil"
  /\ UNCHANGED <<services, fns, stop, shutdown, deadline, database, boxmgmt, process>>

-----------------------------------------------------------------------------
(* The loops.  The processor and the local sender begin by loading the last  *)
(* ready date; then every loop wakes up at a tick or a signal.               *)

Run(s) ==
  /\ s \in Loops
  /\ pc[s] = IF s = "localSender" THEN "registered" ELSE "spawned"
  /\ Goto(s, IF s \in {"processor", "localSender"} THEN "starting" ELSE "idle")
  /\ UNCHANGED <<errs, made, session, stopping, database, boxmgmt, process>>

Cycle(s) ==
  /\ s \in Loops /\ pc[s] \in {"starting", "idle"}
  /\ GetsConn(s) /\ Goto(s, IF pc[s] = "starting" THEN "loading" ELSE "working")
  /\ UNCHANGED <<errs, made, session, stopping, boxmgmt, process>>

\* The context is done, or Get returns nil, which counts as context.Canceled.
Canceled(s) ==
  /\ s \in Loops /\ pc[s] \in {"starting", "idle"}
  /\ GetsNil(s) /\ Goto(s, "ended")
  /\ UNCHANGED <<errs, made, session, stopping, database, boxmgmt, process>>

CycleEnds(s) ==
  /\ s \in Loops /\ pc[s] \in {"loading", "working"} /\ PutConn(s)
  /\ \/ Goto(s, "idle")
     \/ s # "janitor" /\ pc[s] = "working" /\ Goto(s, "handling")
  /\ UNCHANGED <<errs, made, session, stopping, boxmgmt, process>>

\* Mutant of CycleFails: the error path keeps the connection.
CycleFailsNoPut(s) ==
  /\ s \in Loops \ {"janitor"} /\ pc[s] \in {"loading", "working"}
  /\ UNCHANGED conns /\ pool' = pool /\ Goto(s, "failing")
  /\ UNCHANGED <<errs, made, session, stopping, boxmgmt, process>>

\* Loading or collecting fails and ends the loop; clean, of the janitor, cannot fail.
CycleFails(s) ==
  /\ s \in Loops \ {"janitor"} /\ pc[s] \in {"loading", "working"}
  /\ PutConn(s) /\ Goto(s, "failing")
  /\ UNCHANGED <<errs, made, session, stopping, boxmgmt, process>>

(* What was collected is handled with the connection given back; each part   *)
(* takes one again, and its errors are only logged.                          *)

HandleGets(s) ==
  /\ s \in Loops \ {"deliverer"} /\ pc[s] = "handling"
  /\ GetsConn(s) /\ Goto(s, "using")
  /\ UNCHANGED <<errs, made, session, stopping, boxmgmt, process>>

HandlePuts(s) ==
  /\ s \in Loops /\ pc[s] = "using" /\ PutConn(s) /\ Goto(s, "handling")
  /\ UNCHANGED <<errs, made, session, stopping, boxmgmt, process>>

Handled(s) ==
  /\ s \in Loops \ {"deliverer"} /\ pc[s] = "handling" /\ Goto(s, "idle")
  /\ UNCHANGED <<errs, made, session, stopping, database, boxmgmt, process>>

(* deliver: send, record the result with a connection that no context can    *)
(* withhold, then read the log of the message's deliveries.                  *)

Sent ==
  /\ pc["deliverer"] = "handling" /\ Goto("deliverer", "recording")
  /\ UNCHANGED <<errs, made, session, stopping, database, boxmgmt, process>>

RecordDelivery ==
  /\ pc["deliverer"] = "recording"
  /\ GetsConn("deliverer") /\ Goto("deliverer", "saving")
  /\ UNCHANGED <<errs, made, session, stopping, boxmgmt, process>>

\* dbpool.Get(nil) of a closed pool is nil, and conn.Prep dereferences it.
RecordDeliveryNil ==
  /\ pc["deliverer"] = "recording" /\ pool # "open"
  /\ Panics
  /\ UNCHANGED <<services, stopping, database, boxmgmt>>

Recorded ==
  /\ pc["deliverer"] = "saving" /\ PutConn("deliverer")
  /\ Goto("deliverer", "concluding") \/ Goto("deliverer", "idle")
  /\ UNCHANGED <<errs, made, session, stopping, boxmgmt, process>>

ReadLogs ==
  /\ pc["deliverer"] = "concluding"
  /\ GetsConn("deliverer") /\ Goto("deliverer", "logs")
  /\ UNCHANGED <<errs, made, session, stopping, boxmgmt, process>>

\* Here too the connection is used unchecked, and the context may withhold it.
ReadLogsNil ==
  /\ pc["deliverer"] = "concluding" /\ GetsNil("deliverer")
  /\ Panics
  /\ UNCHANGED <<services, stopping, database, boxmgmt>>

LogsRead ==
  /\ pc["deliverer"] = "logs" /\ PutConn("deliverer") /\ Goto("deliverer", "idle")
  /\ UNCHANGED <<errs, made, session, stopping, boxmgmt, process>>

-----------------------------------------------------------------------------
(* The listeners.                                                            *)

\* No certificate, or no table for the honeypot: the listener never registers.
StartFails(l) ==
  /\ l \in Smtp \cup Imap
  /\ pc[l] = "spawned" /\ Goto(l, "failing")
  /\ UNCHANGED <<errs, made, session, stopping, database, boxmgmt, process>>

Listen(l) ==
  /\ l \in Listeners /\ pc[l] = "registered" /\ Goto(l, "accepting")
  /\ made' = made \cup {l}
  /\ IF l \in Imap THEN RegisterNotifier(l) ELSE UNCHANGED boxmgmt
  /\ UNCHANGED <<errs, session, stopping, database, process>>

\* APNS.start fails before ServeTLS makes the channels.
ListenFails(l) ==
  /\ l \in Imap /\ pc[l] = "registered" /\ Goto(l, "failing")
  /\ UNCHANGED <<errs, made, session, stopping, database, boxmgmt, process>>

\* Accept fails with an error that is not temporary.
AcceptFails(l) ==
  /\ l \in Listeners /\ pc[l] = "accepting" /\ ~Told(l) /\ Goto(l, "failing")
  /\ UNCHANGED <<errs, made, session, stopping, database, boxmgmt, process>>

SetSession(l, to) == session' = [session EXCEPT ![l] = to]

Accept(l) ==
  /\ pc[l] = "accepting" /\ ~Told(l)
  /\ session[l] = "none" /\ SetSession(l, "open")
  /\ UNCHANGED <<pc, errs, made, stopping, database, boxmgmt, process>>

\* A session reads or writes the database (it answers an error if it cannot).
SessionGets(l) ==
  /\ session[l] = "open" /\ GetsConn(l) /\ SetSession(l, "db")
  /\ UNCHANGED <<pc, errs, made, stopping, boxmgmt, process>>

SessionPuts(l) ==
  /\ session[l] = "db" /\ PutConn(l) /\ SetSession(l, "open")
  /\ UNCHANGED <<pc, errs, made, stopping, boxmgmt, process>>

SessionEnds(l) ==
  /\ session[l] = "open" /\ SetSession(l, "none")
  /\ UNCHANGED <<pc, errs, made, stopping, database, boxmgmt, process>>

\* The accept loop sees the closed listener; DNS has no sessions to wait for.
AcceptLoopEnds(l) ==
  /\ l \in Listeners /\ pc[l] = "accepting" /\ Told(l)
  /\ Goto(l, IF l \in Dns THEN "ended" ELSE "cleanup")
  /\ UNCHANGED <<errs, made, session, stopping, database, boxmgmt, process>>

Cleanup(l) ==
  /\ l \in Listeners /\ pc[l] = "cleanup"
  /\ deadline \/ session[l] = "none"
  /\ Goto(l, "ended")
  /\ UNCHANGED <<errs, made, session, stopping, database, boxmgmt, process>>

-----------------------------------------------------------------------------
(* Shutdown.                                                                 *)

\* The signal comes at any time, before Serve too: main starts Serve in a
\* goroutine and waits for nothing.
Interrupt ==
  /\ shutdown = "no"
  /\ shutdown' = "called"
  /\ UNCHANGED <<services, serve, fns, stop, deadline, database, boxmgmt, process>>

\* Stage 1 starts a goroutine for every function on the list.
Stage1 ==
  /\ shutdown = "called"
  /\ stop' = [f \in DOMAIN stop |-> IF f \in fns THEN "started" ELSE stop[f]]
  /\ fns' = {} /\ shutdown' = "stage2"
  /\ UNCHANGED <<services, serve, deadline, database, boxmgmt, process>>

\* A shutdown function cancels the context of its loop, or closes the channel
\* and the socket of its listener.  It then waits for the service to end, but
\* nobody waits for it.
Stop(f) ==
  /\ stop[f] = "started" /\ f \notin Listeners \ made
  /\ stop' = [stop EXCEPT ![f] = "told"]
  /\ UNCHANGED <<services, serve, fns, shutdown, deadline, database, boxmgmt, process>>

\* close of a channel that was never made, or a method of a nil dns.Server.
StopNil(l) ==
  /\ stop[l] = "started" /\ l \in Listeners \ made
  /\ Panics
  /\ UNCHANGED <<services, stopping, database, boxmgmt>>

\* Stage 2 does not wait for stage 1.
CloseDB ==
  /\ shutdown = "stage2"
  /\ pool' = "closing" /\ shutdown' = "closing"
  /\ UNCHANGED <<services, serve, fns, stop, deadline, conns, boxmgmt, process>>

\* Close of the pool returns when every connection has come back.  That of the
\* cache's pool follows, and waits for no one that waits: its users hold a
\* connection only for a statement.
DBClosed ==
  /\ shutdown = "closing" /\ conns = {}
  /\ pool' = "closed" /\ shutdown' = "complete"
  /\ UNCHANGED <<services, serve, fns, stop, deadline, conns, boxmgmt, process>>

Deadline ==
  /\ shutdown # "no" /\ ~deadline /\ deadline' = TRUE
  /\ UNCHANGED <<services, serve, fns, stop, shutdown, database, boxmgmt, process>>

\* main returns after Shutdown, whatever the services are still doing.
Exit ==
  /\ shutdown = "complete" /\ process' = "exited"
  /\ UNCHANGED <<services, stopping, database, boxmgmt>>

-----------------------------------------------------------------------------
LoopStep(s) ==
  \/ Run(s) \/ Cycle(s) \/ Canceled(s) \/ CycleEnds(s) \/ CycleFails(s)
  \/ HandleGets(s) \/ HandlePuts(s) \/ Handled(s)

DeliverStep ==
  \/ Sent \/ RecordDelivery \/ RecordDeliveryNil \/ Recorded
  \/ ReadLogs \/ ReadLogsNil \/ LogsRead

ListenerStep(l) ==
  \/ StartFails(l) \/ Listen(l) \/ ListenFails(l)
  \/ AcceptFails(l) \/ Accept(l) \/ AcceptLoopEnds(l) \/ Cleanup(l)
  \/ SessionGets(l) \/ SessionPuts(l) \/ SessionEnds(l)

ShutdownStep ==
  \/ Interrupt \/ Stage1 \/ CloseDB \/ DBClosed \/ Deadline \/ Exit

Terminated == process # "up" /\ UNCHANGED vars

Next ==
  \/ /\ process = "up"
     /\ \/ Serve \/ ServeReturns \/ DeliverStep \/ ShutdownStep
        \/ \E s \in Services : AddShutdownFn(s) \/ Report(s)
        \/ \E s \in Loops : LoopStep(s)
        \/ \E l \in Listeners : ListenerStep(l)
        \/ \E s \in Services : Stop(s) \/ StopNil(s)
        \/ \E u \in Users : SenderOpens(u)
        \/ \E l \in Imap, u \in Users : LoginOpens(l, u)
  \/ Terminated

Spec == Init /\ [][Next]_vars

\* A goroutine that holds a connection runs on and returns it: no step of its
\* between Get and Put waits for anything but the database, or sleeps for more
\* than the seconds of the login throttle.
Up(A) == process = "up" /\ A
Fairness ==
  /\ WF_vars(Up(Stage1)) /\ WF_vars(Up(CloseDB)) /\ WF_vars(Up(DBClosed)) /\ WF_vars(Up(Exit))
  /\ \A s \in Loops : WF_vars(Up(CycleEnds(s))) /\ WF_vars(Up(HandlePuts(s)))
  /\ WF_vars(Up(Recorded)) /\ WF_vars(Up(LogsRead))
  /\ \A l \in Listeners : WF_vars(Up(SessionPuts(l)))

FairSpec == Spec /\ Fairness

-----------------------------------------------------------------------------
(* Properties.                                                               *)

\* Every variable has its type; the pool lends no more connections than it
\* has, and errCh holds no more errors than fit.
TypeOK ==
  /\ pc \in [Services -> LoopPC \cup ListenerPC]
  /\ serve \in {"no", "waiting", "nil", "error"} /\ errs \in 0..ErrCap
  /\ fns \subseteq Services
  /\ stop \in [Services -> {"no", "started", "told"}]
  /\ made \subseteq Listeners
  /\ session \in [Listeners -> {"none", "open", "db"}]
  /\ shutdown \in {"no", "called", "stage2", "closing", "complete"}
  /\ deadline \in BOOLEAN
  /\ pool \in {"open", "closing", "closed"}
  /\ conns \subseteq Services /\ Cardinality(conns) <= PoolSize
  /\ notifiers \in Seq(Imap)
  /\ DOMAIN boxes \subseteq Users /\ \A u \in DOMAIN boxes : boxes[u] \in Seq(Imap)
  /\ process \in {"up", "panicked", "exited"}

\* No registration is lost: at any time the shutdown function of a service
\* that runs is on the list or has been started, although Serve assigns the
\* list, the services append to it from their goroutines and Shutdown empties
\* it.  Of those that run when Shutdown has passed, only the ones that
\* registered after it are never told (AllTold).
NoneForgotten ==
  \A s \in Services : IsUp(s) /\ ~Finished(s) => s \in fns \/ stop[s] # "no"

\* spilldb.go: "Stage 1: shut down the serving elements."  When it is over, the
\* function of every service that runs has been started.
AllTold ==
  shutdown \in {"stage2", "closing", "complete"} =>
    \A s \in Services : IsUp(s) /\ ~Finished(s) => stop[s] # "no"

\* Every open box tells every IMAP server about new mail, exactly once, in
\* whatever order boxes were opened (Open) and servers started
\* (RegisterNotifier).
BoxesNotifyAll ==
  \A u \in DOMAIN boxes : boxes[u] = notifiers

\* An interrupt ends the process, although loops and sessions hold
\* connections of the database that Shutdown closes.
ShutdownEnds == shutdown # "no" ~> process # "up"

\* deliverer.go: "An SMTP send has been successful. Do absolutely everything
\* we can to get this fact recorded."  As long as a result waits for its
\* record, the database can take it.
SentIsRecorded == pc["deliverer"] = "recording" => pool = "open"
=============================================================================
