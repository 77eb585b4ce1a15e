# A TLA+ model of spilld

spilld is a mail server: it receives mail by SMTP, keeps it in a staging
database, processes it, stores it in per-user databases (*spillboxes*) that IMAP
clients read, and sends the mail its users submit to other servers. This
directory models the parts of it in which steps of several goroutines, databases
and failures meet, checks the models with TLC and proves theorems about them
with TLAPS. `PROJECT.json` lists the runs, the source lines behind every
definition, the mutants that show each property can fail, the findings and the
hazards.

## Inventory

| part | state | operations | talks to |
|---|---|---|---|
| SMTP server `smtp/smtpserver` | list of sessions, mutex and cond, shutdown channel; per session TLS, auth token, message, number of recipients | accept, Shutdown, one handler per command | calls `Auth`, `NewMessage`, and `AddRecipient`, `Write`, `Close`, `Cancel` of the message |
| reception `spilldb/smtpdb` | staging rows of the message, a buffer file | `NewMessage`, `AddRecipient`, `Write`, `Close`, `Cancel` | staging database; wakes the processor and the deliverer up |
| staging database `spilldb/db` | Msgs, MsgRecipients, MsgRaw, MsgFull, Deliveries; users, addresses, devices, DKIM records | SQL statements | the only queue between the parts |
| processor `spilldb/processor` | batch, `maxReadyDate` | `Run`: collect, process, `processSave` | staging database, web cache; wakes the local sender up |
| local sender `spilldb/localsender` | batch per user | `Run`: collect users, collect messages, store, mark | staging database and the users' boxes |
| deliverer `spilldb/deliverer`, `smtp/smtpclient` | batch per StagingID | `Run`: collect and sign, send, record | staging database, remote servers |
| life cycle `spilldb/spilldb.go` | shutdown functions, error channel | `Serve`, `Shutdown` | all of the above |
| box `spilldb/spillbox` | mailboxes with NextUID and UIDVALIDITY, mod-sequences per name, message rows with their states and flags | `InsertMsg`, `CreateMailbox`, `DeleteMailbox`, ... | one SQLite database per user |
| IMAP backend `spilldb/imapdb` | a session's selected mailbox; sequence numbers by query | `Append`, `Store`, `Expunge`, `Copy`, `Move`, `Search`, `Fetch` | box |
| box table `spilldb/boxmgmt` | open boxes, notifiers | `Open`, `RegisterNotifier` | local sender and logins open, IMAP servers register |
| IMAP server `imap/imapserver` | connections with mode, mailbox, queued updates, IDLE; three kinds of mutex | one handler per command, `Notify`, `Shutdown` | IMAP backend, push notifications |
| IMAP parser `imap/imapparser` | scanner with its buffer, list depth and sticky error; mode | `ParseCommand`, `Drain`, matching of search keys | IMAP server |
| authentication `spilldb/db/auth.go`, `util/throttle` | attempts per address | `AuthDevice`, throttle | SMTP and IMAP servers |
| message and HTML code `email`, `html` | none | cleave, build, sign, verify, embed, sanitise | processor, deliverer, local sender |
| helpers: janitor, honeypot, web cache, DNS, greylist | small caches | | |

What is hard: four kinds of goroutines commit to one database without common
transactions; the local sender commits to two databases one after the other;
StagingIDs are used again; any statement can fail and the process can stop
between any two; queues are scanned through windows of limited size; the SMTP
server hands out places with a condition variable and is shut down under load;
IMAP connections change one mailbox concurrently and notify each other with
locks held; the IMAP parser must find the next command after any mistake of the
client; the server is stopped while all of this goes on. What makes the parts correct is stated at the properties below.

## Modules

    StagingDB            the tables, failures, and what the outside has seen
      SmtpMsg            spilldb/smtpdb
      Processor          spilldb/processor
      LocalSender        spilldb/localsender, with the boxes it writes to
      Deliverer          spilldb/deliverer and smtp/smtpclient
        MailPipeline     all of them together, crashes, and the properties
          MCMailPipeline      instances for TLC
          MailPipelineProofs  types; bodies, boxes and dates; the queue and the refinement
    MailDelivery         the abstract specification MailPipeline implements
    SmtpServer           smtp/smtpserver
      MCSmtpServer       instances for TLC
      SmtpServerProofs   safety theorems
    SpillBox             spilldb/spillbox and spilldb/imapdb
      MCSpillBox         instances for TLC
      SpillBoxProofs     safety theorems, and the refinement
    MailStore            the abstract specification SpillBox implements
    ImapServer           imap/imapserver: connections, locks, notification
      MCImapServer       instances for TLC
      ImapServerProofs   safety theorems
    ImapParser           imap/imapparser: scanner and ParseCommand
      MCImapParser       the command lines a client may send
      ImapParserProofs   safety theorems
    ImapSearch           SEARCH, from the matcher to the answer
      MCImapSearch       mailboxes and commands
      ImapSearchProofs   the answer is exact
    SpilldServer         spilldb.Server, main, janitor, boxmgmt
      MCSpilldServer     instances for TLC
      SpilldServerProofs safety theorems
    InductionLemmas      induction and recursion, for the proofs about data

### The pipeline

A table is a function from StagingID. A blob is abstracted to the *submission*
(the SMTP transaction) whose bytes it holds, so that a property can say whose
mail is where; `Blank` is a zeroblob not yet filled. Addresses stand for what is
left after `asciiLower`. SQLite commits every statement on its own unless the
code opens a savepoint; so each commit is an action:

* `SmtpMsg`: `Close` is `CloseInsertRaw`, `CloseWriteRaw` and then `CloseUnauth`,
  or `CloseLocal` followed by `CloseRemote`. Each has its failure, after which
  `removeMsg` runs in two steps that can fail themselves. The state `smtpPc` is
  the place in that sequence.
* `Processor`: `ProcCollect` starts a batch (`wg.Wait` lets no other begin before it
  is over), `ProcSave` is the transaction of `processSave`. `Unprocessable` are the
  submissions whose bytes are rejected each time.
* `LocalSender`: `LsStore` commits to the user's box, `LsSetSent` to the staging
  database. `copies` and `boxIDs` are what the box holds; `Undeliverable` is what it
  rejects.
* `Deliverer`: `DlCollect`, then per StagingID `DlSend` (or `DlSendFails`, with any
  combination of accepted, reported and successful recipients that
  `smtpclient` can produce), then one commit per result and per success.
  `Unsignable` is what `msgcleaver.Sign` rejects: it stops `Run`.
* `MailPipeline!Crash`: the process dies at any point and is started again. All but
  the databases is lost. Panics are crashes too: the code re-raises them.

The wake-up channels `newmsg` are left out: each loop also wakes up every two
seconds, so its collect step is possible at any time. `acked`, `rcptsOf`, `authOf`
and `sent` record what clients and remote servers have seen. SQLite does not
enforce the foreign keys of the schema on these connections, and neither does
the model. `INTEGER PRIMARY KEY` without `AUTOINCREMENT` gives one more than the
largest row, which `IsNextRowID` says.

### The SMTP server

One goroutine per connection, whose place is `phase`: `starting` before the
wait loop of `serveSession`, `waiting` in `sessionsCond.Wait`, `command` in the
loop, `mail` between MAIL's look at the shutdown channel and `NewMessage`, `data`,
and `ending`, `leaving` before the two deferred functions. The server itself is
in `serving`. A message is known by the calls it gets. `SmtpServer` and the
pipeline meet in those calls: `MessagesOwned` and `EndsOnce` are what
`SmtpMsg` takes for granted (one `Close` or one `Cancel`, never both).
Replies, parsing, and commands that change nothing are left out.

### The mailboxes of a user

`SpillBox` has the tables of a user's database: `boxes` (Mailboxes), `modNext`
(MailboxSequencing) and `msgs` (Msgs). `insertMsg`, `setMsgFetched` and
`assignMailbox` are one transaction, hence one action (`Deliver`, `Append_`).
`Store`, `Copy`, `Move` and `Expunge` open a savepoint and work message by
message, calling back after each: they are a `Begin`, a `NextRange` per range of
the sequence set, a step per message and a `Commit` or a `Rollback`. The
connections share a cache, so nobody else writes meanwhile: that `NoTxn` guards
all other actions is this lock. What others can still do is come in between two
commands: a session keeps the MailboxID of its selected mailbox (`selected`) and
of the destination it has looked up (`target`) while `DeleteMailbox` and
`CreateMailbox` go on. `history` records the names and UIDVALIDITY clients have
seen, and `shown` the list a client has after the EXPUNGE responses so far.
A tombstone is the row `Move` leaves for `VANISHED`. `MailStore` is
the promise: every message in one place, moved or removed as a whole command.

### The IMAP server

`ImapServer` has the connections of one user and a goroutine per delivered
message (`Notes`). `pc` is the place of a connection's goroutine: `lock` after the
parser has read a command and before `bwMu`, `run` with it, `plan` in the course
of a handler, `send` and `visit` in `sendIdleUpdate`. A handler is a sequence of
stages (callbacks inside a transaction, its commit, `Info`, the update to the
others), each a step, because each may wait for a lock: `bwMu` of a connection,
`user.mu`, `connsMu`, and `db` for readers while a transaction is open. `Notify`
goes over `user.conns` in any order (Go's maps). `closeMailbox` is called without
`bwMu` where a connection ends and at the deadline of `Shutdown`; the panics this
leads to are actions. Updates are a set of kinds and mailboxes; their numbers
are in `SpillBox`.

### The IMAP parser and SEARCH

`ImapParser` reads lexemes: a command line is a sequence of them, a literal is its
header and its data. `Read` says what the scanner makes of the lexeme ahead when
a token of a kind is expected: a token, nothing, or an error that sticks.
`ParseCommand` is a table of rules, one node per call of `Scanner.next`, from which the
token read chooses the next. `Drain` and the deferred function that calls it are
`ReturnError`; then the next line must be read from its start. `LinesAreFramed` says what a
line is: its last lexeme is the only CRLF that is not in the data of a literal
(`Awaited`), and the data a literal announces are there; that the connection ends in a
literal is `Received`. How bytes make up a lexeme (quoting, base64, UTF-7) is left out.

`ImapSearch` is a pure algorithm: `match` from imapparser (`matchKey` for the keys that have no
keys inside them), the scan of imapdb, and the answer of `cmdSearch` with its running
minimum, maximum and ranges, against `Meaning`, a definition by sets. Keys are trees, as the
parser builds them: those of `Ops` have a `Height` above that of the keys inside them, NOT has
one of those, and the date of ON is the start of a day. UIDs ascend and are below
`MaxUint32`: `minResult` starts with that value and is replaced by a smaller one only, so
that MODSEQ would be wrong for a message that has it.

### The life of the process

`SpilldServer` has `Serve`, which starts a goroutine per loop and listener, the shutdown
functions each registers, the error channel with its capacity, `Shutdown` with its
two stages, and `main`. What loops and sessions do is reduced to taking and
returning connections of the database's pool; the deliverer's cycle keeps
its three uses of the pool, two of which do not check for nil.

The models meet where the code does: `SmtpServer` calls `SmtpMsg`; `LocalSender!LsStore`
is `SpillBox!Deliver`, whose commit starts the `Notify` of `ImapServer!Deliver`; the
modes and commands of `ImapServer` are those `ImapParser` lets pass, and its transactions
are those of `SpillBox`; `SpilldServer` starts and stops all of them.

## What is checked

Runs that pass (`tlc -config <run>.cfg <MC module>`, the module is in `PROJECT.json`):

| run | question |
|---|---|
| `pipeline_faults` | With one crash or error: mail goes only to the envelope of its own transaction (`EnvelopeRespected`), what a loop collects it can load (`QueueLoadable`), and the whole implements `MailDelivery`. |
| `pipeline_all_faults` | With two failures of any kind, those of the clean-up included: accepted mail stays in the queue with all its recipients, each in a state that a loop looks for or has dealt with, except remote ones that `processSave` takes along with a local one, see `violation_remaining` (`AcceptedNotLost`), done means delivered and recorded (`DoneMeansDelivered`), no mail twice in a box (`AtMostOnce`), no relaying for strangers (`NotOpenRelay`), ReadyDate grows although the clock goes back (`ReadyDateGrows`), bodies are never replaced (`RawImmutable`). |
| `pipeline_liveness` | `LocalMailArrives`, with a mail that can never be stored in front of it, `RemoteMailSent` and `SendingEnds`, with a crash or an error. |
| `smtp_messages` | Two connections, all commands: one `Close` or `Cancel` per message (`MessagesOwned`, `EndsOnce`), a drained server is quiet (`DrainedIsQuiet`). |
| `smtp_sessions` | Four connections for two places: `NoLostWakeup`, and the liveness properties `ServeReturns` and `EveryoneServed`. |
| `mailbox` | Identifiers are never used twice (`UIDValidityUnique`, `UIDsUnique`), the numbers of EXPUNGE responses fit a client that removes one message after the other (`ExpungeNumbering`, moves into the selected mailbox itself excepted), what changes gets a MODSEQ above all messages of its mailbox (`NewModSeqIsHigher`), and the box implements `MailStore`, rollback and crash in mid-command included. |
| `imap_server` | Commands find the mailbox their mode promises (`CommandsFindMailbox`), updates are about the mailbox that is selected, though a connection may lose its mailbox while Notify is about to queue for it (`UpdatesForMailbox`), and no idling connection is passed over by a notification unless its Info fails (`NotifyReaches`). |
| `imap_parser` | 54 command lines, right and wrong, any two of them one after the other: each call of `ParseCommand` ends, but for the loop over the flags of APPEND (`ParseEnds`), begins at the start of a line (`InStep`), and a right line is accepted in its modes, whatever came before (`GoodLinesRun`). |
| `imap_search` | `AnswerExact`: 21 keys, SEARCH and UID SEARCH, 7 choices of RETURN options, on every mailbox of up to three messages. |
| `server_lifecycle` | The interrupt comes at any time: the shutdown function of every service that runs is on the list or has been started (`NoneForgotten`), every open box knows every IMAP server exactly once (`BoxesNotifyAll`), and the process ends although the database is closed under its users (`ShutdownEnds`). |

Runs that show a disagreement between the code and what the repository says
about it (the finding in `PROJECT.json` quotes the line):

| run | what TLC shows |
|---|---|
| `violation_remaining` | `processSave` updates all recipients of a StagingID, remote ones included: they leave the deliverer's queue unsent. |
| `violation_sent` | `Shutdown` closes the database while the deliverer is sending; the success cannot be recorded, and the mail is sent again after the next start. |

Further configurations, not among the runs of `PROJECT.json`, for those who
change the code they are about. The first three pass, the others end in a
counterexample:

| configuration, module | what TLC shows |
|---|---|
| `pipeline_users`, MCMailPipeline | Two users, three addresses, windows of one row: `AtMostOnce` and the refinement hold. |
| `parser_lines`, MCImapParser | The lines of `imap_parser` have what the theorem `ParserInStep` asks for: the end of a line and of its command are read together (`EndsTogether`). |
| `server_janitor`, MCSpilldServer | `server_lifecycle` with the janitor as a third loop (about four minutes). |
| `violation_envelope`, MCMailPipeline | `Close` fails in its second UPDATE, the StagingID is freed while the processor works on it, and the next message's recipients get the old mail. |
| `violation_block`, MCMailPipeline | Messages that always fail fill the window of a scan and block the rest. |
| `violation_unsignable`, MCMailPipeline | One message that cannot be signed stops the deliverer. |
| `violation_sessions`, `violation_recipients`, MCSmtpServer | Both limits are off by one, in opposite directions: MaxSessions, "max concurrent clients" (smtpserver.go:49), lets one more in (`SessionLimit`), MaxRecipients one fewer. |
| `violation_modseq`, MCSpillBox | "we play it safe and always increment the value for a given mailbox name" (sql_spillbox.go:46-47), but `Move` writes the mod-sequence of the destination on the tombstone in the source: HIGHESTMODSEQ, which counts tombstones, gets ahead, and later changes are below it. |
| `violation_selfmove`, MCSpillBox | A MOVE into the selected mailbox itself, which neither `cmdCopyOrMove` nor `Move` looks at: with a UID set such as `1,3:*` the second range selects again what the first has moved to the end of the mailbox, and the numbers reported do not fit the client's list (`MoveNumbering`). |
| `violation_idle`, MCImapServer | A connection in `sendIdleUpdate` and the goroutine of `Notify` wait for each other's `user.mu` and `bwMu`: "an externally-send message should notify over IDLE" (commandtest.go:571) never happens. |
| `violation_append`, MCImapParser | The loop over the flags of APPEND does not end at a flag that is not one (parser.go:446), because an error of the scanner sticks (`AppendEnds`; `ParseEnds` excepts this loop). |
| `violation_forgotten`, MCSpilldServer | "Stage 1: shut down the serving elements" (spilldb.go), but a service that registers its shutdown function after `Shutdown` has emptied the list is never told (`AllTold`). |
| `violation_instep`, MCImapParser | Without `EndsTogether` the parser gets out of step: after `ENABLE` with nothing behind it the end of the line has been read, and `Drain` swallows the next line. |

Seen on the way, without a run of their own: when the deliverer is faster than
the processor, `processSave` brings a recipient back from Done to Received; `removeMsg`
leaves the MsgRaw row behind, so that the next message with that StagingID is refused
by the primary key; an error of a collect function ends its loop until the next
restart, since `Serve` reads `errCh` only after all its goroutines have ended; eight
messages that `process` rejects fill the window of `collectToProcess` for good;
`Notify` returns on an error of `Info` with the connection's `bwMu` locked
(`NotifyFails`); clients are told of EXPUNGE and MOVE before the transaction commits
(`TxnFails`); `Move` corrects every range of sequence numbers by all that was moved
before it, as if the ranges were ascending, and nothing sorts them: `MOVE 3,1` moves
message 3 and nothing else (what it reports is right); at the deadline of `Shutdown` a command may find its mailbox gone and
panic (`CommandPanics`); a service that is told to shut down before it
listens closes a nil channel.

This is why `pipeline_faults` leaves the fault kinds `remoteUpdate`, `cleanup` and
`collect` out, and why `RemoteMailSent` speaks of mail with remote recipients
only: with them `EnvelopeRespected` and the refinement do not hold. That accepted
mail is not lost and that done means delivered do not depend on it: these
two are checked, and proved, with every kind of failure. In the same way
`imap_parser` leaves out the lines that take the parser out of step with the
client: QRESYNC with two or three parameters (parser.go:827 returns before the
closing parentheses), LIST and ENABLE with nothing behind them, and a mistake in the
last, optional part of ENABLE, ID, STATUS, FETCH or APPEND, where the end of the line has
been read as the end of that part and `Drain` swallows the next line. `EndsTogether` is what
the other lines have in common. No line has a literal behind the one of APPEND:
the parser has set `Scanner.Literal` to nil by then (parser.go:468) and would
copy to it, while the table of rules answers BAD.

**Bounds.** Two submissions are enough for one to be removed and the other to get
its StagingID while a batch still holds it, or to be blocked by the other;
`MaxFaults` is 1 or 2: the second
failure strikes in the handling of the first. `MaxClock` 2 lets the clock stand
still, go forward and back. Windows of one or two rows are full soon; the limits
in the code are 8, 10 and 300. One session more than there are places has to wait,
and a fourth connection can take the place a waiter was woken up for.
Connections are interchangeable, so `smtp_messages` uses symmetry; `smtp_sessions`
checks liveness and does not.

`mailbox`: three mailboxes let a name be deleted and created again while the old
one is selected; four rows are enough for two messages to be moved with their
tombstones, two ranges of numbers for `Move` to correct the second by the first,
the last of them open (`3:*`), so that it reaches what arrives meanwhile;
`MaxModSeq` 2 ends a mailbox's life after three changes, and two mailboxes have
unequal counters by then. One session suffices, since commands of two sessions
do not overlap (the shared cache) and differ in `selected` and `target` only, which
go stale by `DeleteMailbox` and `Crash`. `imap_server`: the limit is one more than
`MaxConns`, so two connections are served at once; two mailboxes for an update to be
about the wrong one; one note and one expunged message, because each
lock is taken and released once per loop. Connections and mailboxes are
interchangeable. `imap_parser`: an error's effect reaches one line further, so two lines
are enough. `server_lifecycle`: a pool of two connections with three users of it,
and an error channel of two with three services, so that both fill up (24 and 8 in
the code); the processor behaves like the local sender here and is left out,
the janitor is in `server_janitor`, and there are no SMTP or DNS listeners beside the IMAP one.

**Deadlock** is not checked: a server without clients, or one that has been shut
down, has nothing to do; the bounds end the others. `server_lifecycle` checks it: until the process ends, something can
always happen.

**Fairness.** Of the pipeline: each loop's ticker fires and its goroutines and
statements come to an end (`Fairness` is weak fairness of the loops' own steps
and of a `Close` or `removeMsg` under way). Failures and crashes have no fairness,
and are bounded. Clients owe nothing. Of the SMTP server: goroutines run, `Accept` on a
closed listener fails, the context of `Shutdown` expires. Clients may stay silent
for ever, as spilldb sets no `ReadTimeout`; so `EveryoneServed` has the premise
that sessions come to an end. Of the process (`SpilldServer!FairSpec`): `main` and `Shutdown`
go on, and who holds a connection of the pool returns it, as nothing between
`Get` and `Put` waits for anything but the database (a failed login sleeps in the
throttle for seconds); loops, listeners and clients owe nothing else. Of the
parser: `ParseCommand` runs. `ImapServer!FairSpec`, strong fairness of every goroutine
since `sync.Mutex` starves nobody, is used by `violation_idle` only, so that its
counterexample is the cycle of locks and not an idle scheduler.

## What is proved

For every value of the constants: any number of sessions, users, addresses,
messages and failures. The assumptions are the named ASSUMEs of the modules
(bounds are natural numbers, local addresses are addresses).

The first two parts of `MailPipelineProofs` are about types, bodies, boxes and dates:

* `TypeCorrect` (`TypeOK`). The type of `sent` needs that what the deliverer sends is a
  stored body, which is not a matter of types: `TypeInv` adds `SmtpSane` (past
  saveMsg the body is in MsgRaw) and `SendingSaved` (a recipient in state Sending,
  or in the deliverer's batch, has its body).
* `RawNeverReplaced` (`RawImmutable`), from `RawInv`: a StagingID is given out again
  after `removeMsg`, which leaves the row of MsgRaw, so the proof rests on
  the primary key of MsgRaw: at most one session is between INSERT and blob write
  for a row, and its row is blank (`RowInv`).
* `StoredAtMostOnce` (`AtMostOnce`), from `BoxInv` and `RawInv`: a mail is in a box only
  if its StagingID is in `boxIDs`, a body is in one row of MsgRaw only (`StoreInv`) and
  what the processor stores is that body; so a second copy would need the same
  StagingID, which the box refuses.
* `ReadyDatesGrow` (`ReadyDateGrows`), from `DateInv`: no row is dated later than
  `maxReadyDate`, which `loadMaxReadyDate` restores after a crash.
* `OnlyAuthenticatedRelayed` (`NotOpenRelay`), from `RelayInv`: a recipient
  becomes Sending only in `CloseRemote` of an authenticated session whose body is the
  row's.

The third part is about the rows themselves, through every commit of every loop.
Its invariants stand in `MailPipeline` beside the properties:

* `NothingAcceptedIsLost` (`AcceptedNotLost`), with failures of every kind. What
  could lose an accepted mail is `removeMsg` of another session, so the proof first
  shows that StagingIDs of sessions under way differ (`IDInv`: `removeMsg` deletes
  the row of Msgs last) and that the deliverer works only on those that no session
  holds (`DlInv`). `AcceptInv` then follows the rows of an envelope through `Close`:
  not handed on, local ones handed on, all handed on. `RemoteInv` says how a remote
  recipient can be passed over: the processor only gets a StagingID whose body is
  stored (`CollectedSaved`), which `Close` cannot store again (`BodyFresh`), so a batch
  that still holds the StagingID of a removed message is harmless to the next one; what
  it processes of an accepted mail has a local row (`LiveRows`), which
  `processSave` marks as well.
* `DoneIsDelivered` (`DoneMeansDelivered`), with failures of every kind, from
  `DoneInv`: what is not yet marked Done but will be is already delivered. `lsCur` is a
  mail that is in the box, and `dlOK` holds addresses that the other server has taken and
  whose result is recorded, or about to be (`ResultsTrue`).
* `QueueIsLoadable` (`QueueLoadable`), under the hypothesis that `remoteUpdate` and
  `cleanup` failures are not both possible: it takes both, one to remove a message
  that has been handed on, and one to leave its recipients without it. `QueueInv`
  has a part for each case.
* `OnlyAddressees` (`EnvelopeRespected`), under the hypothesis that neither occurs;
  `violation_envelope` shows why. `EnvelopeInv`: the rows of a StagingID that a
  session or a loop uses are of the envelope of its body.
* `PipelineImplementsMailDelivery` (`ImplementsMailDelivery`), under the same
  hypothesis. Each step is an `Open`, `Address`, `Accept`, `Deliver` or `Relay` of
  `MailDelivery`, or changes nothing of what is seen; that only accepted mail is
  relayed is `RelayedInv`.

`SmtpServerProofs` rests on `SmtpServerAssumption` only (finitely many
connections, positive limits). None of the properties of messages is inductive:
`EndMsg` is harmless only if the message is open, which needs that the session is on
the list exactly while it is served and has no message outside its command loop
(`PhaseInv`); a new message must be fresh (`NumberInv`); `RecipientsBounded` is about
`rcpts` of the message while the code counts `numRcpts` of the session (`CountInv`).
`Inv` is the conjunction of `TypeOK`, these, `ShutdownInv`, `MessagesOwned`,
`RecipientsBounded` and `DrainedIsQuiet`, and it is inductive.

* `MessagesHandled`, `RecipientsStayBounded`, `QuietWhenDrained`, `ServerTypes`: parts of
  `Inv`; `MessagesEndOnce` (`EndsOnce`): a step changes only the open message of the
  session that takes it.
* `SessionsStayBounded` (at most `MaxSessions + 1`, which is all that the code keeps of
  its documented limit), `WakeupsNotLost`: inductive together with `Inv`
  (`PlacesInv`), by counting: `Register` takes a connection from those awake to
  `sessions`, `Leave` takes one off and wakes one up, so the places left never
  exceed the connections awake while anyone sleeps.

`SpillBoxProofs` rests on the assumptions of `SpillBox`: sizes are natural numbers, the
reserved names are finitely many names, commands have their types. `UIDsUnique` alone
is not inductive: a rollback brings old tables back, and a step of a transaction
relies on where the messages it has ahead are. `Inv` is `TypeOK`, `RowsOK` of the
tables and of the `saved` ones (a row's UID is positive, below NextUID of its
mailbox, and not shared), and `TxnInv` (the messages ahead are ready in the source,
the destination is a mailbox).

* `BoxTypes` (`TypeOK`), `UIDsStayUnique` (`UIDsUnique`): parts of `Inv`. The
  crux is `MoveMsg`, where a row changes its mailbox and its UID while a tombstone
  takes the old pair over.
* `UIDValidityStaysUnique` (`UIDValidityUnique`), from `HistoryInv`: a deleted mailbox
  keeps its row, so max(UIDValidity) only grows and is never below what clients
  have seen; and transactions, rolled back or not, change no name.
* `ModSeqsGrow` (`NewModSeqIsHigher`), from `ModInv`. Others see a transaction at its
  commit only, when all its rows change at once; so `ChangeInv` says of each row how
  it may differ from the one before the transaction (marked, copied, moved,
  buried, removed), and `SeqInv` that every message is below the number its mailbox
  gives next, and below the number the transaction has taken if it was in that mailbox
  when it began. MODSEQ is counted per name, and a mailbox created again goes on.
* `BoxImplementsMailStore` (`ImplementsMailStore`): from the same `ChangeInv` a commit is
  one `Mark`, `Add`, `Move` or `Remove` of `MailStore`, for all its messages; every step
  before it, `Rollback` and `Crash` are stuttering. The mapping is `Place` and `Carrying`.
* `NumbersFit` (`ExpungeNumbering`), from `NumInv`: the number the query gave a message
  is its number now plus the messages reported since. It needs lemmas on the rank
  of a number in a finite set: removing an element shifts the ranks above it by
  one, and the set as a list loses that place. The first attempt at this proof failed
  at `Move` with the same source and destination; TLC then found
  `violation_selfmove`, which is why the property excepts that case.

`ImapServerProofs` rests on `ImapServerAssumption`: connections, goroutines of Notify
and "free" are different things, and "nil" is no mailbox.

* `UpdatesStayForMailbox` (`UpdatesForMailbox`) is not inductive because of Notify,
  which keeps a connection locked while it waits for Info and then queues for it
  without another look at which mailbox is selected, or whether one is. `NoteInv`
  says that it has the `bwMu` of the connection meanwhile, which can lose its mailbox
  but not get another one, and `LockInv` that SELECT, the only way to get one, runs with
  `bwMu` held by the connection itself; `QueueInv`, that a connection that holds its
  `bwMu` without a mailbox has nothing queued, since `serveCmd` writes the updates out
  first.
* `CommandsKeepMailbox` (`CommandsFindMailbox`), from `CmdInv`: the mode Selected
  implies a mailbox, and so does a command of `BoxCmds` from the parser to its end
  until `CloseAll`; APPEND, which is allowed without a mailbox, never has a step
  ahead that reads it.
* `ServerTypes` (`TypeOK`), which also says who may hold which lock: from `Inv` and
  `HoldInv`. A handler's plan commits once, after its callbacks (`PlansOK`), so the
  transaction is open exactly while a commit is ahead, and `user.mu` and `connsMu` are
  with the goroutine that is at the place where the code has them (`HoldsOK`,
  `NoteHolds`).
* `NotifyReachesAll` (`NotifyReaches`), from `ReachInv`: whoever has selected a mailbox is
  in `user.conns` until its end (`LoggedIn`), so the list that Notify copies has every
  connection that idles; while one is owed a notification it stays idle in that
  mailbox, and Notify has it ahead (`OwedOK`), unless an error of Info has ended that
  Notify (`leaked`).

`SpilldServerProofs` rests on `ServerAssumption`.

* `ServerTypes` (`TypeOK`): with `IsFiniteSet(conns)`, as the pool is bounded by a
  cardinality; `BoxesNotifyAllServers` (`BoxesNotifyAll`) with it.
* `ShutdownForgetsNone` (`NoneForgotten`), whenever the interrupt comes: a service
  registers before it is up, `Serve` assigns the list before any service runs, and
  Shutdown starts what it takes off the list. That a service may register after
  Shutdown has passed, and is then never told, is no contradiction: it stays on
  the list (`violation_forgotten`).

`InductionLemmas` is for the proofs about data. The library's induction theorems
have an operator as a parameter, which the provers cannot fill in; here it is
a set. `Induct`: a set with 0 and all successors has every number up to n; `LeastOf`: a
set of numbers has a least one; `Recursion`: a function that each number's value is
computed from the value before exists, so what `f[n \in 0..N] == ...` chooses has its
equation; `TreeRecursion`, `TreeInduction`: the same over a set of trees whose nodes
have a height.

`ImapParserProofs` rests on `ImapParserAssumption` and `LinesAreFramed`, for any lines and any
number of them. Its lemmas first say where in the input each line starts, and that
every node a rule leads to has a rule.

* `ParserTypes` (`TypeOK`), from `TypeInv`: no literal is read beyond the input, no
  parenthesis is closed that is not open, no call returns that is not on the stack.
* `FailureEndsWork`: after a failure of the scanner no command is run, since
  the error sticks (`FailInv`).
* `ParserMovesOn`: no two calls of `ParseCommand` begin at the same place, so the loop
  that serves a connection does not spin on what it cannot parse. `MoveInv` has the
  exception that makes it delicate: a call that fails before its first lexeme moves on by
  `Drain` only.
* `ParserInStep` (`InStep`), under the hypothesis `[][EndsTogether]_vars`. `violation_instep` shows why
  it is needed, and `parser_lines` that the lines of the run meet it. `StepInv` says where the
  k-th call is (`OnLine`): in the k-th line and not in the data of one of its
  literals, or behind it. The crux is `RestEnds`: from any place in a line, `Drain` ends with
  the end of that line, as it reads the data of a literal as data.

`ImapSearchProofs` rests on the assumptions of `ImapSearch`, for any mailboxes and any keys.

* `SearchAnswerExact` (`AnswerExact`), in four steps: by induction over the key, the messages
  of `Meaning` are those that match (`MeaningIsMatch`; the day of ON and the open end of a range
  are where the two definitions differ); the loop invariant of the scan (`Tallied`) says of which
  messages `nums`, the minima, the maxima and their mod-sequences are, and `Results` has it
  (`ResultsTallied`); the ranges `AppendSeqRange` makes of an ascending list name its numbers and
  cannot be merged (`RangesExact`); then each kind of answer is exact (`PlainSearchExact`,
  `ESearchExact`).

The proofs have one step per action of each component. Only model-checked are:

* liveness, which is out of the prover's reach;
* `GoodLinesRun`: that a right line is accepted is a computation on each of the
  lines `MCImapParser` lists, and `good` has no other definition;
* the properties of the two runs, and of the further configurations, that end in a
  counterexample.

## Not modelled

Formatting and logging; how bytes make up lexemes; DKIM, MIME and HTML processing
(a message can be processed, stored and signed, or it cannot); TLS; answers of the
DNS server. An error of the deferred `Close` of a blob, which smtpdb.go:319
does not look at, is taken not to happen. SEARCH has one time zone: imapdb.go:432 gives local time and search.go:75 and 88
compare its day with a date in UTC, which agrees on a server that runs in UTC. The second
pool of Shutdown, of the web cache, is left out: nobody who holds one of its connections
waits. Of the box: bodies and their parts, contacts, conversations and labels. Of IMAP:
FETCH except that it sets \Seen, subscriptions, push devices and APNS; RENAME,
which the backend does not implement. The in-memory backend is for tests
only, and greylisting is not used by the server. `PROJECT.json` says for each
component why.

## Plan

Done: the mail pipeline and its abstract specification; the SMTP server;
mailboxes and their abstract specification; the IMAP server, parser and
search; start and shutdown; proofs of all safety properties of the passing runs but
`GoodLinesRun`, and of both refinements. Next, in this order:

1. `Authenticator` with its throttle.
2. The MIME tree of msgbuilder as an operator, and the web cache.
