# Verification of Gatebase

TLA+ models of the parts of Gatebase that decide who may reach a database, what they may do to
it and what is recorded of it, with the TLC configurations that check them and the TLAPS proofs
of their safety. Paths below are relative to `src/crates/`.

## 1. The system

Gatebase is a broker, a proxy per target and a shared metadata store. A developer opens a GitHub
issue; when the configured signals hold the broker comments a one-time token on it; the token is
exchanged for a session; the session token opens connections through the proxy; the proxy decides
on, limits, captures, executes and audits every statement.

| Component | State it keeps | Operations | Talks to |
| --- | --- | --- | --- |
| Access tokens (`gatebase-broker/src/handlers.rs`, `gatebase-github`) | `access_tokens` rows (hash, issue, expiry, `used_at`); the raw token only in a handler and a GitHub comment | webhook: signature, signals, find active, insert, comment, close; `POST /api/sessions`: select, conditional update, create session, respond | GitHub (GET and POST per step), metadata store |
| Sessions and connections (`gatebase-session`, both `connection.rs`) | `sessions` and `active_connections` rows; per connection the row read at admission, the wait for the session's end | open, revoke, prune; admit, register, serve, end, close | store, upstream database, client |
| Statement pipeline, Postgres (`gatebase-proxy-postgres/src/query.rs`, `audit.rs`, `rollback.rs`) | the handler's position; the upstream's transaction | decide, capture, BEGIN, execute, ROLLBACK or COMMIT, audit, answer | upstream, audit and rollback sinks, client |
| Extended query protocol (`gatebase-proxy-postgres/src/connection.rs`) | prepared statements, portals, which of them were described | Parse, Bind, Describe, Execute, Close, Sync | the pipeline |
| Statement pipeline, MySQL (`gatebase-proxy-mysql/src/connection.rs`) | as for Postgres | as for Postgres, with COMMIT before OK and a path of its own for result sets | upstream, sinks, client |
| SQL policy (`gatebase-policy`) | none | scan, classify, decide | - |
| Rollback capture (both `rollback.rs`) | none; produces artifacts | parse UPDATE and DELETE, before-image, primary key, inverse statement | upstream, rollback sinks |
| Audit sinks (`gatebase-audit`) | a JSONL file, audit and rollback tables | append, insert | - |
| Metadata store (`gatebase-metadata`) | all tables; schema version by column | migrate, query, activity feed, prune and compact | SQLite or Postgres |
| Users and admin API (`gatebase-broker/src/auth.rs`, `gatebase-cli/src/commands/admin.rs`) | `users` rows; signed bearer tokens | bootstrap, create, login, role checks | store |
| Web console (`gatebase-cli/ui/src`, `gatebase-cli/src/commands/ui.rs`) | the selected page, its pager, filters and open revert; a cache of answers, each with its own request in flight | select a page, turn pages, edit and apply filters, refresh, open a revert, download its before-rows | the broker's list endpoints, through a read-only local proxy |
| Configuration, wire protocols, command line, charts | - | parsing, rendering, installation | - |

**What makes it hard.** Nothing in the code takes a lock: every `await` is a place where other
handlers, the clock, pruning, GitHub and the peer move.

- *Tokens*: check-then-insert (two deliveries for one issue), select-then-update (two requests
  with one token), signals judged on separate reads of an issue that people edit, a row stored
  before its comment is posted, a token spent before its session exists, and every handler
  dropped half-way by a failed call or a peer that hangs up.
- *Connections*: a session judged by a row read earlier and a clock read later; a revocation
  anywhere between admission and registration; a poll of the store that starts afresh with every
  message; rows to be closed when the process may stop.
- *Statements*: three or more upstream commands per statement, each of which may fail, time out
  (and still run upstream) or be dropped with the handler; CommandComplete sent before the limit is
  judged; the audit after the effect; several sinks; a client with transactions of its own.
- *MySQL*: START TRANSACTION commits what the client has open, a mutation that returns rows leaves
  on a path without a limit or a COMMIT, and after a call is given up the connection is used on.
- *Console*: the user changes page and filters while requests are out, answers overtake each
  other, are retried, paused and cached for a while, and the lists move between two requests.
- *Extended protocol*: a client that sends several messages before it reads one answer; text and
  description of a name changing under portals that were bound to it.

**What makes each component correct** is in section 4, property by property.

## 2. Plan

Built in this order, most important behaviour first; each module with its MC module, runs and
proofs before the next one.

| # | Module | Abstract specification, composition | State |
| --- | --- | --- | --- |
| 1 | `AccessTokens` | implements `OneTimeToken` | done: 3 runs, proofs |
| 2 | `SessionLifecycle` | its sessions are the ones `AccessTokens` creates | done: 2 runs, proofs |
| 3 | `StatementPipeline` | implements `RowLimitedMutation`; composes the Postgres handler with a model of the upstream session | done: 3 runs, proofs |
| 4 | `ExtendedQuery` | its Execute is one statement of 3 | done: 2 runs, proofs |
| 5 | `Console`, `BeforeRowsCsv` | composes the pages, the query cache, the proxy and the broker's lists; their prunings are the store's | done: 1 run, proofs |
| 6 | `MySqlPipeline` | implements `RowLimitedMutation`; composes the MySQL handler with a model of the upstream session and of other sessions | done: 1 run, proofs |
| 7 | `RowLimitedMutation` | what a limited mutation promises whichever database is behind it; 3 and 6 implement it | done: checked in the `pipeline` run, proved of both |
| 8 | SQL policy | scan, classify and decide as operators over token sequences, against a reference reading; folds, not RECURSIVE | open |
| 9 | Rollback capture | parse shapes, before-image and inverse over small tables: an artifact that is not manual restores the rows | open |
| 10 | Schema migration, audit files, bootstrap of users | smaller modules with the hazards listed for them | open |

## 3. Modules and how they correspond to the code

PROJECT.json maps each definition to its lines; this is the reading order.

**`AccessTokens`** (with **`OneTimeToken`**). One action per GitHub call or store statement of
`github_webhook` / `mint_issue_access_token` (`Receive`, `EvaluateSignal`, `FindActive`,
`InsertToken`, `PostComment`, `CloseIssue`) and of `create_session` (`SelectToken`, `MarkUsed`,
`CreateSession`, `Respond`), because control returns to the runtime exactly there. `Abandon` and
`AbandonRequest` stop a handler at any of these points. A delivery mints at most one token, so a
token is named by its delivery. Variables `row`, `session`, `posted`, `issue` are the two tables, the
comments and GitHub; `dpc`, `dsig`, `dat`, `rpc`, `rtok`, `rat` are the handlers' locals; `since`,
`held` and `winner` are history. `OneTimeToken` says what the broker promises: issued once, taken by
one request, and only that request opens a session for it.

**`SessionLifecycle`**. `verify_active` is two actions, the read of the row (`ReadSession`) and the
judgement by a clock read later (`Admit`); then `ConnectUpstream`, and `create_active_connection`, which is
two parties' work: `InsertRow` is the store's commit, `Register` the handler's hearing of it. `RegisterFails` is the
error that connection.rs:92 returns, with or without a row: the insert is an INSERT and then a SELECT on SQLite (sea-orm
is built without RETURNING for it), and an answer that may be lost on Postgres. The handler has then returned before the
close; what it sent may even commit later (`unheard`), as may the UPDATE of a failed close (`CloseLands`). Then the loop, in
which a message starts or finishes (`StartQuery`, `StartDescribe`, `SmallMessage`, `Finish`) beside a
wait that each of them restarts (`StartWait`, `SessionEnds`). `wait_for_session_end` issues its first
poll at once, so a wait that has started may end the session whenever the store would say so.
`Stop` is the end of the process, by a crash or by ctrl-c, which drops the handlers and not what they sent.

**`StatementPipeline`**. The handler is a program counter `pc` with one value per `await` of
`handle_query_with_row_description`; `Receive` is the policy's verdict and the first send; `ExecDone`,
`ExecFails`, `LimitSettled`, `TimeOut` are the arms of the match and the commands inside them;
`WriteAudit` / `AuditFails` are one sink each. `SessionEnds` drops the handler anywhere. The upstream is
external, modelled from how `tokio_postgres` is used: a queue of commands run in order, with `reply`
the answer to the last one sent; a command the proxy gave up on stays in the queue. What a statement
*is* (`kind`) is chosen when it arrives, including the client's own BEGIN, COMMIT and ROLLBACK, and a
data-changing statement the row limit does not recognise. A blank text is not one of these: it is answered at
once, before the policy is asked, and not audited (query.rs:106-109). The before-image and the primary-key
query are one command. The simple and the extended path share this code.

**`RowLimitedMutation`** is the abstract specification both pipelines implement: a limited mutation runs in a
transaction, is committed only when it is within the limit and nothing else was said of it, and what is said of it is said
once and is what became of it. A statement may be let go before anything is said of it; Postgres never does, MySQL does when
the answer heard may be another call's, and does not hold statements that return rows to the promise at all. `Stage`,
`Effect` and `Word` in each pipeline are the refinement mapping; `Promise` is the instance.

**`ExtendedQuery`**. `ExtendedQueryState` (four maps) and one action per message, since the loop
handles one message at a time. The client is modelled by what it asked for and what it was shown
(`asked`, `shown`, `shownFor`), because the marks in `described_portals` are a claim about that.
`Pipelines` says whether it sends on before it has read the answers; if not, it sends nothing but Sync
after an error and does not execute a portal whose Bind it knows to have failed.

**`Console`** (with **`BeforeRowsCsv`**). `ui` is the state of the selected page: a Tabs panel keeps nothing
while another one is selected, so `OpenTab` starts from `Entered`. A page is a record of the list it
reads, its size and whether it has a Refresh button; `PageRequest` is the query string it sends and
`PageKey` the key its answer is cached under, which are two definitions in the code too and must
agree. The controls are one action each (`EditDraft`, `apply`, `PrevPage`, `NextPage`, `ToggleRevert`,
`Refresh`). The query cache is TanStack Query, external, modelled from the options in main.tsx and the
calls of the pages: an entry per key, `Start` when a key is mounted new or stale, `Serve` where the broker answers
from its lists, `Deliver` or `Fail` where the browser hears of it, at any time and in any order, `Retry`,
`GoOffline` and `GoOnline`, `GoStale` and `Evict`. `Becomes` mounts and unmounts what the new screen watches, in
the same step. The lists are sets of numbers, newest first; `AddRow`, `DropRow`, `MoveRow`, `PruneAudits` and
`PruneArtifacts` are what the rest of the system does to them. `asked`, `all`, `asOf` and `wanted` are history.
`BeforeRowsCsv` writes the file of the download button from any texts, which are sequences of characters of which
three matter to a CSV file. What it is held to is written apart from it: a reader after RFC 4180, and `HoldRows`, which says what
lines hold some rows without saying how to write them. `Before` in `Console` is what each artifact captured: no rows, and
then there is no button (Audits.tsx:77), or rows that have a column.

**`MySqlPipeline`**. As `StatementPipeline`, with the differences of the MySQL proxy: `ExecDone` and `RowsDone` are
the two arms of the result, `Tell` comes before `Audit` and `Refuse` after it, `Commits` is also what START TRANSACTION
does. The driver and the server are external. What a connection gives back after a call was dropped at its
timeout is not promised by anything in `src/`, so `LateAnswer` lets every later call hear any answer, and
`doubtful` remembers who heard one; commands already sent still run in their order. Other sessions write
the row that a captured statement changes (`OtherWrites`), except while an open change of ours locks it, and `view` is
what reads of an open transaction see. `FailClosed` off is the larger of the two behaviours (a sink that fails with
`fail_closed` on ends the connection, as `SessionEnds` may at the same places), and the one that is run.

Definitions named `Faulty...` are not part of any specification. Each is the definition after it with
one plausible mistake, kept to show that the properties notice it.

## 4. What the runs check

State counts are distinct states, complete except for the runs that exist to show a violation.

| Run | Bounds | What it shows |
| --- | --- | --- |
| `tokens` (445 006) | 2 deliveries, 2 requests, 1 issue, both signals, clock 0..3, lifetime 1 | `AtMostOneSession`, `SpentBeforeExpiry`, `SecondTokenOnlyByRace`, `PublishedIsStored`, `AnswerIsTruthful`, `SpentWithoutSession`, `EachSignalHeld`, and that the handlers implement `OneTimeToken` |
| `tokens_live` (111 780) | 2 deliveries about either of 2 issues, labels only, fair handlers | `ApprovedIsPublished`: a delivery whose signals pass ends with a published token unless a handler stopped half-way |
| `tokens_lost` (violation) | 2 deliveries, no signals | `ActiveTokenIsPublished` fails |
| `lifecycle` (145 210) | 2 connections, 2 targets, 1 session, clock 0..3, lifetime 2, fair handlers | `EndedCannotConnect`, `LiveIsListed`, `OnlyLostStaysListed`, `EndIsFinal`, `QuietConnectionEnds` |
| `lifecycle_busy` (violation) | 1 connection, 1 target | `RevokedConnectionCloses` fails |
| `pipeline` (616 772) | 3 statements of any kind, limit 1, rows 1 or 2, 2 sinks, `fail_closed`, capture | `AnsweredIsAudited`, `OverLimitNeverDurable`, `ArtifactBeforeEffect`, `AuditTellsTheOutcome`, `ClientIsToldTheOutcome`, and that the handler and its upstream implement `RowLimitedMutation` (`KeepsItsPromise`) |
| `pipeline_settles` (2 878) | 1 statement, `fail_closed` off, fair handler, an upstream that need not answer | `EveryStatementSettles` |
| `pipeline_audited` (violation) | 1 statement | `EffectIsAudited` fails |
| `extended` (218 376) | 2 names, 2 portals, 4 texts, client that reads answers | `RunsWhatWasBound`, `RowsDescribedOnce` |
| `extended_pipelined` (violation) | 2 names, 1 portal, client that pipelines | `UnsupportedFailsClosed` fails |
| `console` (144 341) | the sessions page and one of the other four; 4 stored events and one to come, 2 filters, 2 events per page, 2 pages, 3 clicks, 1 change of the lists, 1 loss or timeout; fair answers | `RowsAnswerTheControls`, `RevertIsOfItsStatement`, `NothingFallsBetweenPages`, `LastPageIsLast`, `RefreshIsFresh`, `EmptyMeansAnswered`, `DownloadHoldsTheRows`, `LoadingEnds` |
| `mysql` (3 010 006) | 2 statements of any kind, limit 1, rows 1 or 2, capture, `fail_closed` off, 1 write of another session | `OverLimitNeverDurable`, `VerdictIsTrue`, `ImageIsOfTheStatement` |

**Why the bounds are enough to be interesting.** Two deliveries and two requests are what a race
takes, and a third repeats a pair; a lifetime of 1 in a clock to 3 puts expiry and pruning inside
every handler; three statements let the client open a transaction, run a limited mutation in it
and commit; one row count at the limit and one above it are all the limit distinguishes; two sinks
are the fewest that can disagree; two names and portals are the fewest that can be mixed up. In the console three clicks are what it takes to
leave a page and come back to it while its request is out, or to turn a page and return; five
events on pages of two give a full page, a page that is not and one that moves; the two filters
select overlapping sets; one loss and one retry are all a request is allowed. Two MySQL statements let the second
one run in what the first left open or answer to what the first was not told. Deadlock
is not checked, since every model may come to an end: handlers return, the clock is bounded, statements
run out. Symmetry is used for safety only, over identities that no definition distinguishes.
The theorems (section 6) hold for all sizes.

The one property of `mysql` that is proved and not run is its `KeepsItsPromise`: a complete run with it takes TLC
several times as long as one without. `EarlierSinkFirst` of the Postgres pipeline is proved only, too. The
rows of `console` are few because the theorem about their file is for all rows; the run is there to compare the
definitions with a reader step by step.

**Fairness.** Liveness assumes that the tokio runtime keeps polling a handler whose next step is
enabled (`WF` on the steps of a handler, and on the wait beside it). It assumes nothing of clients,
GitHub, the upstream, the clock, or pruning. In `StatementPipeline` the timers of `timeout(IO_TIMEOUT, ..)`
count as steps of the handler: that is why a silent upstream cannot hold a statement. In `Console` requests that are out are answered or fail and the timer of a retry fires; the code sets no
timeout on `fetch` or in the proxy, so this rests on the browser, the proxy's client and the broker ending every request
some way. It is one weak fairness for all of them, and nothing is assumed of the user, the network's return or the lists. A call that never returns and has
no timeout (a GitHub request, a sink, a write to a client that does not read) is outside this
assumption.

## 5. Findings

- `tokens_lost`: the token's row is stored before its comment is posted and the raw token is only in the
  handler; if the comment fails, later deliveries find an active token nobody knows and do nothing
  until it expires, although "Approved issue gets a one-time token" (docs/implementation-plan.md:119).
- `lifecycle_busy`: the wait for the session's end is created anew for each message and query, so a
  client that sends often enough keeps its connection after a revocation, against "Existing
  connection closes after revoke" (docs/implementation-plan.md:98). A client that pauses is closed: `QuietConnectionEnds`.
- `pipeline_audited`: the audit is the last step, so a handler that ends between the effect and the audit
  leaves a committed change without an event, against "Every allowed and blocked SQL statement creates an
  audit event" (docs/implementation-plan.md:143). What *is* written is true: `AuditTellsTheOutcome`.
- `extended_pipelined`: after a Bind it refuses, the proxy does not skip to Sync, and the portal keeps its
  earlier text: a client that sent Bind and Execute together gets the error and the earlier statement run
  again, against "Unsupported protocol features fail closed with clear errors" (docs/implementation-plan.md:239).

## 6. What is proved

Each proof module proves its theorems for every value of the constants, from the ASSUMEs of the
module it extends (finite bounds are not among them; the clock bound and the time to live are any
naturals).

- **`AccessTokensProofs`**. The invariant `IInv` adds to the types that a delivery before its insert has
  no row, that `used_at` and the winner are set together, that a winner is past its UPDATE and that a
  session belongs to the winner of its token; one session per token follows. A second strengthening
  relates expiry to the clock the request read, and a third the signals found so far to those that held.
  The refinement of `OneTimeToken` is proved step by step: each action maps to one abstract action or to none.
- **`SessionLifecycleProofs`**. A handler that was given a token names a session; the row it read is never
  kinder than the store was when the token was presented, because an end is final; the row of a
  connection follows its program counter, and only a handler that is gone has left a write behind in the store
  (`LeftIsGone`; else the store could write the row of one that serves). From these, every invariant of the `lifecycle` run.
- **`StatementPipelineProofs`**. The invariant has eight parts: types; `Flow` (what the program
  counter says of the statement in hand, and that nothing of a statement not yet sent is upstream);
  `Audited` (the sinks before the one to be written hold the event); `Prepared` (what is upstream has its artifact); `Lane` (the
  handler waits for the last command of the queue); `LimitedInQueue` (a limited mutation waiting to run is at
  the head, in a transaction, with only its ROLLBACK behind it); `LimitedPending` (once it has run and until it is settled, what runs
  next is its ROLLBACK or the COMMIT the handler sent after comparing the rows); `Settled` (the properties). The middle
  parts are what makes a timed-out statement harmless: it may still run, but never in front of a COMMIT. With them
  `KeepsRowLimitPromise` shows step by step that each action is one step of `RowLimitedMutation` or none.
- **`ConsoleProofs`**. Each cached entry is asked what its key stands for, its answer and its data are
  answers to that request taken from the lists at some earlier time, and only a watched entry is shown. With
  a lemma on ranks (of two sets listed newest first, what one listing ends with bounds where the other begins)
  this gives `NothingFallsBetweenPages` for every page size and every set of rows; freshness after a
  click follows from the clock of the changes never running back. `LastPageIsLast` counts: a listing that has
  fewer rows than its limit has no row behind it. `DownloadsHoldTheRows` joins two facts, that the revert under a statement is that
  statement's, and that its file reads back as its rows.
- **`BeforeRowsCsvProofs`**. `FileReadsBack`: the file of any before-rows, with any characters in any keys and values, reads
  back as those rows. All of it is induction over data. The library's induction theorems have an operator as a parameter, which the
  provers here cannot instantiate; so induction is stated for sets (`SetInduction`, `SequenceInduction`: a set that
  holds the empty sequence and with a sequence every longer one by an element holds them all), from the well-foundedness of
  the numbers, and each use names the set of what it shows. `Iteration` gives the functions that the recursive definitions choose;
  `FlattenAppend` and `ReadAppend` turn those definitions into one step; then a text inside quotes, a cell, a line and the whole
  file read back as what was written, each from the one before, and the first line names each key once.
- **`MySqlPipelineProofs`**. `Lane`: until a call is given up there is one command at most on the connection,
  the one the handler waits for. `Trust`: an answer heard without doubt is the answer to that command, and a limited
  mutation gets as far as its COMMIT only by such answers. `LimitedRuns` says of every limited mutation
  what may be in the queue with it (nothing in front, its ROLLBACK behind), what comes next once it has run (its
  ROLLBACK, nothing, or a COMMIT sent after the comparison), and what the client is told when it is committed.
  `Images`: the row is read no earlier than the statement could read it when it came and changed no earlier than
  it was read. The four properties follow; the invariant was first checked on the instance of the `mysql` run.
  `KeepsRowLimitPromise` is the refinement of `RowLimitedMutation` here: the abstract specification is the one that
  Postgres implements, with the same constants, and an answer in doubt is a statement it has let go.
- **`ExtendedQueryProofs`**. The marks of the proxy are exactly what the client was told, and a
  description that no longer fits is of a statement parsed again under its name. Both properties assume a client
  that reads its answers, the setting in which they are true.

**Only model-checked**: the liveness properties (`LoadingEnds`, `ApprovedIsPublished`, `QuietConnectionEnds`,
`EveryStatementSettles`) and the four violations, since liveness is outside what the installed provers can do. Every
other property of a passing run is a theorem.

## 7. What is not modelled, and why

- *Left open* (rows 8 to 10 of the plan): the text of policy decisions and of rollback artifacts, the schema
  migration, the audit file, users and roles. Three hazards there have no property and say so in PROJECT.json.
- *Abstracted*: cryptography (a token names its session; a signature is valid or the request never starts),
  SQL text (a statement is its kind), rows (a number), HTTP and JSON, message bytes.
- *Not modelled*: configuration loading (its values are the constants), wire parsing, the command line,
  the charts: no state of their own that outlives a call.
- *Console*: styling, wording, the signed-in user's name (one request without a retry), badges that compare a time with the
  clock, `usePaged` (not called). Losing the window's focus also pauses a retry, as losing the network does; only the latter is
  modelled. Rows with the same time are taken to be listed in one fixed order. The activity list is its own list, not
  the union of the three tables behind it. With the browser offline a first request waits and the page says the list is
  empty, although Query.tsx:5 promises "loading / error / empty states": `EmptyMeansAnswered` names this case. Null and the
  empty text are written alike in the CSV file.
- *Limits of the paging property*: it is about two pages read in order. Rows that leave the middle of a list (a connection that is
  closed), or a first page read again while the second is still fresh, do make rows fall between pages.
- *Limits of the list of connections*: it shows every live connection, and not only those. `OnlyLostStaysListed` says
  which others: an insert that the handler took for failed, a failed close and a stopped process leave an
  open row, for good unless the close lands late: `prune_active_connections` passes over open rows and no other code
  writes them.
- *Limits of some properties*: a request that arrived before its token's expiry may spend it after (`SpentBeforeExpiry`);
  rows of a statement that was parsed again under its name may come under the old description (`RowsDescribedOnce`).
- *MySQL*: autocommit is on; one statement per text (the policy refuses others); reading the rows of a result has no timeout
  of its own in the code (connection.rs:228), so no liveness is claimed; the audit sinks are written in one step.
- *Environment*: the upstream, GitHub and the clock are assumed to behave as described with each
  module: a Postgres session runs its commands in order and one at a time; an UPDATE with a WHERE clause is atomic in the
  store; clocks of broker and proxy agree.
