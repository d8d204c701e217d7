# Traceboard: TLA+ models and proofs

Traceboard is a local collector for the activity of coding agents. Agents call
short-lived hook processes; a hook maps what it gets to an event and posts it to
the collector, a Go process with an HTTP server and one SQLite database; the
collector serves a dashboard, which follows runs over a WebSocket. This directory
models that system in TLA+, checks the models with TLC on small instances and
proves the safety of most of its parts, and that the event store implements its
abstract specification, with TLAPS for instances of any size.

Contents: [inventory](#inventory), [modules](#modules), [runs](#runs),
[fairness](#fairness), [proofs](#proofs),
[where the code differs from what is said of it](#where-the-code-differs-from-what-is-said-of-it),
[what is not modelled](#what-is-not-modelled), [plan](#plan).

To check a run: `tlc -config MCHub_frames.cfg MCHub.tla`. To check the proofs:
`tlapm LiveProofs.tla`. `PROJECT.json` lists the runs, a defect of the code that
breaks each property, the source lines of every definition, the hazards and the
theorems.

## Inventory

| Component | Code | State it keeps | Operations | What makes it hard | What must hold |
|---|---|---|---|---|---|
| Event store | `internal/store/events.go`, `runs.go`, `store.go` | tables `events`, `runs`, `steps`, `quarantine` | `InsertEvents`, `DeleteRun`, `MarkRunIncomplete` | deferred transactions of several connections (a pool of four, and the command line), snapshots, refused upgrades, rollback of a whole batch, events in any order | summary rows agree with events; nothing committed is lost or doubled; calls return |
| Store reads: run index | `internal/store/runs.go`, `timeline.go`, `sources.go` | none | `ListRuns`, `ListEvents`, searches | several reads without a transaction; cursors beside rows that move | who follows the pages sees what was there all the time, once |
| Spool | `internal/ingest/spool.go` | one file per source | `Append`, `Drain`, `Expire` | several processes replace the same file; crashes; ceiling; age limit | nothing leaves a file but for a named reason |
| Delivery | `cmd/traceboard/hook.go`, `internal/ingest/service.go`, the drain in `start.go` | capture modes, in memory | map, post with a timeout, spool, `Ingest` | a timeout races the answer; either side dies; modes are read at different times | an event is not forgotten, and is stored once; the capture mode in force decides what of it is |
| Alerts | `internal/alerts/evaluator.go`, `internal/store/alerts.go`, trigger in `start.go` | table `alerts` | `Evaluate`, open, acknowledge, resolve | a pass reads, then writes, while events arrive; a trigger and a ticker run passes at once | one notification of an alert; a reported end stays; a run that silence ended is reported; conditions that clear close their alert |
| Live hub | `internal/live/hub.go`, `internal/server/stream.go` | stream ID, subscriber queues | `Publish`, `Subscribe`, cancel, the WebSocket handler | bounded queues drop frames; a lock with waiting writers; ID and subscription are separate | no send on a closed channel; a client can tell that it missed something; publishing returns |
| Dashboard page | `web/src/lib/realtime.ts`, `live.svelte.ts`, `pages/RunsPage.svelte` | cursor, gap notices, retry timer, timeline | open, load more, connect, recover | several fetches in flight, late answers, reconnects | a timeline that claims to be whole is whole; a gap is reported until it was read; the connection comes back |
| Configuration, schema, sign-in | `internal/config`, `internal/store/migrate.go`, `internal/auth`, `store/sources.go`, `cmd/traceboard/*.go` | `config.json`, `schema_migrations`, `sessions`, `sources` | `Ensure`, `Save`, `Migrate`, rotate, exchange, log out | commands are processes: two start at once, and each may be killed at any step | one set of secrets; migrations applied once, in order; a token signs in once; sessions end with a rotation |
| Retention | `internal/retention/retention.go`, `SelectRetentionCandidates` | none | `Preview`, `Apply` | runs receive events, go and come back between selection and deletion; the first error ends the call | a run that has not ended is exempt; the oldest go first |
| Mapping | `internal/otlp`, `internal/ingest/otlp.go`, `internal/hooks`, `internal/event` | none | adapters, normalizer, identity | items of one run come in several requests, in any order, cut and repeated; identity decides what is a repeat | a run ends when its agent says so; a model call that finished is not under way; a retry adds nothing |
| OpenCode plugin | `internal/configure/configure.go:322-443` | the batch being collected, the active session | `event`, `push`, `flush`, `post` | events come while a post is awaited | each event is in one batch |
| Agents' settings | `internal/configure` | other programs' files, backups, the plugin file | `Apply` | a command may be killed while it replaces a file that its user edits | the user's version is in the file or in a backup; keys that are not Traceboard's stay |
| Export | `internal/export`, `ListAllEvents` | files | `Collect`, `Run` | a document is read by separate statements, page by page, beside writers | its parts fit together |
| Redaction, notification, daemon, other pages | `redact`, `notify`, `daemon.go`, `web/src` | none | | pure transformation and I/O | |

How they interact. Hook processes and the collector share the spool directory and
`config.json`, and talk over HTTP. In the collector, the handlers call
`Service.Ingest`, which calls `Store.InsertEvents` and, for each run it touched,
the callback of `start.go`: it publishes the run on the hub and triggers an
evaluation, unless one it triggered is still running. The evaluator's ticker
starts passes of its own. A pass reads the store statement by statement, opens
and resolves alerts and marks runs incomplete. The dashboard reads the store
through HTTP and follows the hub through a WebSocket. The command line opens the
same directory, database included, from processes of its own.

The behaviours that are hard to test are the `hazards` of `PROJECT.json`, each at
its line with the properties that watch it.

## Modules

| Module | Models | Composes |
|---|---|---|
| `RunLog` | what the store promises: a log of distinct events per run, whole batches | |
| `EventStore` | the tables and the transactions of several connections | implements `RunLog` |
| `Spool` | the files and the processes that replace them | |
| `Delivery` | from a hook's payload to the store or the spool | uses `RunLog` as its store, and the outcome of `Spool`'s race |
| `Alerts` | runs, alerts and the passes over them | |
| `Hub` | publishers, the hub's lock, subscriber queues, WebSocket handlers | |
| `Timeline` | the order of the rows of every range read: by time, by the source's number, by ingest sequence | |
| `Dashboard` | one run on the page: range reads, refetches, the socket | the store's range reads, `Timeline` |
| `Administration` | commands that share configuration, schema and sessions | |
| `Mapping` | the events that spans, records, metrics and payloads become: operators without state | |
| `Telemetry` | agents that post requests again and again, the clock, the ingest service | uses `Mapping`, and the tables of `EventStore` with one batch a step |
| `Plugin` | OpenCode's plugin and its batches | |
| `RunTable` | the table of runs as other callers of the store find it: insertions and deletions at any moment | uses the operators of `EventStore` on one database |
| `Retention`, `RunIndex`, `Export` | a call of `retention.Apply`; a client that reads the index page by page; a call of `export.Run` with its file | extend `RunTable`; `Export` uses `Timeline` |
| `Settings` | `configure` and the user on one agent's settings file | |
| `EventStoreProofs`, `SpoolProofs`, `DeliveryProofs`, `AlertsProofs`, `AdministrationProofs` | theorems | extend their module |
| `LiveProofs` | theorems about both ends of the live socket, `Hub` and `Dashboard` | extends the two |
| `AgentsProofs` | theorems about `Telemetry` and `Plugin` | extends the two |
| `CommandsProofs` | theorems about `Settings`, `Retention`, `RunIndex` and `Export` | extends the four |
| `MC...` | instances for TLC | extend their module |

The composition follows one line: `EventStore` is shown to implement `RunLog`, so
`Delivery` can have a store whose batches are atomic; `Spool` shows which entries
other processes overwrite, so `Delivery` can have one step for an append;
`Telemetry` and `RunTable` take whole batches as steps for the same reason, with
the very operators (`InsertEvent`, `RemoveRun`) of `EventStore`. Three MC modules put
modules side by side that share nothing but a table or nothing at all, so that a
behaviour has one of them: `MCTelemetry` has exporters, hooks and the OpenCode plugin;
`MCCommands` has `configure`, `retention apply`, `export`, a reader of the index and the
spool; `MCAdministration` has the commands that share the directory, and the hooks and
collectors of `Delivery`. The definitions that begin a comment with "Defect:" are faults that a property must
find; nothing uses them.

### EventStore and RunLog

State: `db`, the committed tables `events`, `runs`, `steps` and the number of
quarantined events; `tx[c]`, what connection `c` is executing; `writer`, who has
SQLite's write lock. A transaction of `InsertEvents` is a sequence of steps, one
for each point where others can come in between: `BeginInsert`, then for every
event `CheckDuplicate` (the SELECT, which takes the snapshot), `WriteEvent`
(`insertEvent` with `ensureRun`, `updateRun`, `updateStep` and sequence
allocation), `RejectEvent` (the unique `event_id` fails, the deferred Rollback
undoes all) or `WriteQuarantine`, and `Commit`. The store opens transactions
without `immediate`, so a transaction starts as a reader; `CanWrite` is SQLite's
rule that it may become the writer only if nobody committed since its snapshot,
and `Busy` is SQLITE_BUSY. `DeleteBegin`, `DeleteWrite` and `Commit` are
`DeleteRun`; `MarkRunIncomplete` is the evaluator's single UPDATE; `OtherCommit`
is a commit to tables outside the model; `Abort` is a cancelled request or the
death of the process. Event contents, search text and projects are left out.

`RunLog` has one variable, `log`. `ImplementsRunLog` maps it to the stored events
of each run by their ingest sequence: every step of the store is one append of a
whole batch, one deletion or a stutter.

### Spool

State: `file[s]`, the entries of each source with their time; `proc[q]`, the call
a process is in, with what it has read and what it will write; and histories of
what left a file and why (`fate`). `Append`, `Drain` and `Expire` read a file
(`ReadForAppend`, `ReadForDrain`, `ReadForExpire`), drain consumes entry by entry
(`Consume`), and `Rewrite` renames the new file over the old one or removes it.
`Spool.mu` is of one process, so a process does one call at a time and nothing
orders two processes. `ReadFails` is a line longer than the reader's limit,
`Crash` the death of a process at any step.

### Delivery

State: the payload each hook process was `given`, the capture mode in the
configuration `file`, the `hook` processes, the collector's side of their
`request`s, the `spool`, the `server`, the store's `log` (a `RunLog`) and
histories. A hook reads the mode, posts, waits, and spools unless it hears of a
success; `TimesOut` may come after the collector has stored the event. The
collector reads the modes, drains the spool entry by entry through the same
`Ingest`, replaces the spool, listens and serves; it may die at any step.
`Outcomes` is what `Service.Ingest` may answer, `IdentityOf` what `deriveID` makes of a
payload, and `PrepareEvent` where the body of a payload is stored: as `content` if hook
and collector are in detailed mode, as the `raw` payload if the collector is, and among
the `attributes` in any mode that stores at all.

### Alerts

State: the rows of `run` and `alert`, the two passes, the clock, and ingests that
have committed but not yet called back. A pass is `List` (one page per status),
and for each run `Mark`, `Insert`, `Read` (the INSERT and the SELECT of
`OpenAlert`, with the notification) and `Resolve`, each a statement of its own.
`Deliver` is the commit of an event that happened some ticks ago: a start, any of the
four ends (`run.incomplete` is what hooks make of an idle session) or another one.
`Accepted` is the callback that triggers a pass,
`Fire` the ticker, `DeleteRun` and `AcknowledgeAlert` a user, `Fail` a statement
that fails and ends its pass.

### Hub

State: `streamID`, `subscribers`, the publishers and the connections. `Number` is
the atomic increment before the lock; `RLock`, `Offer` and `RUnlock` are
`Publish`; `Connect`, `Subscribe`, `Hello`, `Deliver`, `WriteTimesOut`,
`PingFails`, `Cancel` and `Close` are the handler; `SocketCloses` is the client.
The lock is Go's `RWMutex`: a reader that comes while a writer waits is
`"waiting"`, and an unlocking writer lets such readers in (`Admitted`). The
subscriber's channel is closed after the lock is released, and what the client has
seen (`hello`, `last`, `got`, `jumped`) and what a full queue cost it (`lost`)
are its variables. A client that is gone is forgotten (`Gone`): only frames due to
a client that is there (`Due`) matter.

### Dashboard

State: the run's `log` as the store has it, the page's unanswered `requests`, the
`page`, the tracker's `cursor`, gap `notices`, and `link`, the socket with its
timer. An event is its time and its source's number or none, which decide its place in
the timeline (`Before`). `ReadHead` and `ReadRows` are the two statements of `ListEvents`, between
which events are committed; `NextSequence` is the cursor it answers with.
`Opened`, `MoreLoaded`, `Recovered` and `IndexReloaded` apply an answer as
`RunsPage.svelte` does after its `await`, and `SetNotices` is the effect over the
notices, which calls `recover` for every notice each time they change.

### Administration

State: `config` (the file), the schema (`tables`, `applied`, the migration's
`writer`), the source's `mode`, the `sessions` table with sign-in tokens and
sessions (`rows`), and the processes. A process runs one command, whose steps are
in the order of the code: `Stat`, `Load`, `Link` (`config.Ensure`), `Save`;
`Read`, `Skip`, `Execute`, `Record`, `Migrated` (`Migrate`, one transaction a
file); `RecordMode`; `Wipe`, `Issue` (`RotateDashboard`); `EnsureSource`;
`Listen`. `Kill` may end a process between any two, which is also what an error
does. A request is `Exchange`, `CreateSession`, the two statements `Select` and
`Update` of `ConsumeSession`, and `Undo`; `Logout` ends its session and `Expire`
lets a row pass its time. A process generates secrets once while there is no file, so
its name stands for its secrets.

### Mapping and Telemetry

A span, a log record, a metric and a payload are records of what the mapping tells
apart: which identifiers are there, root or child, times or none, the error
attribute and the status code. `SpanEvents` is `traceSpanEvents` with its order
(start of the run, request, answer, end), `TerminalType` is `terminalEventFor` with
the end of a finished root span, `SortByTime` the stable sort, `Canonical` the aliases of
the five adapters and `Rule` all canonical lifecycle rules, with the types the store
knows (`KnownTypes`). `Telemetry` has the tables `db` of `EventStore`,
the clock `now` (for what has no time) and the history `taken`. `Post` is one
request: mapped, cut at `MaxEvents`, left out if its source is off, identified by
`KeyOf` and inserted but for what is stored. Posting again is posting: an agent
that hears nothing does the same with or without the first one's effect. `Insert` looks
at a batch event by event (`InsertOne`).

`Reports` is what agents mean, written from the protocol and not from the mapping:
a root span that failed or has an end, which names two times, its start and its end; or a
payload that ends a session in the words of its source, with one time.

### Plugin

State: `active`, the `batcher` with its timer, the `posts` under way, what the
collector has `stored`. `Emit` is the handler of an event, which pushes it;
`Flush` is the timer, up to the await; a post `Arrives` or `IsLost`, since an error
is dropped; `Restart` is a new OpenCode process.

### RunTable, Retention, RunIndex, Export

`RunTable` has `db` and two steps, `Ingest` and `Delete`. `Retention` has one
`job`: the rows of the query (`ApplyBegin`), each read again (`ReadCandidate`),
then deleted in their order (`DeleteCandidate`) until one fails (`DeleteFails`).
`RunIndex` has one client's `list`: the cursor and what it was shown; `ListPage`
is one request. `Export` has one call `export` and the `disk`: `ReadRun`,
`ReadSteps`, `ReadHead` and `ReadEvents` are the statements of `Collect`, the last
two for each page; `ExportStat`, `Open` and `Write` are what becomes of the file.
What others do meanwhile is noted in histories (`gone`, `stable`, `disturbed`).

### Settings

State: the `settings` file, `backups` by the second in their name, the `plugin`
file, the clock and the command's `edit`. Each step is one file operation, a write
being two: the file is truncated (`Empty`), then it is whole. The user saves a
version at any time, and `ConfigureDies` at any step. `MergeMaps` is the merge on
objects of two levels, which is as deep as an addition goes.

## Runs

Every passing run explores its whole state space; the sizes are of TLC's distinct
states. Each property has a defect in `PROJECT.json` that breaks it. The modules
that state a `TypeOK` keep it for readers and proofs; the configurations leave it
out, and pass with it.

| Run | Bounds | States | What it shows |
|---|---|---|---|
| `store_runs` | 2 connections, 2 runs, 1 step, 3 batches of seven events in all, 1 evaluator time | 133 thousand | `SummaryIsExact`, `RunTimesAreExact`, `StepTimesAreExact`, `RunEndHasCause`: rows agree with events in every order of arrival; `EventsAreDistinct`; `EndMovesEarlier`; `DeleteReportIsExact`; `ImplementsRunLog`: transactions amount to whole batches one after the other; `CallsReturn`: SQLite refuses instead of letting two readers wait for each other |
| `spool_race` | 1 hook and the collector, 1 source, 2 payloads | violation | an entry appended while the collector drains is overwritten |
| `delivery_bodies` | 1 hook, 1 payload with a body, 3 modes | violation | in metadata mode the body of a payload is stored, among the attributes |
| `alerts_runs` | 1 run that may be deleted, which starts, fails and is said to be idle a tick ago; 2 passes, 1 failing statement, clock 0..1 | 703 thousand | `NotifiedOnce`, `ReportedEndStays`, `MarkedRunsAreReported`; `FailedRunsAreReported`, `StalledAlertsClear` |
| `alerts_recovered` | 1 run, clock 0..2 | violation | a run that received an event after the pass listed it is marked incomplete |
| `hub_frames` | 2 publishers, 2 connections, queues of 1, 3 frames | 271 thousand | `NoSendOnClosedChannel`, `EveryFrameHasAFate`, `HolesShow`; `GoroutinesProceed`: publishing returns and handlers of clients that are gone leave |
| `dashboard_page` | pages of 1, 3 events of one time, with a source's number or none, 2 requests under way when the user acts, 1 lost connection | 748 thousand | `WholePageIsWhole`, `ConnectionComesBack` |
| `dashboard_paging` | pages of 1, 2 events of two times | violation | a page read by cursors skips an event that happened later but arrived earlier |
| `dashboard_notices` | pages of 1, 1 event, 1 lost connection | violation | a gap goes from the notices although its refetch failed |
| `processes` | 3 commands by 2 processes, 2 exchanges, 2 migrations; or 2 hooks, 2 payloads, one with a time and a body and one of an unsupported version, 3 modes | 2.36 million | `OneSetOfSecrets`, `SchemaIsWhole`, `SessionsFollowTokens`; `NothingVanishes`, `StoredOnce`, `CaptureModeIsRespected` on both paths |
| `agents` | 9 requests of up to 5 events, limit 4, clock 1..2; or 5 hook payloads of 3 adapters in any order; or 3 events of 2 sessions and of none through the plugin | 29 thousand | `RunsEndWithTheirAgents`, `ModelCallsFinish`, `RetriesAddNothing`; `BatchesAreDisjoint` |
| `commands` | 5 events of 3 runs, two of one time that their source numbers; pages of 1; 2 policies; 2 runs exported to one file; 2 integrations, 2 versions, 2 seconds; or 1 hook and the collector, 2 sources, 4 payloads of lengths 1 and 2, ceiling 2, longest readable line 1 | 1.36 million | `UsersVersionIsKept`, `ForeignKeysSurvive`; `ApplyIsOrdered`, `ExemptRunsStay`; `StableRunsAreListedOnce`; `DocumentsHoldTogether`; `EveryPayloadIsAccountedFor`: five ways out of a file and no other; `CeilingHolds`: no file exceeds the ceiling, which takes the oldest first and no more than it must; `SweepTakesExactlyTheAged` |

Why the bounds are enough to meet the interesting cases:

- Store: the events are chosen so that, in some order, one batch repeats a source
  event of another under a new `event_id`, two events share an `event_id`, a run
  ends twice at different times, a start comes after the end, and a bad event
  precedes good ones; the second connection is what makes a snapshot stale. The
  proofs cover any number of connections, runs and batches.
- Spool: two calls of two processes are what a file can be lost by; one payload is
  as long as the ceiling and longer than a readable line, one call carries two
  events, and with the age limit 0 and one tick an entry is either side of it.
- Delivery: two hooks can share a payload or not, and each can be posted, spooled
  and drained; the store takes one payload and quarantines the other, and every mode is
  configured at every moment. A payload whose `event_id` is taken (`conflicting`) fails
  whenever it is inserted, as any payload may; the proofs include it.
- Alerts: both passes may be at any statement, and a run may go and come back
  between two of them. An end may come before, after or between the marks, and be dated
  before or after them. A longer clock adds states without new orders, since silence is one
  tick; the proofs cover any runs and any clock.
- Hub: with queues of one frame, three frames fill a queue, lose one and show the
  loss; one publisher may number a frame while the other sends. The proofs cover
  any number.
- Dashboard: with pages of one event, three events need three reads, so that a
  refetch and a "load more" overlap in the middle. Events of one time, numbered or not,
  arrive in the order of the timeline or against it; order by distinct times is the
  subject of `dashboard_paging`. The proofs cover any times and numbers.
- Telemetry: the requests hold a child that fails below a root that succeeds, in
  requests of their own; two turns of one conversation that end differently; two
  services, one without a name, in one request; items without times; five events
  where four are allowed, cut between the two of a model call; a source that is off. The
  payloads are a model call's request and answer, which arrive in either order, an end
  with a time and one without, and a payload without a session.
- Commands: two runs of three have one sort time, so that a page ends between them;
  pages of one make a reader and an export come back in between; one run belongs to
  no project, one never ends and one comes back after its deletion; two events of
  one time arrive in the order of their source's numbers or against it; two runs have one
  file name. Two seconds are two backups, or two commands in one.
- Administration: two processes are what a race takes, and the third command
  finds what they left; one exchange may use a token while another does.

Deadlock is checked but in the runs of `Spool`, `Delivery`, `MCAdministration`,
`MCTelemetry` and `MCCommands`, where the system runs out of payloads, commands, events or seconds:
the bounds and not the code stop it. The other bounds (`MaxQuarantine`,
`MaxHandlers`, `MaxFailures`, `MaxEvents` of `Dashboard`, `MaxRequests`, `MaxLosses`,
`MaxFrames`, `MaxEmitted`, `MaxTime`, `Seconds`) are guards of the actions that
count, and named in their modules.

## Fairness

Safety is checked under `Spec` (or the module's own name for it, such as `PageSpec`),
liveness under `FairSpec` or `PageFairSpec`:

- `EventStore`: a goroutine inside a call goes on with its next statement
  (`WF` of `Step(c)`). Nothing is assumed of aborts or new calls.
- `Alerts`: the goroutine of `Evaluator.Run` goes on (`WF` of `Fire` or
  `Step("ticker")`): its ticker fires again and again, and the pass it began takes
  its next statement. Each `Fire` is one step: `time.Ticker` drops ticks during a
  pass but goes on ticking. Nothing is asked of triggered passes and of callbacks.
  `MaxFailures` statements fail: if every pass failed, no condition would ever be
  looked at.
- `Hub`: `WF` of a publisher's steps. `SF` of taking the write lock: other
  publishers may take the read lock again and again, but Go's `RWMutex` lets no new
  reader in while a writer waits, and `Mutex` hands itself to a waiter that
  starves. `WF` of the greeting, the failing ping and the closing, because the
  ticker of `stream.go` ticks. Nothing is assumed of clients.
- `Dashboard`: the timer fires, and a socket that is being opened opens unless it
  closes again (`WF` of `TimerFires` and of `ConnectionOpens`). Nothing is assumed of
  calls and their answers.
- The other modules have no liveness properties: their calls are finite sequences
  of steps with no waiting but for SQLite's lock, which `CallsReturn` is about, and
  for a timeout.

## Proofs

TLAPS checks the proofs from the assumptions on the constants named in the
modules (`EventStoreAssumption`, `SpoolAssumption`, `DeliveryAssumption`,
`AlertsAssumption`, `BufferAssumption`, `MaxFramesAssumption`, `DashboardAssumption`, `FilesAssumption`,
`CommandsAssumption`, `NoneAssumption`, `PluginAssumption`, `RunTableAssumption`,
`IndexAssumption`, `SettingsAssumption`, `ExportAssumption`, `TelemetryAssumption`).
They say that sizes, times, runs and source names are natural numbers (the last two for
their order), that `None`, `Null` and `Nil` are no values of their kind and `process` no
session, that the payloads with a time and those with a body are among the payloads, that
a hook payload is of a source that has an adapter, that batches are sequences of events, that no event has the status by which
the models mark a missing row, that the runs of `Alerts` are finitely many, as its
queries count them, that a request is made of slices of items whose times are numbers
(`WellFormed`), that an exported run has a file, and that what Traceboard merges into an object is an object. Nothing else is
assumed, but for one theorem, `ModelCallsStayFinished`, which states its hypothesis
(`CallsAreTheirOwn`).

`EventStoreProofs`, for any connections, runs, steps and batches:

- `TypeCorrect`: `TypeOK`, with the finiteness of the tables (`Finite`), which the
  counting lemmas need.
- `SummaryCorrect`: `SummaryIsExact` is not inductive, because a commit replaces
  the database by a view. `ExactInv` says it of every open transaction's view too,
  and that an absent row counts nothing, so that `ensureRun` starts from zero.
  `StepChanges` reduces each step to one operation on one database, and
  `InsertEventExact`, `RemoveRunExact` and `SameExact` are the operations.
- `DistinctCorrect`: `EventsAreDistinct` needs that between the duplicate check and
  the insertion nothing but the transaction changes its view (`Checked`).
- `PersistCorrect`, `DeleteReportCorrect`: what SQLite's rule gives (`Isolation`).
  The connection that holds the lock has a fresh snapshot, and a fresh snapshot
  is the database; so the writer's view extends the database, or is the database
  without the run that is deleted, and no commit of another is undone.
- `EndCorrect`, `EndMovesCorrect`: `EndInv`, again of all views. An end that is the
  first or the earliest sets both columns; a start names the status only of a run
  without an end; `MarkRunIncomplete` finds a started run, which has no end.
- `TimesCorrect`, `StepTimesCorrect`: `TimesInv` and `StepsInv`, over lemmas that
  `Earlier` and `Later` keep the least and the greatest of a set of times.
- `StoreImplementsRunLog`: the refinement. `RunLog` appends whole batches in one
  step; the store writes event by event into a view and commits. `GrowthInv` says what
  a transaction that may still commit has come to: its view is the database with the
  first `pos - 1` events of its batch, each once, in their order (`Grown`). It rests on
  `Sound` views, whose ingest sequences are 1 to the number of events, so that the
  mapped log of a run is the rows in that order. A commit is then one `Append` or
  `Delete` of `RunLog`; every other step is a stutter.

`SpoolProofs`, for any processes, sources, payloads, line lengths and limits:
`SpoolInv` is `TypeOK`, `Calls` (what each process has in mind: `CallInv`), `Stamped`
(an entry somewhere was given to `Append`, and two entries of one payload have one
time), `FileWithinLimit` and `EveryPayloadIsAccountedFor`. The ceiling and the account
are not inductive alone, because `Rewrite` installs what was read long before:
`CallInv` says that this is the newest that fits, the entries that are not expired, or
what the drain did not take (`Drained`), whatever became of the file. Lengths of files
are sums, and induction over numbers is not available as a theorem with a predicate;
`AllNumbers` derives it for a set of numbers from the least element, and `BytesOf`,
`NewestIs` and `UnexpiredIs` follow from that. The theorems are `SpoolTypes`,
`PayloadsAreAccountedFor`, `SweepIsExact` and `CeilingStays`.

`DeliveryProofs`, for any hooks and payloads: `DeliveryInv` adds to `NothingVanishes`
that the log's keys are those of the events they came from and occur once (`LogInv`),
that an answer that is no refusal, and an entry the drain took, belong to an event that
is stored or given up (`SettledInv`), and that entries read for a drain are of hooks
that are done (`ReadInv`). Without `SettledInv` an answer could be believed whose event
is nowhere. The theorems are `DeliveryTypes`, `NothingIsForgotten`, `EventsAreStoredOnce`
and `CaptureModeHolds`. The last is about the entries a step appends, and where the body
of a payload is in each of them: `Ingested` says that such an entry is what
`PrepareEvent` makes of it in the collector's mode.

`AlertsProofs`, for any runs, clock and page limit: `AlertsInv` adds to `NotifiedOnce`
that a pass about to insert has not inserted, and that the row of a pass which inserted
and has not read it back has no notification yet (`PassInv`); two passes at the same
alert are told apart by the row's author. `RowHolds` says that a run with an end has a
status that ends it, so that a pass, which marks what is `started`, never marks a run
that has an end (`EndStays`), whatever events of the four kinds came. `ReportsNext` is the
step of `MarkedRunsAreReported`: an end that is later than every event of its run was put
there by a mark, whose pass inserts next, and no event brings a run into that state, since
the end it may report is no later than the run's last event. The theorems are `AlertsTypes`, `AlertsNotifyOnce`,
`MarkedRunsHaveAlerts` and `ReportedEndsStay`.

`CommandsProofs` has four invariants. `SettingsInv`, for any objects, versions and
integrations, adds to `UsersVersionIsKept` that, unless the user saved during a command
(`raced`), the command knows what is in the file and has it in a backup before it
truncates it (`Calm`), and that the keys of others are in the file and in what the
command works on (`Preserved`). `RetentionInv`, for any runs and policies: what a call lists and
has still to delete is there and has ended, or others deleted it (`StillThere`), and
what it has deleted is older (`OldestFirst`). `ListInv`, for any runs and page sizes:
every stable run was shown once down to the cursor and never behind it (`Seen`); the
lemmas `Positions` and `OrderedRows` say that a finite strict order has a position for
each element, and `OneMorePage` what a page adds. `ExportInv`, for any runs, events and
page sizes: the ingest sequences of each run are 1 to the number of its events
(`Numbered`), and what a call has read so far is the beginning of its run's events in the
order of these numbers, with no hole and no repetition (`Gathered`); it rests on
`RangeIsNumbered`: the rows after a cursor, in the order of the timeline (time, source's
number, ingest sequence), are in the order of their ingest sequences if the events had been
stored in the order that times and sources' numbers give them (`InTimelineOrder`). The theorems are
`UsersVersionStays`, `ForeignKeysStay`, `ApplyStaysOrdered`, `ExemptRunsAreSpared`,
`StableRunsStayListed` and `DocumentsStayWhole`.

`LiveProofs`, of the hub, for any publishers, connections, frames and capacity: `HubInv` is
`Typed` (with the capacity of queues), `Publishing` (a publisher offers its frame
to subscribers only, as the read lock keeps them what they are), `Unshared` (no
two publishers have the same frame), `Subscribed` (a subscriber's channel is open)
and, for each connection, `Known`: a frame is offered to it once (`Offered`), each
frame due to it has a fate (`Fate`), and a client that saw no jump has all frames
up to the last one (`Contiguous`). The theorems `TypesHold`,
`NothingIsSentOnAClosedChannel`, `FramesHaveFates` and `HolesAreShown` follow.
`HolesShow` needs `Offered`: a frame that was lost cannot be received later, so
that a client without a jump cannot be past it.

`LiveProofs`, of the page, for any events and times, pages of any size and any calls:
`WholePageIsWhole` speaks of a page that claims to be whole, but what the page will
apply next is in calls whose answers are not there yet and in cursors it may return to.
`PageInv` is therefore about all of them. `Held`: as long as the run is ordered and the
page not mixed, it has everything before the tracker's cursor, before the cursor it
applied, before each notice and before each "load more" or refetch under way, but the
sequences it read on from (`Covers`). `RowsFollow`: the rows of an answer are all that
is between its two cursors, also when the head was read before them (`RowsOfOrdered`,
`ReadFollows`); an answer then covers what it reaches (`AnswerCovers`), whichever other
one came first. `NoticesAreAnswered`: a notice has its refetch under way, so that a run
that is opened with no other read of it under way starts without notices. `PageTypes`
needs that every place among the rows is taken (`PlacesAreTaken`), which rests on
`MomentsAreOrdered`: time and source's number give a weak order, which the ingest sequence
makes total. Of
`ClaimsWhole` only that the page is open and has a cursor is used. The theorems are
`PageTypesHold` and `WholePagesAreWhole`.

`AdministrationProofs`, for any processes, requests, migrations and number of
commands: `AdminInv` is `SecretsInv` (what a process holds, except what it is about
to link, agrees with the file: `Agrees`), `SchemaInv` (the schema is a beginning of
the files and contains what each process has gone past: `Reached`; this is where
skipping by a stale list matters) and `SignInInv` (sign-in rows are of the current
generation, an answered token's row is used or gone, sessions with a row are of
the current generation). The theorems are `SecretsAgree`, `SchemaHolds` and
`SessionsFollow`. `AdministrationTypes` needs three more parts: every token and every
rotation is counted against a command that was run and cannot do it again (`CountInv`, by
the cardinality of those that still may), what processes and requests refer to is there
(`BoundsInv`), and a request that has created its session does not create it again, so that
each token and session has one row (`RowsInv`).

`AgentsProofs`, for any requests, limit and clock: an insertion of a batch is looked at
event by event (`InsertsBy`, over `AllNumbers`), and a request through the sequences it is
mapped to (`FlattenContents`, `SortContents`: sorting gives every event a place of its
own). `RetriesStayHarmless` needs `RetryInv`: the keys of a request whose items have times
stay in the table once it was taken (`InsertAdds`), its batch is the same at every time
(`BatchIsClockless`), and a batch whose keys are all there changes nothing
(`InsertSkips`). `RunEndsStayTrue` needs `EndsInv`: `EndsFrom` says that the end of each
row is a report of some request taken so far, with its status, and that the row of every
stored event that ends a run has an end no later than it (`Accounted`). The events of a request
that end a run and the reports of the request correspond (`EndsAreReported`): the time of such an
event is one of the report's, and every report has its event. `Reports` is
written from what agents mean and `SpanEvents`, `Rule` and `Canonical` from the code;
`SpanEnds` and `PayloadEnds` are where the two meet, the latter for all names of all
adapters (`CanonicalEnds`, `RuleEnds`).

`ModelCallsStayFinished` is about a step that could be shown as under way for ever: a
request posted again brings a call's first event again, and is cut before the second.
Mapping keeps the two together, the request before the completion (`Matched`): a span
has them side by side, and concatenation, flattening and the stable sort keep their order
(`MatchedConcat`, `MatchedFlatten`, `MatchedSort` over `SortPlaces`, as both have one
time). A batch is a beginning of that, which keeps every request before its completion but
not the reverse (`BatchMatched`). So the store never has a completion without its request
(`Kept`), and a request that comes again has a key that is stored, or one of another time.
In the latter case its completion follows in the same batch and is new, since it could only
be stored with its request (`Finishing`, event by event). The hypothesis `CallsAreTheirOwn`
is what this needs of the requests: no two calls have one step, and a call whose span has
no time is in a request that is never cut. The property fails without either: a call of
another span with the same identifier may be cut between its events after the first one
finished, and so may a call without a time be, which is sorted behind other items when it is
posted later. The requests of `agents` satisfy it, which that run evaluates
(`MCCallsAreTheirOwn`). A hook posts request and completion one by one, so that they come
in any order and a call may be left under way. For these calls the invariant `Latest` says
that a step has the status of one of its events, and that no event of the step was stored
after that one: a finished call that is shown as under way has a start that was stored
later, which is what the property allows and nothing else.

For any sessions and number of the plugin's events, `PluginInv` adds to
`BatchesAreDisjoint` that the numbers of all events are old (`NumbersAreOld`), so that the
next event is none of those in the queue, in a post or stored, and that an event in any of
the three places that carries its session has its run (`RunsAreOwn`); the theorem is
`BatchesStayDisjoint`.

Every safety property that a run checks is proved. Only model-checked: all liveness
(`CallsReturn`, `FailedRunsAreReported`, `StalledAlertsClear`, `GoroutinesProceed`,
`ConnectionComesBack`), since TLAPS reasons neither
about fairness here nor about ENABLED.

## Where the code differs from what is said of it

Five runs show a disagreement (`findings` of `PROJECT.json`): `spool_race`,
`delivery_bodies`, `alerts_recovered`, `dashboard_paging` and `dashboard_notices`. The
models were written to do what the code does, and meet more of the same kind, which no
run states:

Store. An event whose `event_id` is taken under another `source_event_id` rolls its
whole batch back (`events.go:55`), while `docs/architecture.md:48` has the rest of a
batch commit. A step whose start arrives after its end is shown as started, as the last
event received names its status (`events.go:272`). `mergeCaptureModes` returns early
and may leave a run with both modes (`events.go:362`). `sources.capture_mode` is
written by `ensureSource` and by the API without effect on a running collector.

Spool. A line longer than 1 MiB can be written but not read, and fails every later
call on its file (`spool.go:322`). What the ceiling drops is counted by the process
that dropped it, a hook that ends, while `docs/recovery.md:18-19` has the collector
report it (`spool.go:142`). The ceiling drops the oldest entries at once
(`appendLocked`), as `docs/recovery.md:16-19` and `docs/architecture.md:110` have it, and
`CeilingHolds` follows the code and these two. The comment on `LossWarningGrace`
(`spool.go:25-27`) and the design specification
(`docs/superpowers/specs/2026-09-25-traceboard-design.md:361`) give the oldest data of an
over-limit spool 24 hours before it may go; in the code the grace only dates the warning
that `State` reports (`spool.go:226`, `498`), and no entry waits for it. Entries spooled between the drain and the listening
wait for the next start.

Delivery. An event the store quarantines is answered with 400, spooled, and
quarantined again at every start until it ages out. An event of an unsupported
schema version is quarantined also in mode `off`. Mode `metadata` withholds `content` and
`raw`, but a hook's payload is among its `attributes` too (`hook.go:180`,
`lifecycle.go:150-163`), which `prepare` keeps in every mode (`service.go:194-195`), although
`docs/architecture.md:42-43` and `docs/setup.md:55-57` have prompt and tool bodies withheld:
`delivery_bodies` shows it, and `CaptureModeIsRespected` claims nothing of attributes but that
mode `off` stores none. A payload without a time gets the
hook's, so that the agent's retry is a new event.

Alerts. `docs/recovery.md:45-47`, `docs/architecture.md:114-116` and
`docs/compatibility.md:71-73` have a run without a terminal event stay active and be
reported as stalled; the code marks it incomplete, with an end, as the design
specification says (`2026-09-25-traceboard-design.md:364`), opens the alert, and the next
pass, which finds the run in a terminal status, resolves that alert again
(`evaluator.go:124-170`). So no property here asks that silent runs be ended, nor
that they stay active: `MarkedRunsAreReported` asks that the one does not happen without
the alert. It holds while no statement fails; if the insertion of the alert fails after the
mark, no later pass looks at the run as a silent one, and it is never reported. The end
that a source reported may give way to an earlier one, also of another kind: a
`run.incomplete` (`lifecycle.go:49`) dated before the end makes a completed run incomplete.
A stalled alert can be opened, and notified, for a run that completed
after the pass listed it (`evaluator.go:170`). An alert that was resolved cannot be
opened again, because its stable identifier is still a primary key: the INSERT
fails and ends the pass for all later runs (`alerts.go:40`). The comment that one
evaluation runs at a time (`start.go:104-106`) is true of triggers only. A page of
500 runs is not continued, so alerts of older runs stay (`evaluator.go:114`);
`PageLimit` below the number of runs breaks `StalledAlertsClear`. No code outside
tests records a heartbeat, so that `source_disconnected` (`docs/recovery.md:40`) is
never opened.

Hub. IDs are taken before the lock, so that a later one can enter a queue first,
although `hub.go:50-52` calls it monotonic. A client whose last frame was dropped
learns of it only with the next one. `event.appended` is never published
(`hub.go:97`), and the client does not compare stream IDs, as
`docs/architecture.md:50` has it do. The comment on `SubscriberBuffer` (`hub.go:25-26`) has a full subscriber's
subscription dropped; `Publish` skips the frame and keeps the subscriber.

Dashboard. The cursor at the head of a run is the sequence of the next event, and
reads are of sequences above the cursor: the first event after a refetch is
skipped (`timeline.go:104`); `WholePageIsWhole` names this exception (`readFrom`).
The state is "live" before the missing range was read, because the refetch of the
index says so (`live.svelte.ts:64`). A notice goes when its refetch ends, also when it
failed (`RunsPage.svelte:223`), and the range is not asked for again until the connection is
lost once more, although the gap is to be reported until the range was refetched
(`live.svelte.ts:73`, `realtime.ts:38-41`, `docs/architecture.md:73-75`): `dashboard_notices`
shows it. A page is cut in the order of `timelineOrder` (`timeline.go:50`) while its cursor is
an ingest sequence, so that `WholePageIsWhole` is about runs whose events arrived in
that order (`Ordered`), and events of one time that their source numbers against their
arrival break it as distinct times do. A refetch that overlaps a "load more" leaves
events twice (`RunsPage.svelte:128`).

Mapping. Every event of a span has the span's start time, so that a run that a
root span completes has `ended_at` equal to its start, and a duration of zero,
although a finished root span is to be its end (`normalize.go:122`, `132`, `292`) and the
design specification shows durations (`2026-09-25-traceboard-design.md:372`, `390`).
`RunsEndWithTheirAgents` therefore asks for one of the two times of the span, and would hold
of a code that took the end. A hook's model request that arrives after the completion (a
spooled one, say) leaves the call under way, as the last event received names its
status; `ModelCallsFinish` allows that and nothing more. A session of
Claude Code that sends both hooks and telemetry is two runs, since hook runs have the bare
session and telemetry runs `source:session`. All events of a request get the first
service's name, so that the capture mode of a second service is not asked for
(`ingest/otlp.go:49`). Metrics and items without a time are stored again by a retry,
as they get the clock's (`service.go:305-307` says retries are recognized). When
the repeat of such a request is cut between a model call's request and its completion,
the finished call is shown as under way again, as it is when two spans share an
identifier; `CallsAreTheirOwn` excludes both. Events
beyond the limit of a batch are dropped with the answer 200.

OpenCode plugin. After `session.created` every event without a session identifier
goes to that session's run, those of no session, too, although they "are kept out of
every session" (`configure.go:393-397`). A batch whose post fails is dropped; there is
no spool.

Reading and deleting. The query for runs "committed since a point in time" filters by
start time (`routes.go:358-367`), so that an older run that changed is not in it.
`ListAllEvents` has the cursor of `ListEvents` and skips events in exports of runs
with more than a page of 1000 whose events did not arrive in the order of the timeline
(`timeline.go:108`); `DocumentsHoldTogether` names this exception (`ordered`). Two exports to one file without force may both pass the check
(`export.go:96`), and run identifiers that differ only in punctuation have one file
name (`routes.go:549`).

Agents' settings. The merge replaces lists, the user's own plugins or hooks included
(`configure.go:293-312`). A command that is killed leaves a truncated settings file,
which the next one refuses as no JSON, or a truncated plugin, which the next one keeps
(`configure.go:240`). A version that the user saves while the command runs is
overwritten, and two backups in one second have one name; `UsersVersionIsKept` names
both exceptions (`raced`).

Configuration. Two commands that save at the same time lose one of the settings:
each writes all of what it read. `retention set --keep-newest-per-project` prints
the cap but does not save it (`commands.go:216-246`). Two first starts at once:
the second fails as its migration finds the tables there. A second `start` on the
address of a running collector rotates the sessions before it finds that it
cannot listen (`start.go:71`, `146`), so that the running one's page is signed
out. `ConsumeSession` (`sources.go:263-265`) asks for a row that was not consumed
and not for a sign-in token, so that a session's own token opens another session;
`SessionsFollowTokens` is about the lineage of sessions from sign-in tokens, which that
keeps, and the requests of `Administration` post sign-in tokens only. `doctor` records a
failed migration and goes on to evaluate alerts on what there is (`status.go:160-189`);
it is not among the commands modelled. A crash between saving and `SetSourceCaptureMode` leaves two modes.

## What is not modelled

- Contents: text, attributes, redaction, the FTS index, layouts of exports, pages that
  only show one answer. No property of order or state depends on them.
- Queries without state (filters, search, step trees, counts). Those whose timing
  matters are in `Dashboard`, `Alerts`, `Retention`, `RunIndex` and `Export`.
- Wire formats, the hash of an identity (taken to be injective), and the parts of the
  adapters that only name attributes.
- The daemon's service files, notifications of the desktop: calls of other programs.
- Functions no code outside tests calls: `AssignProject`, `PurgeExpired`,
  `RecordHeartbeat`, the spool's `Clear`.
- Power failures that lose a synced write; SQLite itself is taken to be correct.

## Plan

Done, in this order, the most important behaviour first: the store with its
refinement and its proofs; the spool; delivery over both; alerts; the dashboard;
the hub and its proofs; administration and its proofs; mapping and telemetry; the
plugin and its proof; retention, the run index and export over one table; the agents'
settings; the proofs of the spool, of delivery, of alerts, of the commands, of
telemetry, of the store's refinement, of the dashboard's page and of model calls.

Next, in this order:

1. Several runs on the dashboard's page, with the deletion of the one that is shown.
2. Several sources of `Administration`, and the loss of a setting between two
   commands that save.
