# A verification project for db-sync-tool

The tool copies row changes from SQL Server to PostgreSQL. A client polls the change tables (CDC) of
its source databases, sends each batch of changes over gRPC to a server, and the server writes the
batch to the target in one transaction and answers. The client keeps a cursor per source, a log
sequence number (LSN) in a state file, and moves it when the answer says that the batch was written.

The modules in this directory describe that pipeline in TLA+, TLC checks them on small instances, and
TLAPS proves theorems about them for all instances. The question behind all of it is the one line
`README.md:20` of the tool: *Client only advances its CDC cursor after server confirms the write*.
Under which conditions does that hold, what is lost when it does not, and does the target catch up
after failures?

## The system

| Component | Code | State it keeps | Operations | What makes it correct |
|---|---|---|---|---|
| SyncOrchestrator | `client/sync_runner.go` | consecutive errors; readers and table mappings; locals of a cycle | `NewSyncOrchestrator`, `Run`, `syncCycle` | the cursor only moves over changes that are in the target; errors do not stop the copying for good |
| StateManager | `client/state.go` | map of cursors, state file | load, `GetCursor`, `UpdateCursor`, `RecordPendingBatch`, `persistState` | the saved cursor never runs ahead of the target, never goes back and never becomes another source's; pending entries do not pile up |
| MSSQLReader | `connector/mssql/reader.go` | schema cache | `PollChanges`: LSN range, then one query per table | every change behind the LSN that the client will store is in the batch, with all its columns |
| StreamingClient | `client/grpc_client.go` | connection | `HealthCheck`, `StreamBatch`, `Reconnect` | the answer that is returned is that of this batch |
| CdcSyncService | `server/grpc_server.go` | locals of a handler | `StreamChanges`, `processBatch`, `categorizeError` | one answer per batch, OK only for a committed batch |
| PostgreSQLWriter | `connector/postgres/writer.go` | connection pool, primary key cache | `ApplyChanges` | all of the batch or nothing, in an order of whole batches, safe to replay |
| Retry policy | `common/types.go` | none | `DelayForAttempt` | bounded delay |
| Configuration | `config.go` (two) | none after the start | `LoadConfig` | old configurations and state files go on working |
| Processes | `cmd/` | none | start, signals, exit | whatever is cut off is repeated or was complete |
| Source databases | external | log, change tables, capture instances, retention | commit, capture, cleanup, DDL | - |

How they interact: the client is one goroutine that calls reader, state manager and streaming client
in turn, so the client's own steps are sequential. What is concurrent is everything around it: the
sources commit while the tables of one poll are read, the server's handler works while the client
waits, times out or dies, the acknowledgement travels, either process may stop between any two steps,
a handler may outlive the stream it serves and meet its successor in the target's tables, and
operators alter tables and configurations at any time. Cursor, target and source log are three pieces
of state on three machines, and nothing writes two of them together.

The hard behaviours, which `PROJECT.json` lists with their lines under `hazards`:

* the window between recording a batch as pending, sending it, committing it, acknowledging it and
  saving the cursor, with a crash or an error in each gap;
* lost, late and duplicated work: the acknowledgement is lost after the commit, the commit itself
  returns an error, a batch is sent again under a new ID, an old handler commits late;
* cursors are whole LSNs, but batches are cut at a number of rows, table by table;
* the source moves during a poll: one query per table, each up to the newest LSN of its own time;
* memory and state file differ after a failed save, and the next save writes both;
* several errors end the process, which must not lose what it had recorded, and one source's errors
  end the cycle for those behind it;
* the statements of several handlers interleave in one database, over one small pool, and a key look-up
  asks for a second connection while it holds one;
* a signal closes the pool under the handlers;
* columns and keys change, and are kept in two caches, in capture instances and in the target;
* state files and configurations of an older form, edited between two starts.

## The modules

```
CdcTypes ─┬─ CdcSource (external) ─ CdcReader ─┐
          ├─ CursorStore ──────────────────────┼─ DbSync ─ DbSyncProperties ─┬─ MCDbSync (TLC)
          ├─ TargetWriter ─────────────────────┘      │                      └─ DbSyncProofs ─┬─ CoverageProofs ─ WholePollProofs
          │      │                                    │ INSTANCE                              └─ PendingProofs
          │      │                               Replication (abstract)
          │      └─ PgWriter ─ CdcServer ─ CdcServerProperties ─┬─ MCCdcServer (TLC)
          │                                                     └─ ServerProofs ─ SerialProofs
          └─ Replication
SchemaDrift ─┬─ MCSchemaDrift (TLC)                 Startup ─ StartupProperties ─┬─ MCStartup (TLC)
             └─ DriftProofs                                                      └─ StartupProofs
```

*The pipeline*

* **CdcTypes**: changes, their order in the log, rows, cursors. An LSN is a natural number, since the code
  only compares LSNs and asks for the next one. A row's contents are identified with the change that
  wrote it last; column values appear nowhere.
* **CdcSource** (external): what the CDC functions that the reader calls show of SQL Server. A commit
  appends all changes of one transaction under a new LSN; an update has two rows
  (`UPDATE_OLD`, `UPDATE_NEW`) with the same `__$seqval`; the retention job raises
  `fn_cdc_get_min_lsn` of a table. A transaction changes a row at most once.
* **CdcReader**: `PollChanges` in three parts: `BeginPoll` (the LSN range and the start), one
  `readTableChanges` or its failure per table in any order, and `PollComplete`. `TopRows` is
  `SELECT TOP (n) ... ORDER BY __$start_lsn, __$seqval`, which leaves open which of two rows with equal
  keys comes first. `poll` holds the locals of the call, `lastValid` the LSN the server will send back.
* **CursorStore**: the in-memory map `mem`, the file `disk`, what each operation makes of a cursor, and
  the two outcomes of a save. `Position` is where `syncCycle` polls from: the acknowledged LSN or, without
  one, `LastProcessedLsn`.
* **TargetWriter**: the effect of one committed batch with idempotent writes. Upserts write all columns and
  deletes of absent rows do nothing, so each row is left as its last change in the batch left it.
* **DbSync**: the composition. `pc` says where the client goroutine is, `streams` holds the requests
  and answers that exist, `budget` the faults left. Each early return of `syncCycle` is an action or
  a disjunct of one: `PollStart`, `PollFails`, `ReadTable`, `NoChanges`, `LocalSkip`, `RecordBatch`, `SendBatch`,
  `StreamBatchFails`, `RecvAck` (OK, RETRY, error), `Reconnect`; then `Crash`, `PowerLoss`, `Restart`, the handler's
  `ProcessBatch`, `ProcessBatchFails`, `CommitUnknown`, `HandlerCancelled`, `ServerRestart`, and the sources' steps.
  A call that changes state and can fail is one action with both outcomes, and what the cycle does with
  the result (next source, next cycle, back off, exit) belongs to the same action. Sources in `Broken` answer the
  ping of the start, but each of their polls may fail.
* **Replication**: the abstract specification, without client, server, batches or state file. The copy of a source moves
  from one state that the source had after a transaction to a later one (`Deliver`), and the position from which
  replication would be resumed moves over what has been delivered (`Confirm`).
* **DbSyncProperties**: the properties, stated over DbSync, among them `Replicates`: DbSync implements Replication
  with the log of tracked changes, the tracked rows of the target and the position of the cursor *in the state file*.

*The server*

* **PgWriter**: `ApplyChanges` statement by statement, for several handlers over one pool at READ COMMITTED: what a transaction has
  written and locked, the rows that a statement sees, `upsert`, `insert`, `delete`, the key cache and the look-up on a second connection.
  A table in `Keyless` has no key at the source but one in the target: its upserts look the key up, its
  deletes are skipped with a warning.
* **CdcServer**: the handlers' receive loop message by message (`Receive`, `EndBatch`, `EndOfStream`, `ReceiveFails`, `SendAck`),
  `processBatch` with its errors (`categorizeError`), row-lock deadlocks, clients that give up, SIGTERM
  (`Signal` closes the pool while handlers work, `Exit` does not wait for them) and crashes.
  A stream may carry several batches, which the client never sends but the protocol and the handler allow.
  What clients send is any set of streams whose batches have the changes of each row in log order (`InLogOrder` in `ServerAssumption`):
  the reader's queries are sorted by `__$start_lsn, __$seqval` (`reader.go:297`), a row belongs to one table, a table has one capture instance
  here, and neither the client nor the stream reorders changes.
* **CdcServerProperties**, **MCCdcServer**: its properties and four workloads.

TargetWriter is the summary of PgWriter that DbSync uses. The property `TargetIsSerial` is what ties the two: the statements of the
handlers leave the target as `ApplyTo` of the committed batches, one after the other, does.

*The schema*

* **SchemaDrift**: one table whose columns and key change: the source table, its (at most two) capture instances, the reader's schema
  cache, the writer's key cache, the target's table, and what the target was given of each change. A cycle is one step, which
  DbSync takes apart. `quiesced` says whether the operators alter a table only while nobody writes it, and restart the client before it is written
  again. A cycle that finds no rows is a step too: every poll looks up every table (`reader.go:261-274`), so that an idle client
  holds the columns of before an alteration. `outdated` says that the client was running when the table was altered last and
  was not started since; that is what careful operators go by (`Settled`), who cannot see the cache. A database in which nothing was captured yet
  ends a poll before its tables; here such a poll fills the cache as well, and a client that has not polled has the empty one.

*The start*

* **Startup**: `LoadConfig` with the legacy form, `NewStateManager` with files of one cursor, of a map or unreadable,
  the readers' pings and table mappings of `NewSyncOrchestrator`, the wait for the server with `DelayForAttempt`, and
  edits of the configuration between two starts. Once the process runs, a cycle takes one
  change of a source at a time: `CopyNext` for a table that has a mapping, `SkipNext` (the code's `local-skip`) for one that has none. Which tables
  the changes of a source are of is the constant `Log`. What a batch is and what may fail on its way is in DbSync.
* **StartupProperties**, **MCStartup**: its properties, and five configurations.

Operators under a comment that begins with `Defect:` are plausible bugs of the operator below them (a dropped guard, a
missing reset, a swapped order). Nothing uses them; putting one in its operator's place breaks
the property that `PROJECT.json` pairs it with under `mutants`, in that property's own run.

History variables: `missed` (DbSync) holds the changes of tracked tables that a cursor move passed although the
batch did not contain them. It separates the two halves of the tool's promise. The
*protocol* half (`CoveredOrMissed`): nothing that was read and sent is passed before it is written. The *reader*
half (`CursorBehindApplied`): nothing at all is passed. The first holds under almost every fault; the second
needs polls that return everything up to the LSN they report. `commits`, `serial` and `overlooked` (CdcServer) hold the order of commits, the target that TargetWriter
makes of them one by one, and the rows that a delete could not protect; `outdated` and `alterations` (SchemaDrift) and
`losses` (Startup) hold what operators and disks did; `confirmed` and `unlisted` (Startup) hold the changes that the server confirmed, and those that were skipped
while no entry of the process's configuration could mean their table.

## The runs

| Run | Module | What may happen | Shows |
|---|---|---|---|
| full | MCDbSync | all faults but power loss, 3 of them; batches cut at two rows | answers belong to the batch waited for, abandoned entries are bounded by the failures, the saved cursor never goes back |
| clean | MCDbSync | whole polls; poll, persist, stream, apply, server, crash, 2 of them; three tables, one untracked, empty transactions; fairness | the pipeline implements Replication; nothing is lost, transactions arrive whole, rows never go back, polls resume behind what is in the target, the target comes to equal the source |
| sources | MCDbSync | two sources, batches of one row, commits during polls, all failures of reads, saves, streams and processes, 2 of them; the second source may fail at every poll for ever | no cursor passes a change that was sent and not applied, cursors of different sources do not disturb each other, the source in front of the broken one is copied |
| powerloss | MCDbSync | no state file at first, then lost twice more | the replay from the first change converges |
| server | MCCdcServer | two calls at once, a pool of two, with and without idempotent writes, clients that give up, SIGTERM, one database failure or crash | one answer per batch with its own LSN; OK means committed, and commits are of whole batches; the target is that of a serial order; plain inserts are not applied twice; every call returns |
| drift | MCSchemaDrift | columns added and dropped, keys changed, instances, target and processes renewed in any order, by careful operators and others | operators who stop the writes and restart the client lose no column; no drift stops replication for good |
| startup | MCStartup | five configurations, three forms of the state file, databases and server that come and go | no cursor passes an unconfirmed change of a listed table, saved cursors survive edits, delays grow to their limit, the client comes up |
| loss_fresh | MCDbSync | one failed batch, no state file | **violated** `ResumesAfterApplied`: the first poll of a source is not repeated |
| loss_cut | MCDbSync | no fault; a batch size of three | **violated** `CursorBehindApplied`: the rest of a cut transaction is never read |
| loss_midpoll | MCDbSync | commits during a poll | **violated** `CursorBehindApplied`: one table's LSN passes another's change |
| late_handler | MCDbSync | one stream error, a handler that outlives its stream | **violated** `TargetNeverRegresses`: a row goes back to an older version |
| schema_skip | MCSchemaDrift | one column added while the table is written | **violated** `NothingPassedUnread`: a refused query counts as no changes |

Deadlock is checked in every run but `server`, where the calls are finite: with both of them done and the pool closed
nothing is left to happen.

**Bounds.** *Pipeline* (`MaxLsn`, `Keys`, `Tables`, `Sources`, `MaxRetries`, `MaxFaults`): one to three source transactions, one or two keys, up to
three tables and two sources, two retries (five where a run does not need the exit), up to three faults per behaviour. Each
hazard needs few actors: a cut batch needs one transaction larger than the batch size, a lost change
needs one row, an overtaking needs two versions of one row and one late handler, exiting after
`MaxRetries` needs two errors, and another fault lets something go wrong during the recovery. A batch size of 16 stands for one that no batch reaches.
*Server*: two handlers are enough for every wait-for cycle that two tables in different orders can give and, with two
connections, for each to hold one while it asks for another. The workloads (`Calls`) are a retry that meets its predecessor with the
tables in the other order, two batches on one stream beside a third, deletions that meet a late insertion, and a batch in which rows are both inserted and deleted.
*Drift*: three columns, two of them original, two keys, three changes, two alterations: one alteration for the old instance and one for the new.
*Startup*: two names, two tables; delays of 100 up to 500 ms, so that the limit is no power of two times the first, and four attempts; two changes per source, of different tables,
so that a cursor taken over from another source is noticed; one loss of the file. The entries of the one-source configuration name no database; with the second source one of them gets a name and the other does not.
The theorems below remove the bounds for the properties they are about.

**Fairness.**
* `DbSync!FairSpec`: weak fairness of `ClientStep` (the client's goroutine runs: the wait for an
  acknowledgement has a timeout, and its database calls are assumed to return), of `ServerStep` (a handler
  that has a batch finishes it or fails, also when its context is cancelled) and
  of `Restart`. The last one is not in the code: after `MaxRetries` consecutive errors `Run` returns and
  the process exits, and that it is started again is up to whoever operates it. Nothing is assumed
  about commits, and no fault is ever forced to happen. That faults and commits stop eventually follows from their
  bounds, without which the target need never equal a source that goes on changing. The failing steps of `ClientStep` and
  `ServerStep` use up a part of the budget, except for polls of a source in `Broken`, which may fail for ever.
* `CdcServer!FairSpec`: weak fairness of each handler's steps (goroutines run, PostgreSQL detects deadlocks and answers) and of `GiveUp`, the client's
  `AckTimeoutSecs` (`grpc_client.go:111`). Without the latter two handlers that hold both connections and ask for a third wait for ever:
  `CallsReturn` depends on the clients' timeouts alone.
* `SchemaDrift!FairSpec`: strong fairness of `syncCycle` (operators may stop the client again and again, but not always before it
  polls), weak fairness of `StartClient`, of `MigrateTarget`, and of `RestartServer` while its key is stale. The last three
  are operators' acts; a client that is refused is *not* assumed to be restarted by anybody as long as it runs.
* `Startup!FairSpec`: weak fairness of `Start`, strong fairness of `HealthCheckOK`: the process may be killed while it waits, and the server may come
  and go, but not for ever just before each check.

## Findings

1. `loss_fresh` (bug): `RecordPendingBatch` (`client/state.go:133`) gives a source that has no entry yet the LSN of the batch
   that is about to be sent as `LastProcessedLsn`, "temporarily". If that attempt fails, `syncCycle` (`sync_runner.go:212`)
   falls back to that field since nothing was acknowledged, and the next poll starts after a batch
   that was never written.
2. `loss_cut`: `TOP (batchSize)` may cut a transaction; its LSN is acknowledged as a whole, so the rest of it is never read.
3. `loss_midpoll`: each query goes up to the newest LSN at its own time, so the LSN of a later table's
   change can pass a change of an earlier table that was committed in between.
4. `late_handler`: an upsert overwrites whatever is there. A handler that outlives its client's
   timeout can write an old batch over newer ones, which no one sends again.
5. `schema_skip`: a query that fails returns neither changes nor an error (`reader.go:300-305`). A client that does not have the columns of the table
   in its cache, that is, in its first poll after a start, asks the old instance for a column that was added while the table was written, and passes all
   changes until there is an instance that has it. (A client that has them cached goes on with the old columns.)

Findings 2, 3 and 5 have one shape: the LSN that is stored is not one up to
which every table was read completely. Two more ways to the same loss need no run of their own, as `loss_cut` and `schema_skip` show it: the
table loop stops when the batch is full, and the cursor passes the tables not read (`reader.go:140`); and a table
that cannot be read for any other reason counts as a table without changes (`reader.go:135`).

What the models show besides, and the properties therefore allow for:

* After SIGTERM `runServer` returns without waiting for its handlers, whose batches may commit without an answer. The client repeats them.
* Rows deleted from a table without a key at the source stay in the target (`writer.go:250`): the first exception of `TargetIsSerial`. The second: a delete
  that finds no row locks nothing, so that a late insertion of that row can commit behind it.
* With plain inserts a batch that was committed and not acknowledged is refused with every retry, until the client exits; `AppliedOnce` says what
  it gains.
* A table entry that names no database belongs to the only source there is; when a second source is added it belongs to `default`, and if that is not
  the name of the first one, the changes of a table that was copied so far are skipped as untracked and the cursor passes them. The comment at
  `sync_runner.go:66` accepts this. It is the only exception of `ListedConfirmed` (`Ambiguous`).
* The client starts only when every configured source answers (`Provided` in `ComesUp`).
* A source that can never be polled starves those behind it in the configuration: `FrontSourcesConverge` is about those in front of it.
* While a table is written there is no safe way to add a column: until the client restarts, its cached metadata leaves the new column out of every
  change; if it restarts before the old instance is drained, the queries of the backlog fail and are skipped. Only stopping the writes works.

## The proofs

TLAPS checks eighteen theorems, for all constants that satisfy the named assumptions of the modules
(`TypesAssumption`, `SourceAssumption`, `ReaderAssumption`, `SyncAssumption`, `WriterAssumption`, `ServerAssumption`, `DriftAssumption`,
`StartupAssumption`; TLC evaluates them in the runs). With them every invariant, every action property and the refinement that the passing runs check
is proved, some under hypotheses that the table names.

| Theorem | Module | Property | Hypotheses |
|---|---|---|---|
| TypeCorrect | DbSyncProofs | TypeOK | - |
| AnswersMatch | PendingProofs | AckMatchesPending | - |
| PendingBounded | PendingProofs | PendingBoundedByFailures | - |
| CursorForward | CoverageProofs | CursorNeverRegresses | `CursorsKept` |
| CoverageCorrect | CoverageProofs | CoveredOrMissed | `Ordinary` |
| BehindCursorApplied | WholePollProofs | CursorBehindApplied | `Ordinary`, `WholePolls`, `[]SmallBacklog` |
| PollsResumeAfterApplied | WholePollProofs | ResumesAfterApplied | the same |
| TransactionsTogether | WholePollProofs | TransactionsWhole | the same |
| RowsMoveForward | WholePollProofs | TargetNeverRegresses | the same |
| PipelineReplicates | WholePollProofs | Replicates | the same |
| AnswersBelongToBatches | ServerProofs | AnswersMatchBatches | - |
| OKIsCommitted | ServerProofs | OKMeansCommitted | - |
| CommitsAreSerial | SerialProofs | TargetIsSerial | - |
| InsertsOnce | SerialProofs | AppliedOnce | - |
| PassedAreConfirmed | StartupProofs | ListedConfirmed | - |
| CursorsSurvive | StartupProofs | SavedCursorsSurvive | - |
| WaitsGrow | StartupProofs | DelaysGrow | - |
| QuiescedComplete | DriftProofs | PassedComplete | - |

The hypotheses are the conditions without which the property is false, as the runs that expect a violation show:

* `CursorsKept`: the state file is not lost and the client starts with a cursor. A lost file takes the cursor back by design; without a
  cursor `RecordPendingBatch` sets one to the LSN of the last change read, which may be that of an untracked table and later than the
  LSN that is acknowledged (finding 1 is the same step).
* `Ordinary`: moreover, a handler whose client gave up stops. A late handler can write an older batch over a newer one (finding 4).
* `WholePolls`: no commits during a poll, no failed query of a table, no retention job (findings 3 and 5). All other faults may happen.
* `SmallBacklog`: what a source captured behind the cursor in memory never fills a batch (finding 2). It is a
  condition on the behaviour, not on the constants: any finite batch size is too small for some backlog. In the run `clean`, with a batch size of 16 and
  the faults of `WholePolls`, it holds in every state.

The arguments:

* **TypeCorrect** (`DbSyncProofs`): `Spec => []TypeOK`. Type correctness needs more than types. `TInv` adds that a
  poll and the streams hold captured changes only, that captured changes are not newer than their source's newest
  LSN nor that than `MaxLsn`, and that a running client has fewer than `MaxRetries` errors behind it. The step that needs thought is
  `LastChange`, a `CHOOSE` over a set of changes: `LastChangeExists` shows that a set of changes has a last one
  without induction on its size, from the least number in a set of naturals (`LeastNatural`), applied to the
  distance from an upper bound of its LSNs.
* **CursorForward** (`CoverageProofs`), with handlers that outlive their streams. `KInv` adds to the types `CursorsOK` (file behind memory behind log),
  `PolledOK` (the poll in progress starts at the cursor, and the LSN that will be acknowledged is that of a change in the batch) and `AwaitedOK` (IDs
  are not used twice, and the stream that the client waits for carries the LSN of its poll). A cursor is replaced by the LSN of a
  change of the batch or by `poll.max`, and both are at or after the cursor the poll began from (`PollBounds`), although the last
  change of a batch is not its newest one.
* **CoverageCorrect** (`CoverageProofs`). Batches may be cut, tables may fail, sources may commit at any time, both processes
  may die at any step. The property is not inductive: whether the
  cursor may move is decided by an answer, and what the answer stands for is known only by following it back
  to the batch. `CInv` strengthens `KInv` by `StreamsOK` (at most one stream; it carries the batch the client holds, and
  its answer is OK only if the batch is in the target). That a commit of a batch uncovers nothing (`ApplyKeepsCoverage`) rests on
  `PolledOK`: every change in the batch is newer than the cursor.
* **Whole polls** (`WholePollProofs`). `BatchWhole` says that the batch holds everything the tables read so far captured in the poll's range; a query that is not cut
  returns its window (`ReadsWindow`: a subset of the same cardinality is the set). So `missed` stays empty, and with `CoveredOrMissed` that
  is **BehindCursorApplied** and **PollsResumeAfterApplied**. For the other three, `Snapshots` says that the target holds each source as it
  was after some transaction, not before the cursor in memory and not beyond the poll in progress. A commit of the batch takes the source from that state to the one at `poll.max`:
  what the batch has is newer than the cursor, what lies between the cursor and the old state is written again, and the rest comes
  after. `OneImage`, that a transaction leaves one image of a row, makes the state at an LSN unique. **PipelineReplicates** then maps a commit in the target to `Deliver`, a
  transaction of a source to `Commit`, and a save of the state file to `Confirm`, for which `CursorForward`'s lemma and `CoveredOrMissed` give the two halves.
* **AnswersMatch** (`PendingProofs`): `Spec => []AckMatchesPending`, in every deployment. `AttemptOK` adds to it that batch IDs are not used twice, and that the
  batch in hand is in the state file before its stream exists. It holds with handlers that outlive their streams, since the client
  never looks at another stream than its own.
* **PendingBounded** (`PendingProofs`): `Spec => []PendingBoundedByFailures`, in every deployment. The bound on the file is not inductive, since a failed save leaves an entry in
  memory that the next save of any source writes. `EntriesPaid` therefore counts the entries of memory and file together and allows one more only while
  a batch is `InProgress`, that is, while it can still be acknowledged without a further fault: the attempt that leaves its entry behind has either
  spent a fault or ended with an answer that cost one.
* **AnswersBelongToBatches**, **OKIsCommitted** (`ServerProofs`). The properties speak of the batches of a stream as a whole (`BatchesOf`), a handler sees one message
  after the other. `StreamInv` ties them: the locals of a call (`Holds`) are those of the run of messages since the last boundary, the number of answers is
  the number of boundaries before it (`Count`), and an answer OK is on its way only for a batch among the `commits`. `BatchOfRun` shows that such a run, once it ends, is
  the n-th batch. Answers that were sent and commits are not taken back by later failures, signals or crashes.
* **CommitsAreSerial** (`SerialProofs`). `RowOK` says, for each row and each open transaction, what the transaction has written of it after so many statements: its last
  change that touches the row, or nothing if there was none, or only deletions that found nothing. Rows written by two transactions are disjoint (the locks), so a commit
  changes only what the batch's last changes say, and `LastChangeIs` identifies these with `ApplyTo`'s, which needs `InLogOrder`. A deletion that found nothing
  is the case in which a later commit of another handler breaks the correspondence; the row is then in `overlooked`, and `RowOK` carries that along.
* **InsertsOnce** (`SerialProofs`). `OnceInv`: a row that is absent was deleted by a commit at or after each one that inserted it (`DeletedSince`), and a transaction that
  has inserted a row found it absent and holds its lock, so no other commit can insert it before.
* **CursorsSurvive** (`StartupProofs`): `Spec => SavedCursorsSurvive`, for every set of names and configurations, from `SInv`: a process holds at
  least what its file holds (`Behind`), also the cursors of sources that it does not know.
* **PassedAreConfirmed** (`StartupProofs`): `Spec => []ListedConfirmed`. The property is about the file; `NInv` asks the same of the cursors in memory, which the next
  save of any source writes, and adds that a running process has sources, entries and mappings of one and the same configuration (`ConfigOK`). What is skipped then has
  no entry that could mean it, or one without a database that was given to another source, which `DatabaseName` does only among several (`ListedIsMapped`).
* **WaitsGrow** (`StartupProofs`): `Delay`, a recursive function on the attempts, has the value its definition says only if such a function exists.
  `DelaysExist` and `DelaysAgree` show that for each number of attempts there is exactly one list of delays, each by the least number for which it would fail; from them
  `DelayDoubles` and `DelayPositive`. `WaitOK` then says that the wait in progress is that of the attempt.
* **QuiescedComplete** (`DriftProofs`): `Spec => []PassedComplete`, for every table, any number of alterations and every order of restarts. `Agreed` is the invariant
  that makes it inductive: while changes wait, no client of before the last alteration runs, and the table and some instance agree, as they did when the first of
  them was committed; `CacheOK`, that a client started since then has the table as it is or nothing in its cache, adds the reader. A
  query then finds all rows that wait, with exactly the columns they have (`RowsComplete`).

Only model-checked are the liveness properties `Converges`, `FrontSourcesConverge`, `CallsReturn`, `Resumes` and `ComesUp`: fairness is defined by `ENABLED`, which is
out of the prover's reach. The findings need no proof, since a counterexample is one.

Two modules are written as they are for the sake of the proofs: PgWriter builds `written` and `target` as functions over rows instead of with
`@@`, and `BatchesOf` is made of small operators that lemmas can be about.

## What is not modelled

* **Values**: the conversion of columns and the quoting and mapping of names. A batch that cannot be
  converted is a failed batch.
* **`LastSequenceNumber`** of an answer: the handler's count restarts with each table; the client copies it to the log and nowhere else. The
  server never answers `PARTIAL`, whose branch in the client is that of `OK`.
* **A table with two capture instances in the pipeline**: `getCdcTables` (`reader.go:206-234`) then returns it twice, and one poll reads the changes that both instances
  have twice, which a batch may hold out of log order. The pipeline and the server (`TablesOf`, `InLogOrder`) have one instance per table; SchemaDrift has
  two, of which the columns matter, not the versions of a row.
* **A row changed twice in one transaction**: its changes have different `__$seqval`s and arrive in that order, so it adds
  nothing to the order of changes that different transactions do not show.
* **Retention overtaking the cursor is not a fault of the tool**: it is modelled (`cleanup`), and its losses count as `missed`.
* **A batch size of zero** is accepted by the configuration; every change is then missed. `CoverageCorrect` covers it (`BatchSize \in Nat`), no run does.
* **`GetPendingBatches`** is not called outside tests, and `MaxConcurrentBatches` is read by nothing.
* **Overrides by environment variables, the server's configuration, flags, logging, TLS, dialling**: values of constants or library code; a failed dial is
  one of the errors of `StreamBatchFails`. The error types in `common/errors.go` are not used by the pipeline.
* **Configurations that name a source twice**, or map two tables to one target table, are taken not to occur: the code does not reject them.
* **A source whose database is exchanged under its name**: the name is what a cursor is kept for, in the code and here.
* **The target's other writers**: the server's transactions are alone on their tables.
* **The generated gRPC code** and gRPC itself: a stream delivers what is sent, once and in order, or breaks.

## Plan

1. *Done*: the pipeline, its abstract specification, the server, schema drift, the start; theorems about all their safety properties.
2. Weaker hypotheses: a batch that is not full in rows of the source polled, instead of `SmallBacklog` for all sources; `PassedComplete` for a
   table that is altered more freely.
3. That TargetWriter is implemented by PgWriter as a refinement: today `TargetIsSerial` compares the outcomes commit by commit.

## Running

```
tlc -config full.cfg MCDbSync              # likewise clean, sources, powerloss, loss_*, late_handler
tlc -config server.cfg MCCdcServer
tlc -config drift.cfg MCSchemaDrift        # likewise schema_skip
tlc -config startup.cfg MCStartup
tlapm DbSyncProofs.tla                     # likewise CoverageProofs, WholePollProofs, PendingProofs, ServerProofs,
                                           # SerialProofs, StartupProofs, DriftProofs
```

A violation run is meant to end with a counterexample. Every run takes less than five minutes.
