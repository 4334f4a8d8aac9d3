# TLA+ models of the DuckDB JDBC driver

The repository is the JDBC driver of DuckDB: Java classes under
`src/main/java/org/duckdb`, a JNI layer under `src/jni` and a vendored copy of the
engine under `src/duckdb`. The driver's own logic is small but concurrent: JDBC objects are
closed by one thread while another is inside a native call that uses them, and every one
of them wraps a raw pointer into the engine. This project models that logic, and those parts of the
engine on which the driver's promises rest: how a connection gets its database, which versions of
the rows a transaction reads and when they are cleaned up, how commits survive crashes, and how a streaming result is produced while it
is read.

(Paths below are those of the repository; the class names are those under `org.duckdb`.)

## 1. Inventory

### Components

| Component | State it keeps | Operations | Interacts with |
|---|---|---|---|
| `DuckDBConnection` | `connRef` (native `ConnectionHolder`), `closing`, `autoCommit`, `transactionRunning`, the tracked `preparedStatements`, `pendingQueries`, `appenders`, `connRefLock` | `createStatement`, `prepareStatement`, `close`, `interrupt`, `setCatalog`/`setSchema`/..., `createAppender`, `commit`/`rollback`/`setAutoCommit`, `duplicate` | owns all the following; calls the engine under `connRefLock` |
| `DuckDBPreparedStatement` (plain and prepared) | `conn`, `stmtRef`, `query`, `selectResult`, `closeOnCompletion`, `stmtRefLock`, batch, timeout task | `execute*`, `prepare`, `close`, `cancel`, `getResultSet`, `executeBatch` | locks the connection, starts a transaction, tracks itself and its pending query |
| `DuckDBPendingQuery` | `pendingRef`, `pendingRefLock` | created by `executeDirect`, `close` | tracked by the connection |
| `DuckDBResultSet` | `resultRef`, `resultRefLock`, chunk and row index | `next` (`fetchChunk`), `close`, getters | locks the connection, then itself; closes its statement on completion |
| `DuckDBAppender` | `appenderRef`, `appenderRefLock`, the column cursor, the buffered chunk | `beginRow`, `append*`, `endRow`, `flush`, `close` | tracked by the connection |
| Query timeout timer (`DuckDBDriver.scheduler`) | one pending `CancelQueryTask` per execution | `schedule`, `cancel`, fires `stmt.cancel()` on its own thread | the statement |
| `DuckDBDriver` | the pinned database references, the set of initialised databases | `connect`, `releaseDB`, session init file | the engine's instance cache |
| Engine `DBInstanceCache`, `DatabaseFilePathManager` | the cache entries by name, their mutexes, the files in use | `GetOrCreateInstance`, `InsertDatabasePath`, opening and destroying a database | called by `connect`; databases clear their entries |
| Engine storage: `StorageManager`, `WriteAheadLog`, `SingleFileCheckpointWriter`, `SingleFileBlockManager`, `wal_replay` | the file's headers and blocks, up to three log files, the WAL lock, the checkpoint in progress | commit, checkpoint, recovery | called by the transaction manager; the only state that outlives the process |
| Engine transactions: `DuckTransactionManager`, `UndoBuffer`, `LocalStorage`, `RowVersionManager`, `ChunkVectorInfo`, `UpdateSegment` | the lists of active and recently committed transactions, the clean-up queue, the undo buffer and local storage of each transaction, insert and delete ids of rows, chains of old values | start, insert, delete, update, commit, roll-back, clean-up | commits write the WAL or checkpoint; readers walk the versions while others commit and clean up |
| Engine streaming: `BatchedBufferedData`, `Executor`, `Pipeline`, `StreamQueryResult` | two queues of chunks, the minimum batch, the blocked sinks, the tasks | tasks push chunks, `fetch` runs and wakes tasks, `close` cancels them | under `jdbc_stream_results`; the reader is `ResultSet.next()` |
| JNI layer (`duckdb_java.cpp`) | the holder objects behind the pointers | one function per native method | `ClientContext` |
| Engine `ClientContext` | the context lock, the `interrupted` flag, the active transaction | `PendingQuery`, `Execute`, `Prepare`, `Interrupt` | runs one query per connection at a time |
| Value conversion, metadata, Arrow | none that is shared | pure functions, SQL text | — |

### Behaviours that are hard

* **Closing against everything else.** `Connection.close()`, `Statement.close()`,
  `ResultSet.close()` and `Appender.close()` may each run while another thread is inside a
  native call on the same handle. Every handle has a lock, and a closing object must take it
  before it frees the pointer. A check of `isClosed()` before the lock is stale inside it.
* **Lock order.** There are five families of locks and the engine's context lock. The
  nominal order is connection, statement, result; several paths take the connection lock
  while they hold a statement or an appender lock.
* **Interrupts.** `conn.close()`, `cancel()` and the timer set one flag of the engine
  context, which every query clears as it starts. It has no addressee.
* **Tracking.** What `conn.close()` does not find in its lists when it iterates is
  never released; what an object forgets to take out of a list is kept alive.
* **Partial failure.** `execute()` can fail at each of a dozen points, with an `SQLException` or
  a `NullPointerException`, and has to release what it has acquired so far.
* **Transactions.** The driver keeps its own idea of whether a transaction runs
  (`transactionRunning`), next to the engine's.
* **Crashes.** A commit is a sequence of writes to a buffered file; a checkpoint moves through two logs, two headers and a
  rename. A crash between any two of them has to leave something that recovery understands, and recovery may crash as well.
* **Versions of rows.** A commit stamps its rows one by one while others read; old versions are destroyed by whichever thread comes
  along, without the lock on the transactions. Every reader must see the table of its start until it ends, and nothing may be kept for ever.
* **A cache of open databases.** The last connection closes the database while another thread connects to it: the
  second has to wait for the end of the first, and a file must never be open twice.
* **A producer that the consumer runs.** Tasks block on a full buffer; the reader both wakes them and runs them, and an error or a
  close has to end them all.
* **The appender's cursor**: nested structs, unions and default values, chunks that fill up, a
  flush that fails half-way.

### What makes each part correct

| Part | Property |
|---|---|
| every handle | no native call works on a freed handle (`NoUseAfterFree`) |
| connection | whatever has to be released is tracked (`HoldersAreTracked`); all of it is released before the native connection is (`NothingOutlivesConnection`), except the results that `getResultSet()` returned or lost (`NoResultIsLost`, which the code violates: section 11); closed statements are forgotten (`ClosedStatementsUntracked`) |
| connection | `close()` returns, even when a query that never ends by itself is running (`CloseReturns`), and no set of threads waits for itself (`NoDeadlock`) |
| pending query | a finished execution leaves none behind (`PendingQueriesUntracked`, which the code violates: section 11) |
| statement | `cancel()` reaches its own query only (`CancelsOnlySelf`) |
| appender | closed with its connection (`AppendersAutoClosed`, which the code violates: section 11) |
| transactions | the driver's flag agrees with the engine (`FlagAgrees`, `EndedMeansEnded`); nothing stays uncommitted in auto-commit mode (`NothingLingers`); batches are atomic (`BatchAtomic`); nothing becomes durable by itself with auto-commit off (`ManualCommitOnly`, `KeepsJdbcPromise`) |
| appender cursor | every column of a row is written, once, however deep structs and unions nest (`RowWhole`, `NoOverwrite`), and a row that is written can be ended (`CompletedRowCanEnd`) |
| appender rows | stored exactly once and in order (`EachRowOnce`, `CloseStores`); a failure loses none (`NoneLost`) |
| instance cache | a file is open at most once (`FileOpenOnce`), two connections share one database (`SameDatabase`), `connect` returns (`ConnectReturns`) |
| pinned databases | stay open until released (`PinnedStaysOpen`), are found again (`PinnedAccessible`, which the code violates: section 11), no pin survives the shutdown hook (`NoPinAfterShutdown`) |
| storage | a reported commit survives every crash (`NothingLost`, `CommitsAreDurable`), a rolled back one never appears (`AbortedStaysAborted`), none is applied twice or out of order (`AppliedOnce`, `InCommitOrder`), and the database opens again (`SerialAlwaysOpens`) |
| row versions | a transaction reads the table of its start, the first of two writers wins, a commit appears at once (`SnapshotReads`); clean-up comes neither early nor late (`RecentlyOrdered`, `CleanupExact`); a checkpoint beside other transactions writes one commit (`CheckpointWritesCommit`) |
| streaming | the reader gets all rows in order (`RowsInOrder`), the assertions about the minimum batch hold (`NothingBelowMinimum`, `PassedMeansComplete`), memory is bounded (`BufferBounded`), `fetch` and `close` return (`FetchReturns`, `CloseReturns`) |

`PROJECT.json` lists the individual hazards at their source lines, each with the properties that
cover it.

## 2. Plan

Done, in this order: `ConnectionLifecycle` with its proofs; `Transactions` with `JdbcTransactions` and its proofs;
`AppenderRows`; `Durability` with `CommitLog`; `InstanceCache` and `BatchedStream` (with `OrderedStream`) with their proofs;
`RowVersions` with `SnapshotIsolation` and its proofs; the proofs about `AppenderRows` and `Durability`; the proof that `BatchedStream`
implements `OrderedStream`; the proof that `RowVersions` implements `SnapshotIsolation`. Each has an MC module with the instances.

Next, in this order:

1. `AppenderLayout`: where the elements of nested arrays, lists and structs go in the column's
   vectors, which null bits are set, and what a composite value that fails half-way leaves behind. The reference
   definition is the value as a tree. Recursive definitions, so only model-checked.
2. `QueryTimer`: schedule, fire and cancel of the timeout task against the end of the execution
   and the start of the next one.
3. `executeBatch` in `ConnectionLifecycle`: it holds `stmtRefLock` across several executions and a commit.

The regular runs are kept to a dozen, so that all of them, with the mutants, are repeated on every change. Most configurations
that refute a claim are therefore listed in section 11 and run by hand.

## 3. `ConnectionLifecycle`

One connection, its statements, result sets, pending queries and appenders, and
application threads that call into the driver concurrently.

**State.** The Java fields keep their names. A native pointer is a Boolean (alive or not)
or, where "never created" must be told from "closed", one of three or four values. A lock is
its owner: reentrant acquisition by the owner is a no-op. The lock counts that this hides never
matter, because no method releases an outer acquisition early. `contextLock` is the
engine's `context_lock`; a thread owns it while its query runs. `detached` records the
results that `getResultSet()` handed to the application, `overwritten` those it lost (below), `orphans` counts the live pending
queries that only the connection still refers to, `constructed` the statements whose
constructor has returned. `retStmtClose`, `retResultClose`, `retNext` and `retAppClose` are return
addresses: `Statement.close()`, for one, is called by the application, by a failed `execute()`, by
`ResultSet.close()` and by `Connection.close()`.

**Steps.** `pc[t]` is the place in the driver where thread `t` is about to take a lock, to read
a field that another thread may write without a common lock, or is inside a native call.
A critical section in which nothing can block is one step. The prefixes:

| Prefix | Code |
|---|---|
| `ex` | `DuckDBPreparedStatement.execute()` |
| `dq` | `executeDirect()` of a plain statement |
| `pq` | `DuckDBPendingQuery.close()` |
| `p` | `prepare()` |
| `sc` | `DuckDBPreparedStatement.close()` |
| `grForget` | `getResultSet()`, between its read of `selectResult` and its write of null |
| `rcRead` | the second read of `selectResult` by a thread that holds the statement lock and is to close that result |
| `rc` | `DuckDBResultSet.close()` by that thread (`rcNested`: the `Statement.close()` inside it, about to read `selectResult` again) |
| `rsFree` | `DuckDBResultSet.close()` by the application |
| `f` | `fetchChunk()` |
| `cc` | `DuckDBConnection.close()` |
| `k`, `ca` | other calls under `connRefLock`; `cancel()` |
| `an`, `af`, `ac` | creation, flush and close of an appender |

`getResultSet()` takes no lock: it reads `selectResult` (`GetResultSet`) and sets it to null (`ForgetResult`) in two steps, and
another thread may have executed the statement in between. `execute()`, `prepare()` and `Statement.close()` hold the lock, but test
`selectResult` for null and read it once more to close it. If `getResultSet()` has been faster, the second read (`ResultCloseRead`,
`ResultCloseNested`, `ExecuteFailRead`) is a `NullPointerException`, which `NullPointer` takes out through the `finally` blocks: `execute()`
fails without closing the statement, `prepare()` leaves it unprepared, and `Connection.close()`, reached through one of its statements, ends in the middle,
with `closing` set and `connRef` alive.

Whether a query succeeds, fails, or returns rows or a count is a nondeterministic choice.
A query ends when it likes; the engine's `interrupted` flag is set by `conn.close()`
and `cancel()` and cleared as the next query starts, as in `ClientContext::InitialCleanup`.

**Abstractions.**

* SQL text, parameters, rows and types are left out.
* The nested `Statement` that executes `BEGIN TRANSACTION` is one step that needs the
  connection lock and the engine; the handles it creates live and die within it.
* `conn.close()` closes its lists in any order, a superset of the insertion order the
  `LinkedHashSet` gives.
* The unsynchronised `appenders` and `preparedStatements` sets are modelled as sets: a lost
  update inside the hash table is not.
* The `selectResult.close()` of a failed `execute()` happens in the `Statement.close()`
  that the same path makes.
* Fields that are read without a lock (`selectResult`, `closing`, `query`, `conn`) are sequentially consistent: a thread reads what was written
  last. The Java memory model would allow older values.
* Whether a result is one of rows (`returnsResultSet`) is left open: `getResultSet()` may be called once an execution of the statement has
  stored a result.
* `duckdb_jdbc_prepared_statement_meta()` and `duckdb_jdbc_query_result_meta()` do not fail.
* A fetch from a streaming result, which takes the context lock, is a fetch that returns. How it runs and ends is
  the subject of `BatchedStream`.
* The timer is a thread that calls `cancel()` at any time.
* `executeBatch()` is not an operation of this module: it holds `stmtRefLock` across all of its executions and the
  final `commit()`. What it does to transactions is in `Transactions`.

### Runs

All instances have one connection. `MaxOps` bounds the API calls of each thread; `MayCall` says which
calls each thread makes, so that each run is one scenario. `Results` gives the identities of
result sets: an execution that would need one more fails instead.
A thread outside the driver does nothing, and `Quiescent` lets a state in which every thread is
outside stutter. TLC's own deadlock check is off, because some of the scenarios reach the
deadlocks of section 11: `NoDeadlock` states the absence of cyclic waiting instead, where it holds.

| Run | Instance | Shows |
|---|---|---|
| `single` | 3 threads, 1 plain statement executed once, its result fetched and closed, 1 call each | `NoDeadlock`, and `CloseReturns` although the query ends only when interrupted |
| `reuse` | 3 threads, 1 plain statement, executed by two of them without auto-commit; one takes its results over, one closes the statement, the third closes the connection and sets `closeOnCompletion`. Two result identities, so that a second execution returns too; 2.5 million states | `NoUseAfterFree`, `HoldersAreTracked`, `NothingOutlivesConnection`, `ClosedStatementsUntracked`; includes the path where one execution nulls the `query` of the other and those where `selectResult` becomes null before it is closed |
| `prepared` | 3 threads, 1 prepared statement, prepared again, executed by two threads without auto-commit, closed by a third, its results taken over and fetched from meanwhile; 1.9 million states | `NoUseAfterFree` |
| `appender` | 3 threads, 1 appender, created, flushed and closed by two threads next to `conn.close()` | `NoUseAfterFree` |

Three threads and two calls each are the smallest instance with every pair of conflicting calls
next to a third party: the executing thread, the one that closes, and the one that holds the lock the other two want. The
violations of section 11 need two or three threads and at most two calls. The proofs below do not depend on
these bounds.

**Lost results.** If a query of a statement runs on one thread while another is between the two steps of `getResultSet()`, the new result
is stored and nulled at once: nobody has it, and `conn.close()` does not find it. `overwritten` is a history variable with the results
this has happened to; no guard reads it. `NothingOutlivesConnection` says, for every interleaving, that only these and the results that
`getResultSet()` returned live after `conn.close()`: everything else is found and released. That results can be overwritten at all
(`NoResultIsLost`) is the subject of `MCLifecycle_lost_result.cfg` (section 11), and the theorem `ResultsAreTaken` says what it takes: under
`TakenAlone`, when no thread has a query of a statement running while another is inside its `getResultSet()`, none is.

**Fairness.** `Spec` has none: safety needs none. `LongQuerySpec`, used by `CloseReturns`, assumes weak
fairness of `DriverStep(t)`: a thread inside the driver is scheduled, and gets a lock
that stays free. Java's `ReentrantLock` and the engine's mutex give this, as the number of calls
is bounded and no lock is contended for ever. It does *not* assume that queries end: only
that an interrupted one does (`InterruptedQueryEnds`), because the engine polls the flag.

Each property has a mutant in `PROJECT.json`: a plausible fault of one definition (a check dropped, a lock not taken, a
pointer not released) under which TLC finds the property violated. The variants are next to
the definitions they replace, marked "Faulty variant".

## 4. `Transactions` and `JdbcTransactions`

The driver never uses the engine's own auto-commit switch. With JDBC auto-commit off it runs `BEGIN TRANSACTION` before
a statement, unless its field `transactionRunning` says that a transaction is open. The module puts this
flag next to the engine's transaction and asks when the two agree.

**State.** `autoCommit` and `transactionRunning` are the fields of `DuckDBConnection`. `engineTx` is the engine's
`TransactionContext`: `"none"` (its own auto-commit), `"active"`, or `"invalid"` (aborted by an error; only
COMMIT, which then rolls back, and ROLLBACK end it). Writes are numbered; `uncommitted` and `committed` say
where each one went. Per thread, `sql` is what `execute()` runs and `caller` on whose behalf: the application, `commit()` or
`rollback()`, or a batch; `OnReturn` and `OnThrow` are the code after the call and its exception handler.
`begins` counts the nested `BEGIN` statements that are on the stack but have not run.

**Steps.** A step ends where another thread can read or write the flag or the engine:

| `pc` | Next step |
|---|---|
| `check` | `execute()` or `prepare()` tests `autoCommit` and `transactionRunning` |
| `mark` | `startTransaction()` raises the flag; the nested statement goes through `check` itself |
| `begin`, `run` | the engine runs the nested `BEGIN`, or the statement |
| `clear` | COMMIT or ROLLBACK has returned, the flag is lowered |
| `switched` | `setAutoCommit()` has changed the mode and commits an open transaction |
| `batchStart`, `batchStarted`, `batchNext`, `batchCatch` | the phases of `executeBatch()` |

Any write may fail, with or without aborting the transaction (`Exception::InvalidatesTransaction`). `Faults` says
whether the engine's BEGIN and COMMIT may fail as well although its state allows them. A COMMIT that fails has
nevertheless ended the transaction: `TransactionContext::Commit` gives it up first.

**Abstractions.** Every thread uses statements of its own, and the connection stays open: locks, handles and closing are
the subject of `ConnectionLifecycle`. Reads other than `prepareStatement()` are left out; a query affects
transactions as a prepare does. The two executeBatch methods, for plain and for prepared statements, do the same.

`JdbcTransactions` is the abstract specification: a write is durable at once or belongs to the current transaction, a
transaction is committed or discarded as a whole, and only in auto-commit mode does anything become durable without a commit. It lets a
commit discard, because the engine rolls back an aborted transaction on COMMIT without an error. `KeepsJdbcPromise` states
that `Transactions` implements it, under the identity mapping of `autoCommit`, `uncommitted` and `committed`.

| Run | Instance | Shows |
|---|---|---|
| `jdbc` | 1 thread, all JDBC calls, no SQL transaction statements, no faults; 4 writes, batches of up to 3 | `FlagAgrees`, `NothingLingers`, `BatchAtomic`, `KeepsJdbcPromise` |
| `sql` | 1 thread, SQL transaction statements too, BEGIN and COMMIT may fail; 3 writes, batches of up to 2 | `EndedMeansEnded`: however far flag and engine have drifted apart, they agree when `commit()` or `rollback()` succeeds |

`MaxWrites` and `MaxBatch` are the only bounds: a failing batch needs a write before and one after the failure and one outside
the batch. The number of commits, rollbacks and mode switches is unbounded. The properties of `jdbc` hold for what `Disciplined` defines: one thread,
no transaction statements as SQL, an engine whose BEGIN and COMMIT fail only where the state demands it. Section 11 shows
what happens without each of the first and the last.

## 5. `AppenderRows`

What an application that appends from one thread relies on: the cursor visits each column of a row exactly once, and each row
that `endRow()` accepted reaches the table.

**State.** `currentColumn` and `prevColumn` are the fields of `DuckDBAppender`. A column is the path of its indices from the
top level, so its parent, its index and its siblings need no tables; the empty path is `null`. The tag of a union is its first
member, as in the engine's representation. `cell` says for each column what the slot of the current row holds. `chunk` is the
sequence of row numbers in the Java-side data chunk, so `rowIdx` is its length; `collection` is what the native
appender has taken over but not flushed, and `table` what is stored.

**Steps.** Each public method is one action; a call that the cursor's checks reject throws without an effect and is no action.
`endRow()` is two, for a flush that works and one that fails; it flushes as part of the same step. A failing native call throws either before the
chunk was taken over (`AppendFailed`) or after (`FlushFailed`). `Close` suppresses what its flush throws, as the code does, and then destroys
the native appender, which flushes once more.

**Abstractions.** A value is "set", "null", "default" or "unset": types, widths and the layout of arrays, lists and
maps are the subject of the planned `AppenderLayout`, and appending one is one step. The locks and the tracking of appenders
are in `ConnectionLifecycle`. A failure to reset the chunk's columns is left out. The several flushes that the native appender makes as it is
closed and destroyed are one, which may fail.

| Run | Instance | Shows |
|---|---|---|
| `rows` | the table `(s STRUCT(x, u UNION(p, q STRUCT(y))), a, b UNION(m, n))`, chunks of 2 rows, up to 4 rows, up to 2 failing native calls | `RowWhole`, `NoOverwrite`, `CompletedRowCanEnd`, `EachRowOnce`, `NoneLost`, `CloseStores` |

The table has a struct in a struct's union, a union inside a struct and one as the last column: every way in which the end of
a level can coincide with the end of the one above, and a plain column in between. Four rows fill a chunk twice, with a row in progress before, at and
after the flush; two failures let a retry fail as well. `MaxTotal` and `MaxFailures` are bounds of the model, `MaxRows` stands for
the capacity of a vector. Defaults are constants and for top-level columns in this run; section 11 says what they do elsewhere. Deadlock is not checked:
a closed appender has nothing left to do.

## 6. `Durability` and `CommitLog`

One database file with its write-ahead log, its checkpoints and its recovery.

**State.** What survives a crash: `file`, the active header with the commits in its blocks; `files` and `disk`, the three logs that may
exist (`main`, `checkpoint`, `recovery`) with their entries. What does not: `mem`, the commits applied in memory; `wal`, the open
`WriteAheadLog` (which path, its size, whether it was opened, how much of it is synced); the WAL lock; the writer in
its commit; the checkpoint in progress. `fate` records what each transaction was told, `history` the order in which commits became
visible. A transaction is one entry in the log: what it wrote is not looked into.

**Steps.** A commit is four: its entries go to the file's buffers, it becomes visible and is flushed, it is acknowledged; or it
is reverted and the log truncated. A checkpoint is seven, from `Checkpoint` to `CheckpointDone`; between them commits go on, to the main log before
`WALStartCheckpoint` and to a log of the checkpoint after `WALSwitch`. A commit that is large enough checkpoints instead of writing to
the log. Recovery is the two passes of `wal_replay.cpp`, with the merge of two logs (`MergeWals`, `MoveRecoveryWal`,
`RemoveCheckpointWal`) as three steps, because a crash may separate them.

**Crashes.** `Crash` may happen at any point, in recovery too. Of the open log it keeps all that was synced, and of the rest any
prefix, the next entry possibly cut short. Renaming and removing a file are atomic and are not undone. The
blocks of a checkpoint are written and synced before its header, so the header stands for them. A commit that was not acknowledged has the
fate `unknown`: it may or may not be there afterwards, but not half.

**Setups.** One run covers two kinds of database at once: `setup` is chosen in `Init`. `identified` is the storage
version 67, whose log names the checkpoint it belongs to; `concurrent` and `bulk` say what overlaps a checkpoint.

`CommitLog` is the abstract specification: a set of durable commits that only grows, and a set of reported ones inside it. `Durable` maps
to it what a crash at this moment would leave. `CommitsAreDurable` is finer than `NothingLost`: no step of a checkpoint or of
recovery may leave a commit out even for a moment, as a crash may come at that moment.

| Run | Instance | Shows |
|---|---|---|
| `recovery` | 3 transactions, 2 crashes, 2 checkpoints; a file of the default version with concurrent and bulk commits, a file of version 67 with one thing at a time | `NothingLost`, `AbortedStaysAborted`, `AppliedOnce`, `InCommitOrder`, `SerialAlwaysOpens`, `CommitsAreDurable` |
| `torn_log` | 2 transactions, 1 crash | `AlwaysOpens` does not hold with concurrent commits |

Three commits are one in the blocks of the file, one in the main log and one in the log of the checkpoint; two crashes are one in the
checkpoint and one in the recovery from it; two checkpoints let a log be left over from an earlier one. A third crash is too much for the code:
`lost_commit` and `twice` of section 11. `CHECK_DEADLOCK` is off: when all transactions are done nothing is left to do.

## 7. `InstanceCache`

How `connect()` gets its database. The engine keeps a cache of open databases by name; an entry has a mutex and a weak reference to the
database, and the database, while it exists, keeps its entry. The driver may in addition pin a database, and runs a session init file once for each name.

**State.** One name, and databases with their cache entries numbered as they are created. Reference counts are sets of owners, `entryRefs`
and `dbRefs`: threads that hold one, the pin, and in `entryOwned` the database that holds its entry. `path` is
the registry of open files. `pinned`, `pinLock`, `hook`, `initNames` are the static fields of `DuckDBDriver`; the hook is the JVM's shutdown hook.

**Steps.** `cache_lock` is held for single steps only, so it has no variable; the mutex of an entry is held while the database is
opened. Whoever drops the last reference to a database destroys it, in three steps: close the storage, give the file free, clear the entry. Any
other thread may connect between them, and what it does then (`LockWeak`, `SpinEnds`, `Erase`) is why the module exists. The shutdown
hook runs next to threads that still connect and close.

**Abstractions.** The configuration is one of a few values that are equal or not. Two threads that use different names share only
locks, and are left out. Attaching further databases to one is left out.

| Run | Instance | Shows |
|---|---|---|
| `connect` | 2 threads, one file, 2 configurations, up to 3 databases, opening and the init file may fail, under `FairSpec` | `SameDatabase`, `FileOpenOnce`, `PinnedStaysOpen`, `NoPinAfterShutdown`, `ConnectReturns` |

`MaxInstances` bounds the databases opened one after the other: a waiter found the first, another thread opens the second, and the third is
what is opened after the waiter has erased the second. **Fairness:** weak fairness of `Step(t)`, the steps inside a call. Mutexes of the
engine are held for a bounded time, the number of connects is bounded, so no thread is overtaken for ever. `ConnectReturns` is not obvious: a
waiter spins until an entry expires, and would keep it alive itself if it did not give up its reference first (the mutant `KeepEntry`).

## 8. `BatchedStream` and `OrderedStream`

A streaming result that keeps the order of rows. Worker threads run the tasks of the query's last pipeline; each task takes a batch from
the source, pushes its chunks into `BatchedBufferedData` and blocks when that is full. The reader, in `fetch()`, takes chunks out, wakes
blocked tasks, and runs tasks itself when nothing is there to read.

**State.** A chunk is the pair of its batch and its number. Per task: where it is (`pc`), who runs it, its batch, what is left of the batch
(`todo`), the minimum it knows (`minIndex`), the batch its sink knows (`current`). `index` is what the pipeline has registered. Of the buffer: `min_batch`,
`buffer` by batch, `completed`, `read_queue`, `blocked_sinks`. Of the executor: `held`, the task the reader has begun and not finished, and the
flags of cancellation, error and interrupt. `rpc` is where the reader is.

**Steps.** The buffer's lock `glock` is given up between the check for room and the append (`ShouldBlockBatch`, `AppendChunk` or
`BlockSink`) and between the parts of a batch change; each part is a step. The reader wakes sinks with `glock` held (`waking`) and
spins for a task that has registered as blocked but has not yet been descheduled. An error of a task interrupts the others; closing cancels
the waiting tasks and runs the rest to their end.

**Abstractions.** A chunk has size 1, and the capacities of the two queues are numbers of chunks. Earlier pipelines are over: the last one blocks on the
buffer alone. Operators are a number of chunks per batch, 0 for a batch that is filtered out.

`OrderedStream` is what the reader is promised: the chunks of the query, in order, and the end only after the last. `RowsInOrder` states that
`BatchedStream` implements it, with `Rows` for the result; it is checked for the instance below and proved for all (section 10).

| Run | Instance | Shows |
|---|---|---|
| `stream` | 2 tasks, 2 workers and the reader, 3 batches of 0, 2 and 1 chunks, queues of 1 chunk each; operators may fail, the connection may be interrupted, under `FairSpec` | `NothingBelowMinimum`, `PassedMeansComplete`, `BufferBounded`, `RowsInOrder`, `FetchReturns`, `CloseReturns` |

Two tasks are one in the minimum batch and one ahead of it; three batches one that is passed over, one that blocks half-way and one behind.
Capacities of 1 make every chunk meet a full queue. **Fairness:** weak fairness of the reader inside a call, and of every task that a thread runs or
could take. A reader need not fetch again: `FetchReturns` and `CloseReturns` speak of calls that were made.

## 9. `RowVersions` and `SnapshotIsolation`

The versions of the rows of one table, under transactions that run side by side. The JDBC driver promises `TRANSACTION_REPEATABLE_READ`
(`DuckDBDatabaseMetaData.getDefaultTransactionIsolation`); what makes it true is in this part of the engine.

**State.** `clock`, `nextId`, `last_commit`, `active`, `recently`, `cleanup_queue` and `active_checkpoint` are fields of
`DuckTransactionManager`. A transaction has its `start_time`, `transaction_id`, `commit_id`, its undo buffer (`undo`: entries for
appends, deletes and updates, each with its vector and rows) and the number of rows in its local storage (`local`). The table has per row an insert
id and a delete id (`ChunkVectorInfo`), per vector a chain of `UpdateInfo`s with old values, and the newest values (`current`). Ids of
running transactions lie above all timestamps, so that one comparison tells "not mine and not yet committed". A row's value is the name of the
transaction that wrote it last.

**Steps.** Statements are one step each: the version lock, or the lock of the segment, is held. A commit has two forms. `CommitDirectly`
keeps the lock on the transactions to the end: nothing has changed, or the commit will checkpoint. `CommitThroughWAL` gives
it up; `WriteToWAL` appends the local rows and writes the log; `TakeTimestamp` takes the lock again. Either way `CommitEntry` stamps one undo entry
at a time, as readers do not take that lock; `CommitDone` or `FlushFails` ends it. `RollbackEntry` goes backwards. `Leave` puts the transaction on the
list of recently committed ones, and moves those that nobody needs any more to the clean-up queue; `PopCleanup`, `CleanupEntry` and `CleanupDone` are the
work of one thread on one entry of the queue, under the clean-up lock alone. `StartCheckpoint` and `FinishCheckpoint` bracket the time in which
the table is written. Writing the log, flushing it, and the check of indexes in an append may fail.

**Abstractions.** One table, one column, no index. Row groups are never full; new ones are begun only because of a checkpoint, as in
`AppendRequiresNewRowGroup`. The threshold of an automatic checkpoint is a choice. A vector
whose version info was cleaned up (`ChunkConstantInfo`) is one whose insert ids are all 0. The checkpoint itself succeeds.

`SnapshotIsolation` is the promise: a transaction's view is a copy of the committed table, taken when it starts; rows changed by somebody who is
not over, or whose change it does not see, are refused; a commit applies all changes in one step. `SnapshotReads` states that `RowVersions`
implements it. The mapping reads the committed table *through the versions*, at the current clock, or at its own timestamp while a commit
is stamping, and likewise each running transaction's view. So an entry stamped or cleaned up early, a value unlinked too soon, or a
roll-back that touches a row of somebody else is a step the promise does not allow.

| Run | Instance | Shows |
|---|---|---|
| `isolation` | 3 rows, one of them loaded, in vectors of 2; two transactions with two changes each, or with one each beside a third that only reads, with failures or with checkpoints; a single transaction with both and with rows named twice in a `DELETE` | `RecentlyOrdered`, `CleanupExact`, `CheckpointWritesCommit`, `SnapshotReads`; 506,000 states |

Vectors of two rows have a first row and one that follows, which is what `Cleanup` treats differently; three rows are one vector that is
full and one that is not. Two changes are an update merged into an earlier one, a delete after an update, or an append beside a change. A third
transaction is what keeps old versions of the first from being cleaned up while the second commits. A variant with three transactions that write, one
change each, was run by hand as well (1.6 million states). Failures and checkpoints are kept apart with two writers because together they reach `lost_append` of
section 11, and repeated rows because they reach `lost_delete`.

No fairness is assumed: that old versions are cleaned up in time is stated as a bound on the queue and on what is left at the end (`CleanupExact`),
which does not depend on scheduling.

## 10. What is proved

**`ConnectionLifecycle`.** For any number of threads, statements, results, appenders, calls and any assignment of calls to
threads, from `ConstantsAssumption` alone (the constants have their types; the three `No...`
values are not members of their sets; at least one statement, result and appender exists so that the threads' local variables
have an initial value):

| Theorem | Module | States |
|---|---|---|
| `TypeCorrectness` | `ConnectionLifecycleProofs` | `Spec => []TypeOK` |
| `NoHandleIsFreedInUse` | `ConnectionLifecycleProofs` | `Spec => []NoUseAfterFree` |
| `HoldersStayTracked` | `ConnectionLifecycleProofs` | `Spec => []HoldersAreTracked` |
| `DisconnectComesLast` | `ConnectionLifecycleProofs` | `Spec => []NothingOutlivesConnection` |
| `ResultsAreTaken` | `ConnectionLifecycleProofs` | `Spec /\ []TakenAlone => []NoResultIsLost` |
| `UntrackingIsNeverLost` | `ConnectionLifecycleProofs` | `Spec => []ClosedStatementsUntracked` |
| `LocksAreOrdered` | `ConnectionLifecycleProofs` | `Spec /\ [][OrderedUse]_vars => []NoDeadlock`, with `OrderedCalls` |

**The locking argument** (first part of the module). `NoUseAfterFree` speaks of a handle and a thread
inside a native call; what keeps it true is which thread holds which lock at which `pc`. The inductive
invariant `IInv` is `TypeOK` with one part per lock family: `StmtLockInv` (a thread at a label
between lock and unlock of `stmtRefLock` owns the lock of its current statement),
`ConnLockInv` (likewise, and the connection is alive while a thread is between its check and
its unlock), `StmtRefInv`, `QueryInv` and `AppenderInv` (the handle is alive at the labels
that follow the recheck under the lock). Given these, an action that frees a handle is one whose thread owns
the handle's lock, so no other thread is at a label where the handle is in use. The preservation proof has one lemma per action.

**The tracking argument** (second part of the module). `HoldersAreTracked` is not inductive: `Tracked(s)`
happens inside critical sections and `conn.close()` empties the lists while other threads
are between two steps. `TrackInv` says what is in flight: `HolderInv` (what has something to release is tracked, and a closed
statement has nothing), `WorkInv` (what a thread at work on a statement knows of it: a query replaces no open result, an old result is closed before it is forgotten), `PendingInv` (a live
pending query is in `pendingQueries`), `ClosePhaseInv` (how far `conn.close()` has
come and what is therefore already released) and `ClosedInv` (a closed statement is untracked or about to be). None of them needs
`selectResult` to stay what it was: `getResultSet()` of another thread only makes it null.

`DisconnectComesLast` adds `ResultInv`: a live result is the `selectResult` of its statement, or the application has it, or it was overwritten.
`ResultsAreTaken` rests on `TakenInv`, which is inductive only with `TakenAlone`: what `ForgetResult` is about to null is
still what `GetResultSet` returned, or null, because no query has stored another result since.

**The order of the locks** (third part of the module). `NoDeadlock` is false in general (section 11), and the theorem says exactly what has to be
kept apart. `OrderedCalls`: no thread uses `closeOnCompletion()` or closes an appender itself. `OrderedUse`: `prepare()`, and `execute()`
of a plain statement or without auto-commit, start only on a statement that the connection does not track and that no other thread is
using like this (`Fresh`); these are the calls that ask for `connRefLock` with `stmtRefLock` held. The run `single` keeps to both (its statement is
executed once), the two `deadlock` runs of section 11 each break one of them. Everything else is free: any calls, any number of threads, statements and close() calls at once.
`OrderInv`, inductive on top of `IInv`, consists of `HeldInv` (each lock is held at certain places only, on the way to its
release), `FreshInv` (the statement of who is `Fresh` is untracked, and his alone), `CallerInv` and `ClosingInv` (`conn.close()` closes tracked statements, and none of its
children stops to untrack itself). From these, `LockOrder` shows that a set of threads that wait for one another is empty, by striking out one kind of
thread after the other (`WaitsForHolder`): who waits for the engine or a result waits for somebody who runs a query or fetches and waits for nobody; who
waits for a pending query or an appender waits for one of those; `conn.close()` waits for a tracked statement, so its holder is not `Fresh` and does not wait for the connection; and so the holder of the connection never waits within the set, nor then does
the holder of a statement.

**`Transactions`** (`TransactionsProofs`), for any number of writes and any size of batch, from `TransactionsAssumption`:

| Theorem | States |
|---|---|
| `TypeCorrectness` | `Spec => []TypeOK`, for any threads, calls and faults |
| `FlagNeverDrifts` | `Spec => []FlagAgrees` |
| `AutoCommitLeavesNothing` | `Spec => []NothingLingers` |
| `BatchesAreAtomic` | `Spec => []BatchAtomic` |
| `DriverImplementsJdbc` | `Spec => KeepsJdbcPromise` |
| `FlagIsLoweredAfterTheEnd` | `Spec => []EndedMeansEnded`, for a single thread, any calls and any faults |

The four in between assume `Disciplined`; the runs of section 11 refute them without. The last needs no discipline: its invariant
`EndInv` says which statement the steps inside `commit()`, `rollback()` and the end of a batch execute, and that the engine has no transaction once it returned. `FlagAgrees` speaks of idle states only. The
inductive invariant `TxInv` says what holds in between: `ControlInv` (at each `pc`, whether flag and engine already
agree, who the caller is and how many BEGINs are outstanding), `TransactionInv` (in auto-commit mode a transaction is open only
inside a batch or a mode switch, and outside transactions nothing is uncommitted) and `BatchInv` (the items of the running batch
are all in the open transaction, so that COMMIT and ROLLBACK treat them alike). `DriverImplementsJdbc` takes from it that
a write outside a transaction happens in auto-commit mode only.

**`InstanceCache`** (`InstanceCacheProofs`), for any number of threads, configurations and databases, from the five assumptions of the
module:

| Theorem | States |
|---|---|
| `SpecTypeOK` | `Spec => []TypeOK` |
| `SpecFileOpenOnce` | `Spec => []FileOpenOnce` |
| `SpecSameDatabase` | `Spec => []SameDatabase` |
| `SpecPinnedStaysOpen` | `Spec => []PinnedStaysOpen` |
| `SpecNoPinAfterShutdown` | `Spec => []NoPinAfterShutdown` |

The inductive invariant `IInv` says who owns what: the owners of a database are exactly the threads at a place with a connection to
it, and the pin (`OwnersInv`, `PinInv`); a thread that opens or destroys a database is alone with it (`AloneInv`); hence a storage is open while
its database has owners (`StorageInv`), and the file belongs to the database whose storage is open (`PathInv`). That the cache loses
entries (section 11) does not matter for it: the registry of files keeps a second database from the file.

**`BatchedStream`** (`BatchedStreamProofs`), for any number of tasks, workers, batches, any workload and any capacities:

| Theorem | States |
|---|---|
| `SpecStreamInv` | `Spec => []StreamInv` |
| `SpecNothingBelowMinimum` | `Spec => []NothingBelowMinimum` |
| `SpecPassedMeansComplete` | `Spec => []PassedMeansComplete` |
| `SpecBufferBounded` | `Spec => []BufferBounded` |
| `SpecRowsInOrder` | `Spec => RowsInOrder`: `BatchedStream` implements `OrderedStream` |

The argument follows the indexes. What a task knows as the minimum is at most every registered index (`MinimumInv`), a registered index is at
most the batch the task is in (`IndexInv`), and the source never hands out a batch twice. So a new minimum passes no task, and what is in the
buffer below it has been left by its task (`CompletedInv`). The existence of least and greatest elements comes from well-founded
induction on the natural numbers. These are the engine's own assertions: two of them throw `InternalException`s in release builds.
`BufferBounded` counts: a task checks for room in one step and appends in a later one, so that the chunks in the buffer alone are not
bounded by its capacity. What is bounded at every moment are the chunks together with the tasks that have seen room and
not yet used it. It needs finitely many tasks (`TasksAssumption`).

`SpecRowsInOrder` is the refinement: at any moment `delivered` and `read_queue` together are a beginning of the rows of the query, and the end is
reported only when nothing is missing. Its invariant `OrderInv` has four parts on top of `StreamInv`. `TodoInv` says what each task still
has to sink, and that two tasks never share a batch. `RowsInv` gives each row one place, by a count `k` of the
chunks sunk of each batch (`SunkCount`): the batches up to the minimum lie, one after the other, in `delivered \o read_queue`, those above it
in the buffer (`SunkPlace`). So a new minimum only moves whole parts, in their order (`RowsMinimum`), and a chunk goes either behind the queue or
behind its own batch (`RowsAppend`). `EndInv` says that whoever finds no batch in use passes that on before it finishes; without it the tasks could all
end with chunks left in the buffer. `ReaderInv` says that the reader scans only where a chunk is, or at the end. The claim needs a task to
exist: with none, the reader would report the end at once, so `TasksAssumption` asks for one, as every pipeline launches one
(`Pipeline::ScheduleSequentialTask`, `Pipeline::LaunchScanTasks`). The rows are put together by the library's `FlattenSeq`, a recursive function of
which the provers know nothing. That it exists for any number of parts and has one value is shown by the least counterexample (`FlattenFunction`,
`FlattenUnique`); with `FlatStep`, the parts one after the other, `FlatAppend`, `FlatMoved` and `FlatPrefix` follow.

**`RowVersions`** (`RowVersionsProofs`, and `SnapshotProofs` for the last), for any number of transactions and rows and any setups:

| Theorem | States | Assumes besides |
|---|---|---|
| `RecentlyCommittedOrdered` | `Spec => []RecentlyOrdered` | |
| `OneCommitAtATime` | at most one transaction is between its timestamp and its place in the list | |
| `SpecCleanupExact` | `Spec => []CleanupExact` | |
| `SpecCheckpointWritesCommit` | `Spec => [](Sound => CheckpointWritesCommit)` | `Sound`: no commit fails, no `DELETE` names a row twice |
| `SpecSnapshotReads` | `Spec /\ Sound => SnapshotReads`: `RowVersions` implements `SnapshotIsolation` | `Sound` |

`RemoveTransaction` walks the list of recently committed transactions and stops at the first that is still needed, since "any subsequent commit IDs
are also greater". A timestamp is taken in one step and the place in the list in a later one, and a commit through the WAL has let the lock go in
between its start and its timestamp. The invariant says why the order holds nevertheless: from the timestamp to the list the lock is kept
(`Locked`), nobody has a timestamp from the future (`Clocked`) or before its commit (`Unstamped`), who is on the list is over
(`Settled`), and who has a timestamp and is not on the list has the latest (`Latest`).

`CleanupExact` says that clean-up comes neither early nor late. Its invariant `CleanInv` says where each transaction that is over can be:
on the list, in one entry of the queue, or in the hands of the one thread that cleans up. An entry is on the queue only once no running transaction is
as old as it. A transaction that
checkpoints holds the checkpoint lock alone, others that changed something share it, so the list is empty when all are over. And
each `UpdateInfo` that is linked in a chain has its undo entry still to be rolled back or cleaned up (`Leave` and `Unlink` of the module), so that
nothing stays linked when there is nothing left to do. The ids do not run out, by `TxnsAssumption`: the code throws when they do.

`CheckpointWritesCommit` rests on `SoundInv`, which follows a row's insert id from the append to the clean-up. Rows are appended in one block
by each transaction, and row groups begin where blocks do (`AppendInv`). The rows of a commit carry its id from `CommitEntry` on, and the
transaction's until then (`PendingInv`); all others are no younger than the last commit (`RowInv`). When a checkpoint starts, no row is
pending, because who has appended holds either the WAL lock or the checkpoint lock (`WalInv`), and no version in a chain is newer (`LinkInv`
and the sharing of the checkpoint lock), so that the newest values are those of the commit. Beside it, the first append starts a row group and the others
go on in it or behind it (`GroupInv`): `RequiresNewRowGroup` recognises a checkpoint by its commit, which is enough because whoever
checkpoints has committed since the last one (`SeenInv`). The hard part is the clean-up: `CleanupAppend` takes the ids of a whole vector away, which makes its
rows visible to everybody. `Compressible` does not look at the id of the first row; what keeps that from a row the
checkpoint must not see is that all rows in front of a transaction's last were there when the transaction committed (`Full`), or, while it is not over,
that a transaction about to commit them is still active and holds the clean-up back (`BehindInv`), and that whatever is in the queue has committed
before the checkpoint's start (`RipeInv`). Deletes have marks of their own (`DeleteInv`): nobody takes back the mark of another.

`SpecSnapshotReads` is the refinement. What a reader gets is computed from the insert and delete ids of a row, the `UpdateInfo`s of its vector and the
value in the base, all of which other transactions and clean-up change under it. A reader is given by its start and its own id, the committed table
by the clock. The centre of the proof has nothing to do with who acts: a step of `t` leaves a reader every row and value it reads if the reader
sees nothing that `t` has still to decide, and all of what `t` cleans up (`Apart`). The other transactions that run are such
readers, since the ids of who is undecided are not below their start; so is who reads the committed table while `t` is undecided. What is
left is what a step makes of `t` itself, and of the committed table at the end of a commit: one lemma per action of `SnapshotIsolation`
(`StartStep` to `CommitStep`, `EndStep`), and one for the steps that are stutters (`StutterStep`).

`SnapshotInv` says what the versions are like meanwhile. What is marked as deleted is a row of a commit that is over, and the mark is that
of another such commit or of one undecided transaction (`MarkInv`, `StampedMarksInv`). Of the `UpdateInfo`s that have a row, that of who is undecided comes
first, and the base has its value (`RowOrderInv`, `NewestInv`); those in front of it are newer than its start (`FrontInv`); rows that are
appended and not yet committed have the value of who appends them (`PendingValueInv`). Whatever awaits clean-up is seen by all who run (`ReadersInv`). It needs
the invariants of the theorems above: an `UpdateInfo` is unlinked only when all who run see its commit (`CleanInv`), and
the ids of a whole vector are taken away only when all see its rows (`SoundInv`). The value a reader takes is the old one of the last `UpdateInfo` that applies,
or that of the base (`ReadingLast`, `ReadingBase`), and stays the same as long as those that apply keep their order (`ReadingMoves`), whatever
is linked, stamped or unlinked around them. `AbsentAssumption`, that the value which stands for a missing row is none that is written, is
assumed besides those of the other theorems; it is about the mapping, not the code.

`Sound` is needed, for both. Where a commit fails, the roll-back cuts off rows that others have appended (the disagreement `lost_append` of section 11),
and the clean-up of those takes the ids of the rows that came in their place; with four transactions TLC finds a checkpoint that
a later commit gets into that way. Where a `DELETE` names a row twice, its roll-back may take back the mark of another, committed
one (`lost_delete`), which the checkpoint has to write; two transactions on two loaded rows do. The regular run `isolation` has failing commits and
checkpoints at once, and repeated rows, only with a single transaction.

**`AppenderRows`** (`AppenderRowsProofs`), for any columns that satisfy `RowsAssumption`, any capacity
of a chunk and any number of rows and failures:

| Theorem | States | Assumes besides |
|---|---|---|
| `RowsStoredOnce` | `Spec => []EachRowOnce` | |
| `FailuresLoseNothing` | `Spec => []NoneLost` | |
| `CloseStoresRows` | `Spec => CloseStores` | only the owner closes |
| `RowsCanEnd` | `Spec => []CompletedRowCanEnd` | |
| `ColumnsWrittenOnce` | `Spec => NoOverwrite` | `appendDefault()` for top-level columns only |
| `TraversedRowsAreWhole` | `Spec => []RowWhole` | `appendDefault()` for top-level columns with a constant default only |

The assumptions in the last column are those of the run `rows`; section 11 says what happens without the second. The rows: a step
either moves all of them to the next place or fails and leaves them where they were, so `EachRowOnce` and `NoneLost` are inductive together
with the types. The cursor: `Ahead(c)` is what is within `c`, or comes after it on some level that is not a union. `AheadOfNext`,
`AheadOfField` and `AheadOfMember` say how it shrinks as the cursor moves on, down into a struct and down into a union, by comparing paths
index by index; from that, what is ahead of the cursor is unset (`AheadUnset`, so nothing is written twice), and what must be set and is
not is ahead of it (`BehindSet`, so nothing is forgotten). `AtEnd` says that the cursor leaves the row only when no level above the last column goes
on, which is what `rowCompletedInvariant` compares with the number of columns (`TopLevelCount`).

**`Durability`** (`DurabilityProofs`), for any number of transactions, crashes and checkpoints, any setups and any root blocks:

| Theorem | States | Assumes besides |
|---|---|---|
| `RolledBackStaysAway` | `Spec => []AbortedStaysAborted` | |
| `ReportedStays` | `Spec => []NothingLost` | no setup is `concurrent` |
| `FilesKeepCommits` | `Spec => CommitsAreDurable` | no setup is `concurrent` |
| `EachCommitOnce` | `Spec => []AppliedOnce` | no setup is `concurrent` |
| `CommitsInOrder` | `Spec => []InCommitOrder` | no setup is `concurrent` |
| `SerialDatabasesOpen` | `Spec => []SerialAlwaysOpens` | |

With `concurrent`, `ReportedStays`, `FilesKeepCommits` and `EachCommitOnce` are false from the third crash on (`lost_commit` and `twice`, section 11); the crashes of the theorems have no bound. First
come lemmas about the reading of a log, whose operators are defined with `Min`, `Max` and cardinalities: what is `Read`, which flush
and which marker is the last, and that `Replayed` has exactly the data entries in front of a flush (`ReplayedIs`). A roll-back
(`AbsentInv`): who has not begun to commit or was rolled back is in no block and in no log; who is writing is in the open log only, behind the size
that the truncation of `RevertCommit` goes back to. That no other commit is behind that size is the WAL lock's doing (`ControlInv`).

A serial commit (`SafeInv`): the main log is committed up to what a crash keeps of it and has no marker of the file there (`OpenLogInv`, `Settled`).
A marker of the file appears when `WriteHeader` makes the planned root block the file's: then it is the last one in the log, and the
blocks have everything the log has (`MarkerInv`), so that recovery may drop the log. Two markers always have a flush in between
(`FlushesBetween`), so a checkpoint that found nothing committed in the log leaves at most one marker in it. What was reported is in the
blocks or in the synced part of the log, what is there is in memory, and a checkpoint writes what is in memory (`DurableInv`). Each lemma about a step
also shows that it takes nothing from what would survive a crash now (`Stays`); with `DurableIs`, which says that this is the set the
refinement mapping computes from the files, that is the refinement.

Once and in order (`OnceInv`): a commit enters `history` once (`HistoryInv`), and memory, the blocks and the log each list
commits in the order of `history` (`OrderInv`). What recovery applies is the blocks followed by the log. That neither repeats nor precedes a commit of
the blocks is the marker's doing again: a log with the file's marker is not read, and in one without it everything committed is younger than the blocks.

Opening (`OpensInv`; `SerialAlwaysOpens` itself speaks of the setups without overlap only): unless it is torn, a log's first entry names the iteration
of the file, or one behind it, and then the file's marker is the last entry (`IterationInv`, `NameInv`). So the check of the version entry never throws,
and never takes one log for that of another checkpoint.

All inductive invariants were model-checked before they were proved.

**Only model-checked:** the liveness properties, as the prover handles neither fairness nor `ENABLED`; `SnapshotReads` for setups that are not `Sound`, where the run `isolation`
keeps apart what breaks it together (two writers with commits that fail but no checkpoints, repeated rows with a single transaction); and of `Durability`, `NothingLost`, `AppliedOnce`,
`InCommitOrder` and `CommitsAreDurable` for commits that overlap checkpoints, where they hold for two crashes only. Where a type invariant is proved, it is not
repeated in every run.

## 11. Disagreements found

The regular run that TLC refutes; `PROJECT.json` quotes the comment that says otherwise.

| Run | What the code does |
|---|---|
| `torn_log` | A commit that overlaps a checkpoint creates the checkpoint's log through a buffered writer. After a crash before its first sync and before the checkpoint's header, recovery merges the two logs and reads the version entry of the second outside of any handler: the database does not open any more, although no acknowledged commit is missing. |

Further configurations, which are not part of the regular runs. TLC refutes the property of each:

| Configuration | Property | What the code does |
|---|---|---|
| `MCLifecycle_deadlock_reexecute.cfg` | `NoDeadlock` | A plain statement stays tracked after its first execution. Executed again, it waits for `connRefLock` inside `executeDirect()` while it holds `stmtRefLock`; `conn.close()` holds the former and waits for the latter. The first execution is safe (run `single`) because the statement is not tracked yet. With auto-commit off, the nested `BEGIN` of a prepared statement closes the same cycle. |
| `MCLifecycle_lost_result.cfg` | `NoResultIsLost` | `getResultSet()` reads `selectResult` and nulls it without a lock (`DuckDBPreparedStatement.java:579-580`). In between, an execution on another thread closes the old result and stores its own, which the null overwrites: the new result is alive, nobody refers to it, and `conn.close()` disconnects without having freed it. Without a query that runs in between the two steps are harmless (theorem `ResultsAreTaken`). |
| `MCLifecycle_lost_interrupt.cfg` | `CloseReturns` | `conn.close()` interrupts once; a prepared execution that enters the engine after that clears the flag, and `close()` waits as long as the query runs. |
| `MCLifecycle_cancel_other.cfg` | `CancelsOnlySelf` | `cancel()` takes a held `stmtRefLock` as proof that its own query runs; the holder may still be waiting for the engine, and the interrupt hits the query of another statement. |
| `MCLifecycle_deadlock_appender.cfg` | `NoDeadlock` | `Appender.close()` reads `closing`, then waits for `connRefLock` holding `appenderRefLock`; `conn.close()` sets `closing` in between. |
| `MCLifecycle_leaks.cfg`, with `-continue` | `PendingQueriesUntracked` | A plain query that fails leaves its pending query tracked and alive until the connection is closed. |
| `MCLifecycle_leaks.cfg` | `AppendersAutoClosed` | `createAppender()` tracks the appender after releasing `connRefLock`; a `conn.close()` in between misses it. |
| `MCTransactions_commit_failure.cfg` | `ManualCommitOnly` | A COMMIT that fails in the engine leaves `transactionRunning` raised: later statements auto-commit with auto-commit off, and `rollback()` throws. |
| `MCTransactions_batch_failure.cfg` | `BatchAtomic` | When the COMMIT of a batch fails, the handler's `rollback()` throws and the flag stays raised; the next batch in auto-commit mode starts no transaction and is not atomic. |
| `MCTransactions_race.cfg` | `ManualCommitOnly` | The flag is raised before BEGIN runs: another thread's statement that the engine executes in between is committed at once. |
| `MCAppenderRows_close_row.cfg` | `ClosedMeansStored` | `close()` in the middle of a row suppresses the error that `flush()` throws because of it: the complete rows in the chunk are dropped without a word. |
| `MCAppenderRows_default.cfg` | `NoOverwrite` | `appendDefault()` of a field passes its index within the struct to a native call that expects the index of a top-level column, and writes the default of that one. |
| `MCDurability_merge.cfg` | `IntactLogsMerge` | With a storage version of 67 or higher, the log of a checkpoint is written for the next iteration. If the checkpoint did not complete, the merge compares it with the iteration of the old header and refuses it: the database does not open, although both logs are whole. |
| `MCDurability_lost_commit.cfg` | `NothingLost` | Three crashes: a marker that an interrupted checkpoint left in the main log stays there after recovery, and commits are appended behind it. When a later merge copies the main log only up to its marker, they are gone. |
| `MCDurability_twice.cfg` | `AppliedOnce` | Three crashes: after the merged log was moved into place, a crash leaves the old log of the checkpoint. The next checkpoint flushes its marker before it removes that file; a crash in between makes recovery merge it again. |
| `MCInstanceCache_pinned.cfg` | `PinnedAccessible` | A thread that found the entry of a database being closed waits for its end and then erases whatever entry the cache has under the name by now. If that is a new, pinned database, the next `connect` does not find it and fails with a file handle conflict; `holders.hpp:13` says a pin keeps the database "accessible from DB cache". |
| `MCInstanceCache_conflict.cfg` | `ReturnsOrCreates` | The erased entry of the previous line, without a pin: the next `connect` creates a second database for the file and fails. |
| `MCInstanceCache_session_init.cfg` | `InitRunHere` | The session init file runs once per name for the life of the process: a named in-memory database that was closed and opened again is not initialised. |
| `MCRowVersions_lost_append.cfg` | `SnapshotReads` | A commit that writes the WAL appends its rows and lets the lock on the transactions go (`duck_transaction_manager.cpp:307`). A transaction that only inserts does not share the checkpoint lock, so another one may now commit by a checkpoint, and append its rows behind. If the first then fails, `RevertAppendInternal` cuts the table off where the first one's rows began: the committed rows go with them. |
| `MCRowVersions_lost_delete.cfg` | `SnapshotReads` | A `DELETE` that meets a row deleted by somebody else unsets all rows before it in the chunk, to "unset any deleted tuples we set in this loop" (`chunk_info.cpp:367`). With a `USING` clause that names a row in two chunks, that includes a row the transaction had deleted, and recorded, earlier. Until its roll-back another transaction may delete the row and commit; the roll-back then resets the mark of that one, and the row is back. |
| `MCBatchedStream_buffer_size.cfg` | `WithinBufferSize` | A chunk that becomes part of the minimum batch moves to the read queue whatever its size, so that the memory held is not bounded by `streaming_buffer_size`. |

## 12. Not modelled

* The locks of `executeBatch()`, the layout of appended values, the timer's schedule: planned, section 2.
* Value conversion (`DuckDBVector`, `DuckDBTimestamp`, `DuckDBHugeInt`): pure functions over large domains that
  unit tests cover.
* Metadata: SQL text and column descriptions without state.
* Arrow import and export: ownership is passed to a foreign library. `arrowExportStream()` uses `resultRef` without its lock, which no property covers.
* Failures of `duckdb_jdbc_prepared_statement_meta()` and `duckdb_jdbc_query_result_meta()` (section 3).
* An operator that throws between `NextBatch` and `Sink` (`pipeline_executor.cpp`): `BatchedStream` has errors at the ends of a task's loop only.
* A torn WAL entry whose size is there but whose checksum does not match. The replay throws an `IOException` for it
  (`wal_replay.cpp:104`) and the database does not open; `Durability` takes a torn entry as one that ends early, a
  serialization exception, which the replay ignores (`wal_replay.cpp:333`).
* The generated JNI bindings: one-line forwarding.
* Streaming results without an order (`SimpleBufferedData`): one queue and no batches, a part of what `BatchedStream` does.
* Of transactions: indexes and their deltas during a checkpoint, catalog entries, sequences, in-memory and attached databases, an explicit
  `CHECKPOINT`, row groups that fill up, vacuum, and failures inside a checkpoint (those are in `Durability`).
* The block manager's free list, the buffer pool, partial blocks and the content of a checkpoint: `Durability` takes the blocks
  as written before the header.
* Parser, planner, optimizer, operators, functions, types and casts: what a query computes. Sequential and by far the largest part
  of the source tree.
* The vendored libraries of the engine (jemalloc, zstd, ICU, ...): third-party code.
