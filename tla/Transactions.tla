---------------------------- MODULE Transactions ----------------------------
(***************************************************************************)
(* How the driver runs transactions.  The engine's own auto-commit mode is *)
(* always on; with JDBC auto-commit off, execute() and prepare() run BEGIN *)
(* TRANSACTION first unless the connection's transactionRunning flag says  *)
(* that a transaction is open.  commit(), rollback() and setAutoCommit()   *)
(* run COMMIT or ROLLBACK through a Statement and then lower the flag, and *)
(* a batch runs in a transaction of its own.  The flag is a volatile field *)
(* that statements of several threads test and set without a lock.         *)
(*                                                                         *)
(* Locks, results and closing are the subject of ConnectionLifecycle; here *)
(* the connection stays open and every thread uses statements of its own.  *)
(***************************************************************************)
EXTENDS Integers

CONSTANTS
  Threads,        \* application threads
  MayCall,        \* the API calls and SQL statements each thread makes
  Faults,         \* which engine calls may fail although their state allows them
  MaxWrites,      \* bound: writes executed
  MaxBatch        \* bound: statements or parameter sets in a batch

\* What execute() may be asked to run: an update or a transaction statement.
Statements == { "write", "BEGIN", "COMMIT", "ROLLBACK" }
Calls == Statements \cup { "prepare", "commit", "rollback", "setAutoCommit", "batch" }

ASSUME TransactionsAssumption ==
  /\ Threads # {}
  /\ MayCall \in [Threads -> SUBSET Calls]
  /\ Faults \subseteq {"begin", "commit"}
  /\ MaxWrites \in Nat /\ MaxBatch \in Nat

VARIABLES
  \* DuckDBConnection
  autoCommit, transactionRunning,
  \* the engine's TransactionContext
  engineTx,       \* "none" (its own auto-commit), "active" or "invalid"
  uncommitted, committed,   \* writes, by number
  issued,         \* the number of writes executed so far
  \* the threads
  pc,
  sql,            \* what the current execute() runs
  caller,         \* who called it
  begins,         \* nested BEGIN statements not run yet
  batch, batchAuto,   \* the writes of the last batch, and the mode it started in
  left, tranStarted   \* local variables of executeBatch()

connVars == << autoCommit, transactionRunning >>
engineVars == << engineTx, uncommitted, committed, issued >>
batchVars == << batch, batchAuto, left, tranStarted >>
vars == << connVars, engineVars, pc, sql, caller, begins, batchVars >>

Labels == { "idle", "check", "mark", "begin", "run", "clear", "switched",
            "batchStart", "batchStarted", "batchNext", "batchCatch" }

\* Who runs a statement: the application, commit() or rollback(), or a batch
\* that starts its transaction, runs an item or commits.
Callers == { "application", "end", "batchBegin", "batchItem", "batchCommit" }

\* Where the caller goes on when execute() returns, and when it throws.
OnReturn(t) ==
  CASE caller[t] = "application" -> "idle"
    [] caller[t] \in {"end", "batchCommit"} -> "clear"
    [] caller[t] = "batchBegin" -> "batchStarted"
    [] caller[t] = "batchItem" -> "batchNext"

\* Faulty variant of OnThrow: commit() and rollback() lower the flag in a
\* finally block, whatever threw.
OnThrowFinally(t) == IF caller[t] \in {"batchBegin", "batchItem", "batchCommit"}
                     THEN "batchCatch"
                     ELSE IF caller[t] = "end" THEN "clear" ELSE "idle"

OnThrow(t) == IF caller[t] \in {"batchBegin", "batchItem", "batchCommit"}
              THEN "batchCatch" ELSE "idle"

Goto(t, label) == pc' = [pc EXCEPT ![t] = label]

Init ==
  /\ autoCommit \in BOOLEAN /\ transactionRunning = FALSE
  /\ engineTx = "none" /\ uncommitted = {} /\ committed = {} /\ issued = 0
  /\ pc = [t \in Threads |-> "idle"]
  /\ sql = [t \in Threads |-> "none"]
  /\ caller = [t \in Threads |-> "application"]
  /\ begins = [t \in Threads |-> 0]
  /\ batch = [t \in Threads |-> {}] /\ batchAuto = [t \in Threads |-> FALSE]
  /\ left = [t \in Threads |-> 0] /\ tranStarted = [t \in Threads |-> FALSE]

-----------------------------------------------------------------------------
(***************************************************************************)
(* Calls by the application.                                               *)
(***************************************************************************)
\* Thread t makes call c, in which up to n writes are executed.
Starts(t, c, n) == pc[t] = "idle" /\ c \in MayCall[t] /\ issued + n <= MaxWrites

\* Thread t runs statement q on behalf of who.
Executes(t, q, who) ==
  /\ sql' = [sql EXCEPT ![t] = q]
  /\ caller' = [caller EXCEPT ![t] = who]
  /\ Goto(t, "check")

\* Statement.execute(q), or prepareStatement(), which starts a transaction too.
StartExecute(t, q) ==
  /\ Starts(t, q, IF q = "write" THEN 1 ELSE 0)
  /\ Executes(t, q, "application")
  /\ UNCHANGED << connVars, engineVars, begins, batchVars >>

\* Connection.commit() and Connection.rollback()
StartCommit(t) ==
  /\ Starts(t, "commit", 0)
  /\ Executes(t, "COMMIT", "end")
  /\ UNCHANGED << connVars, engineVars, begins, batchVars >>

StartRollback(t) ==
  /\ Starts(t, "rollback", 0)
  /\ Executes(t, "ROLLBACK", "end")
  /\ UNCHANGED << connVars, engineVars, begins, batchVars >>

\* Connection.setAutoCommit(b) with a new value b.
StartSetAutoCommit(t) ==
  /\ Starts(t, "setAutoCommit", 0)
  /\ autoCommit' = ~autoCommit
  /\ Goto(t, IF autoCommit' THEN "switched" ELSE "idle")
  /\ UNCHANGED << transactionRunning, engineVars, sql, caller, begins, batchVars >>

\* Faulty variant of Switched: the running transaction is left alone.
SwitchedOnly(t) ==
  /\ pc[t] = "switched"
  /\ Goto(t, "idle")
  /\ UNCHANGED << connVars, engineVars, sql, caller, begins, batchVars >>

\* A running transaction is committed when auto-commit has been switched on.
Switched(t) ==
  /\ pc[t] = "switched"
  /\ \/ transactionRunning /\ Executes(t, "COMMIT", "end")
     \/ ~transactionRunning /\ Goto(t, "idle") /\ UNCHANGED << sql, caller >>
  /\ UNCHANGED << connVars, engineVars, begins, batchVars >>

-----------------------------------------------------------------------------
(***************************************************************************)
(* execute(), and startTransaction() with its nested BEGIN.                *)
(***************************************************************************)
\* Faulty variant of Check: the flag alone decides, and it is never raised.
CheckNothing(t) ==
  /\ pc[t] = "check"
  /\ Goto(t, IF begins[t] > 0 THEN "begin" ELSE "run")
  /\ UNCHANGED << connVars, engineVars, sql, caller, begins, batchVars >>

\* A transaction is started if auto-commit is off and none is running.  The
\* nested statement that runs BEGIN goes through execute() and comes here too.
Check(t) ==
  /\ pc[t] = "check"
  /\ Goto(t, CASE ~autoCommit /\ ~transactionRunning -> "mark"
               [] (autoCommit \/ transactionRunning) /\ begins[t] > 0 -> "begin"
               [] (autoCommit \/ transactionRunning) /\ begins[t] = 0 -> "run")
  /\ UNCHANGED << connVars, engineVars, sql, caller, begins, batchVars >>

\* The flag is raised before BEGIN is executed.
Mark(t) ==
  /\ pc[t] = "mark"
  /\ transactionRunning' = TRUE
  /\ begins' = [begins EXCEPT ![t] = @ + 1]
  /\ Goto(t, "check")
  /\ UNCHANGED << autoCommit, engineVars, sql, caller, batchVars >>

\* The nested BEGIN.  An exception leaves all callers of execute() up to the
\* API call or the batch; the flag stays raised.
BeginReturns(t) ==
  /\ pc[t] = "begin"
  /\ engineTx = "none" /\ engineTx' = "active"
  /\ begins' = [begins EXCEPT ![t] = @ - 1]
  /\ Goto(t, CASE begins'[t] > 0 -> "begin"
               [] begins'[t] = 0 /\ caller[t] = "batchBegin" -> OnReturn(t)
               [] begins'[t] = 0 /\ caller[t] # "batchBegin" -> "run")
  /\ UNCHANGED << connVars, uncommitted, committed, issued, sql, caller, batchVars >>

BeginThrows(t) ==
  /\ pc[t] = "begin"
  /\ engineTx # "none" \/ "begin" \in Faults
  /\ engineTx' = IF engineTx = "none" THEN "none" ELSE "invalid"
  /\ begins' = [begins EXCEPT ![t] = 0]
  /\ Goto(t, OnThrow(t))
  /\ UNCHANGED << connVars, uncommitted, committed, issued, sql, caller, batchVars >>

\* The engine runs a write: durable at once, or in the open transaction.
NewWrite(t) ==
  /\ issued < MaxWrites /\ issued' = issued + 1
  /\ batch' = [batch EXCEPT ![t] = IF caller[t] = "batchItem" THEN @ \cup {issued'} ELSE @]

WriteReturns(t) ==
  /\ pc[t] = "run" /\ sql[t] = "write"
  /\ NewWrite(t)
  /\ \/ /\ engineTx = "none"
        /\ committed' = committed \cup {issued'} /\ UNCHANGED uncommitted
     \/ /\ engineTx = "active"
        /\ uncommitted' = uncommitted \cup {issued'} /\ UNCHANGED committed
  /\ Goto(t, OnReturn(t))
  /\ UNCHANGED << connVars, engineTx, sql, caller, begins, batchAuto, left, tranStarted >>

\* A failed write undoes itself.  Most errors invalidate the open transaction;
\* binder, catalog and parser errors, for example, do not.
WriteThrows(t) ==
  /\ pc[t] = "run" /\ sql[t] = "write"
  /\ NewWrite(t)
  /\ engineTx' \in {engineTx} \cup {e \in {"invalid"} : engineTx = "active"}
  /\ Goto(t, OnThrow(t))
  /\ UNCHANGED << connVars, uncommitted, committed, sql, caller, begins,
       batchAuto, left, tranStarted >>

\* duckdb_jdbc_prepare() reads only; it may fail and invalidate the transaction.
Prepares(t) ==
  /\ pc[t] = "run" /\ sql[t] = "prepare"
  /\ engineTx' \in {engineTx} \cup {e \in {"invalid"} : engineTx = "active"}
  /\ Goto(t, "idle")
  /\ UNCHANGED << connVars, uncommitted, committed, issued, sql, caller, begins,
       batchVars >>

\* BEGIN from the application: outside a transaction it opens one.
SqlBegin(t) ==
  /\ pc[t] = "run" /\ sql[t] = "BEGIN"
  /\ engineTx' = IF engineTx = "none" THEN "active" ELSE "invalid"
  /\ Goto(t, "idle")
  /\ UNCHANGED << connVars, uncommitted, committed, issued, sql, caller, begins,
       batchVars >>

\* COMMIT ends the transaction; one that is invalid is rolled back silently.
CommitReturns(t) ==
  /\ pc[t] = "run" /\ sql[t] = "COMMIT"
  /\ engineTx # "none" /\ engineTx' = "none"
  /\ committed' = IF engineTx = "active" THEN committed \cup uncommitted ELSE committed
  /\ uncommitted' = {}
  /\ Goto(t, OnReturn(t))
  /\ UNCHANGED << connVars, issued, sql, caller, begins, batchVars >>

\* COMMIT throws if no transaction is active.  A commit that fails in the
\* storage (a conflict found at commit, an I/O error) ends the transaction too.
CommitThrows(t) ==
  /\ pc[t] = "run" /\ sql[t] = "COMMIT"
  /\ \/ engineTx = "none"
     \/ engineTx = "active" /\ uncommitted # {} /\ "commit" \in Faults
  /\ engineTx' = "none" /\ uncommitted' = {}
  /\ Goto(t, OnThrow(t))
  /\ UNCHANGED << connVars, committed, issued, sql, caller, begins, batchVars >>

\* ROLLBACK ends the transaction, or throws if none is active.
RollsBack(t) ==
  /\ pc[t] = "run" /\ sql[t] = "ROLLBACK"
  /\ engineTx' = "none" /\ uncommitted' = {}
  /\ Goto(t, IF engineTx = "none" THEN OnThrow(t) ELSE OnReturn(t))
  /\ UNCHANGED << connVars, committed, issued, sql, caller, begins, batchVars >>

\* Faulty variant of Clear: commit() and rollback() leave the flag raised.
ClearForgotten(t) ==
  /\ pc[t] = "clear"
  /\ Goto(t, "idle")
  /\ UNCHANGED << connVars, engineVars, sql, caller, begins, batchVars >>

\* The flag is lowered after COMMIT or ROLLBACK has returned.
Clear(t) ==
  /\ pc[t] = "clear"
  /\ transactionRunning' = FALSE
  /\ Goto(t, "idle")
  /\ UNCHANGED << autoCommit, engineVars, sql, caller, begins, batchVars >>

-----------------------------------------------------------------------------
(***************************************************************************)
(* executeBatch() of a plain or prepared statement.                        *)
(***************************************************************************)
StartBatch(t, n) ==
  /\ Starts(t, "batch", n)
  /\ left' = [left EXCEPT ![t] = n]
  /\ tranStarted' = [tranStarted EXCEPT ![t] = FALSE]
  /\ batch' = [batch EXCEPT ![t] = {}]
  /\ batchAuto' = [batchAuto EXCEPT ![t] = autoCommit]
  /\ Goto(t, "batchStart")
  /\ UNCHANGED << connVars, engineVars, sql, caller, begins >>

\* Faulty variant of BatchStart: no transaction is started.
BatchStartWithout(t) ==
  /\ pc[t] = "batchStart"
  /\ Goto(t, "batchNext")
  /\ UNCHANGED << connVars, engineVars, sql, caller, begins, batchVars >>

\* startTransaction(), whatever the mode.
BatchStart(t) ==
  /\ pc[t] = "batchStart"
  /\ \/ transactionRunning /\ Goto(t, "batchNext") /\ UNCHANGED caller
     \/ ~transactionRunning /\ Goto(t, "mark")
        /\ caller' = [caller EXCEPT ![t] = "batchBegin"]
  /\ UNCHANGED << connVars, engineVars, sql, begins, batchVars >>

BatchStarted(t) ==
  /\ pc[t] = "batchStarted"
  /\ tranStarted' = [tranStarted EXCEPT ![t] = TRUE]
  /\ Goto(t, "batchNext")
  /\ UNCHANGED << connVars, engineVars, sql, caller, begins, batch, batchAuto, left >>

\* The next item, or the commit of a transaction the batch has started itself.
BatchNext(t) ==
  /\ pc[t] = "batchNext"
  /\ \/ /\ left[t] > 0
        /\ left' = [left EXCEPT ![t] = @ - 1]
        /\ Executes(t, "write", "batchItem")
     \/ /\ left[t] = 0 /\ tranStarted[t] /\ autoCommit
        /\ Executes(t, "COMMIT", "batchCommit") /\ UNCHANGED left
     \/ /\ left[t] = 0 /\ ~(tranStarted[t] /\ autoCommit)
        /\ Goto(t, "idle") /\ UNCHANGED << sql, caller, left >>
  /\ UNCHANGED << connVars, engineVars, begins, batch, batchAuto, tranStarted >>

BatchCatch(t) ==
  /\ pc[t] = "batchCatch"
  /\ \/ tranStarted[t] /\ autoCommit /\ Executes(t, "ROLLBACK", "end")
     \/ ~(tranStarted[t] /\ autoCommit) /\ Goto(t, "idle") /\ UNCHANGED << sql, caller >>
  /\ UNCHANGED << connVars, engineVars, begins, batchVars >>

-----------------------------------------------------------------------------
Start(t) ==
  \/ \E q \in Statements \cup {"prepare"} : StartExecute(t, q)
  \/ StartCommit(t) \/ StartRollback(t) \/ StartSetAutoCommit(t)
  \/ \E n \in 1 .. MaxBatch : StartBatch(t, n)

DriverStep(t) ==
  \/ Switched(t) \/ Check(t) \/ Mark(t) \/ Clear(t)
  \/ BatchStart(t) \/ BatchStarted(t) \/ BatchNext(t) \/ BatchCatch(t)

EngineStep(t) ==
  \/ BeginReturns(t) \/ BeginThrows(t)
  \/ WriteReturns(t) \/ WriteThrows(t) \/ Prepares(t)
  \/ SqlBegin(t) \/ CommitReturns(t) \/ CommitThrows(t) \/ RollsBack(t)

Quiescent == (\A t \in Threads : pc[t] = "idle") /\ UNCHANGED vars

Next == (\E t \in Threads : Start(t) \/ DriverStep(t) \/ EngineStep(t)) \/ Quiescent

Spec == Init /\ [][Next]_vars

-----------------------------------------------------------------------------
(***************************************************************************)
(* Properties.                                                             *)
(***************************************************************************)
\* One thread, which leaves transactions to the JDBC interface, on an engine
\* that never fails to begin or commit.
Disciplined ==
  /\ \A t, u \in Threads : t = u
  /\ Faults = {}
  /\ \A t \in Threads : MayCall[t] \cap {"BEGIN", "COMMIT", "ROLLBACK"} = {}

\* Every variable has its type; a BEGIN is outstanding where one is
\* about to be run, and none when execute() has got past it.
TypeOK ==
  /\ autoCommit \in BOOLEAN /\ transactionRunning \in BOOLEAN
  /\ engineTx \in {"none", "active", "invalid"}
  /\ issued \in 0 .. MaxWrites
  /\ committed \subseteq 1 .. issued /\ uncommitted \subseteq 1 .. issued
  /\ pc \in [Threads -> Labels]
  /\ sql \in [Threads -> Statements \cup {"none", "prepare"}]
  /\ caller \in [Threads -> Callers]
  /\ begins \in [Threads -> Nat]
  /\ batch \in [Threads -> SUBSET (1 .. issued)]
  /\ batchAuto \in [Threads -> BOOLEAN] /\ tranStarted \in [Threads -> BOOLEAN]
  /\ left \in [Threads -> Nat]
  /\ \A t \in Threads : /\ pc[t] \notin {"check", "mark", "begin"} => begins[t] = 0
                        /\ pc[t] = "begin" => begins[t] > 0

Idle == \A t \in Threads : pc[t] = "idle"

\* Between calls the driver's flag says what the engine says.
FlagAgrees == Idle => (transactionRunning <=> engineTx # "none")

\* Between calls in auto-commit mode no write is left uncommitted, whatever the
\* mode was before and however the calls before ended.
NothingLingers == Idle /\ autoCommit => uncommitted = {}

\* A batch that was started in auto-commit mode becomes durable as a whole or
\* not at all, whichever of its statements fails.
BatchAtomic ==
  \A t \in Threads :
    pc[t] = "idle" /\ batchAuto[t]
      => batch[t] \subseteq committed \/ batch[t] \cap committed = {}

\* When commit() or rollback() has succeeded and lowers the flag, the engine has
\* no transaction: whatever was done before with SQL statements, and whichever
\* call failed, flag and engine agree again.
EndedMeansEnded == \A t \in Threads : pc[t] = "clear" => engineTx = "none"

\* With auto-commit off, writes become durable only when COMMIT is executed:
\* until then rollback() reverts them.
ManualCommitOnly ==
  [][~autoCommit /\ committed' # committed
       => \E t \in Threads : pc[t] = "run" /\ sql[t] = "COMMIT"]_vars

\* The driver keeps the promises of a JDBC connection.
Jdbc == INSTANCE JdbcTransactions WITH Writes <- 1 .. MaxWrites
KeepsJdbcPromise == Jdbc!Spec
=============================================================================
