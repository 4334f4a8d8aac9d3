------------------------- MODULE ConnectionLifecycle -------------------------
(***************************************************************************)
(* One JDBC connection and the objects it hands out - statements, result   *)
(* sets, pending queries and appenders - used and closed by concurrent     *)
(* application threads.  Every Java object guards its native handle with a *)
(* ReentrantLock of its own (connRefLock, stmtRefLock, resultRefLock,      *)
(* pendingRefLock, appenderRefLock) and the connection tracks its children *)
(* so that Connection.close() can release them before disconnecting.       *)
(*                                                                         *)
(* A thread's program counter names the place in the driver where it is    *)
(* about to take a lock, to read a field that another thread may write, or *)
(* is inside a native call.  A critical section in which nothing can block *)
(* is one step.  Reentrant acquisition of a lock the thread already holds  *)
(* is a no-op, so a lock is represented by its owner.                      *)
(***************************************************************************)
EXTENDS Naturals, FiniteSets

CONSTANTS
  Threads,        \* application threads (the driver's timer thread is one)
  Stmts,          \* statement objects
  Prepared,       \* those created by prepareStatement()
  AlreadyPrepared, \* the prepared statements that exist in the initial state
  Results,        \* identities for the result sets executions create
  ResultStmt,     \* the statement each result set belongs to
  Appenders,      \* appender objects
  MayCall,        \* the API calls each thread makes in a scenario
  AutoCommit,     \* the connection's autoCommit flag
  MaxOps,         \* bound: API calls per thread
  NoThread,       \* owner of a free lock
  NoResult        \* selectResult == null

\* The public operations of the driver that the model covers.
Calls == { "execute", "prepare", "closeStmt", "getResultSet", "closeOnCompletion",
           "cancel", "next", "closeResult", "closeConn", "connCall",
           "newAppender", "flush", "closeAppender" }

ASSUME ConstantsAssumption ==
  /\ Prepared \subseteq Stmts /\ AlreadyPrepared \subseteq Prepared
  /\ ResultStmt \in [Results -> Stmts]
  /\ MayCall \in [Threads -> SUBSET Calls]
  /\ AutoCommit \in BOOLEAN
  /\ MaxOps \in Nat
  /\ Stmts # {} /\ Results # {} /\ Appenders # {}
  /\ NoThread \notin Threads
  /\ NoResult \notin Results

VARIABLES
  \* DuckDBConnection
  connRef,        \* connRef != null, the native ConnectionHolder is alive
  closing,        \* the volatile closing flag
  transactionRunning,
  connRefLock,
  preparedStatements, pendingQueries, appenders,   \* tracked children
  \* the native ClientContext of the connection
  contextLock,    \* held by the thread whose query is running
  interrupted,
  \* DuckDBPreparedStatement
  stmtConn,       \* conn != null, the statement is not closed
  stmtRef,        \* stmtRef != null, the native StatementHolder is alive
  stmtRefLock, query, selectResult, closeOnCompletion,
  \* DuckDBResultSet
  resultRef, resultRefLock,
  detached,       \* results the application took over with getResultSet()
  overwritten,    \* results whose only reference getResultSet() set to null (history)
  \* DuckDBPendingQuery, one at a time per executing thread
  pendingRef, pendingRefLock,
  orphans,        \* live pending queries that only the connection refers to
  \* DuckDBAppender
  appenderRef, appenderRefLock,
  \* the threads
  pc, curStmt, curResult, curAppender,
  retStmtClose, retResultClose, retNext, retAppClose,  \* return addresses
  todoStmts, todoAppenders,      \* the lists conn.close() iterates over
  constructed,    \* statements whose constructor has returned
  ops

connVars == << connRef, closing, transactionRunning, connRefLock >>
trackVars == << preparedStatements, pendingQueries, appenders >>
engineVars == << contextLock, interrupted >>
stmtVars == << stmtConn, stmtRef, stmtRefLock, query, selectResult, closeOnCompletion >>
resultVars == << resultRef, resultRefLock, detached, overwritten >>
pendingVars == << pendingRef, pendingRefLock, orphans >>
appenderVars == << appenderRef, appenderRefLock >>
curVars == << curStmt, curResult, curAppender >>
retVars == << retStmtClose, retResultClose, retNext, retAppClose >>
auxVars == << todoStmts, todoAppenders, constructed >>

driverVars == << connVars, trackVars, engineVars >>
objectVars == << stmtVars, resultVars, pendingVars, appenderVars >>
localVars == << curVars, retVars, auxVars, ops >>

vars == << driverVars, objectVars, pc, localVars >>

-----------------------------------------------------------------------------
(***************************************************************************)
(* Program counter values.                                                 *)
(***************************************************************************)
ExecuteLabels == { "exBarrier", "exLock", "exTx", "exBegin", "exNative", "exRun",
                   "exUnlock", "exFail", "exNull", "exReset", "exFailReset", "exNullReset",
                   "exFailRead", "exPost", "exPostClose" }
DirectLabels  == { "dqConn", "dqQuery", "dqPending", "dqExec", "dqRun",
                   "pqClose", "pqClosing", "pqUntrack" }
PrepareLabels == { "pLock", "pConn", "pCall", "pUnlock" }
StmtCloseLabels == { "scEnter", "scLock", "scRelease", "scClosing", "scUntrack" }
\* ResultSet.close() called by a thread that holds its statement's lock.
ResultCloseLabels == { "rcRead", "rcFree", "rcStmt", "rcNested", "rcClosing", "rcUntrack" }
FetchLabels   == { "fConn", "fRes", "fCall", "fErr", "fUnlock" }
ConnLabels    == { "ccLock", "ccPending", "ccStmts", "ccApps", "ccDisconnect",
                   "kConn", "kCall", "caConn" }
AppenderLabels == { "anConn", "anTrack", "afLock", "afCall",
                    "acLock", "acCall", "acClosing", "acUntrack", "acNull" }

Labels == {"idle", "grForget", "rsFree"} \cup ExecuteLabels \cup DirectLabels \cup PrepareLabels
          \cup StmtCloseLabels \cup ResultCloseLabels \cup FetchLabels
          \cup ConnLabels \cup AppenderLabels

Goto(t, label) == pc' = [pc EXCEPT ![t] = label]

\* The lock can be taken by t: it is free, or t holds it already.
CanLock(lock, t) == lock \in {NoThread, t}

\* DuckDBPreparedStatement.isClosed() is the negation.
StmtIsOpen(s) == stmtConn[s] /\ connRef

\* DuckDBPreparedStatement.checkPrepared() passes.
IsPrepared(s) == IF s \in Prepared THEN stmtRef[s] ELSE query[s]

\* selectResult is set and not closed yet.
HasOpenResult(s) == selectResult[s] # NoResult /\ resultRef[selectResult[s]] = "live"

\* Faulty variant of Tracked: the statement is not tracked.
NotTracked(s) == preparedStatements

\* conn.preparedStatements.add(this)
Tracked(s) == preparedStatements \cup {s}

Init ==
  /\ connRef = TRUE /\ closing = FALSE /\ transactionRunning = FALSE
  /\ connRefLock = NoThread
  /\ preparedStatements = AlreadyPrepared /\ pendingQueries = {} /\ appenders = {}
  /\ contextLock = NoThread /\ interrupted = FALSE
  /\ stmtConn = [s \in Stmts |-> TRUE]
  /\ stmtRef = [s \in Stmts |-> s \in AlreadyPrepared]
  /\ stmtRefLock = [s \in Stmts |-> NoThread]
  /\ query = [s \in Stmts |-> FALSE]
  /\ selectResult = [s \in Stmts |-> NoResult]
  /\ closeOnCompletion = [s \in Stmts |-> FALSE]
  /\ resultRef = [r \in Results |-> "none"]
  /\ resultRefLock = [r \in Results |-> NoThread]
  /\ detached = {} /\ overwritten = {}
  /\ pendingRef = [t \in Threads |-> FALSE]
  /\ pendingRefLock = [t \in Threads |-> NoThread]
  /\ orphans = 0
  /\ appenderRef = [a \in Appenders |-> "none"]
  /\ appenderRefLock = [a \in Appenders |-> NoThread]
  /\ pc = [t \in Threads |-> "idle"]
  /\ curStmt = [t \in Threads |-> CHOOSE s \in Stmts : TRUE]
  /\ curResult = [t \in Threads |-> CHOOSE r \in Results : TRUE]
  /\ curAppender = [t \in Threads |-> CHOOSE a \in Appenders : TRUE]
  /\ retStmtClose = [t \in Threads |-> "idle"]
  /\ retResultClose = [t \in Threads |-> "scRelease"]
  /\ retNext = [t \in Threads |-> "idle"]
  /\ retAppClose = [t \in Threads |-> "idle"]
  /\ todoStmts = {} /\ todoAppenders = {}
  /\ constructed = (Stmts \ Prepared) \cup AlreadyPrepared
  /\ ops = [t \in Threads |-> 0]
-----------------------------------------------------------------------------
(***************************************************************************)
(* Starting an API call from the application.                              *)
(***************************************************************************)
\* Thread t enters the driver with call c.
Starts(t, c) ==
  /\ pc[t] = "idle" /\ c \in MayCall[t] /\ ops[t] < MaxOps
  /\ ops' = [ops EXCEPT ![t] = @ + 1]

\* execute(sql) of a plain statement sets the query; execute() of a prepared
\* statement needs stmtRef.  A closed statement throws and changes nothing.
StartExecute(t, s) ==
  /\ Starts(t, "execute")
  /\ s \in constructed /\ StmtIsOpen(s)
  /\ \/ s \notin Prepared /\ query' = [query EXCEPT ![s] = TRUE]
     \/ s \in Prepared /\ stmtRef[s] /\ UNCHANGED query
  /\ curStmt' = [curStmt EXCEPT ![t] = s]
  /\ Goto(t, "exBarrier")
  /\ UNCHANGED << driverVars, stmtConn, stmtRef, stmtRefLock, selectResult,
       closeOnCompletion, resultVars, pendingVars, appenderVars, curResult, curAppender,
       retVars, auxVars >>

\* The prepareStatement() constructor, or execute(sql) on a prepared statement.
StartPrepare(t, s) ==
  /\ Starts(t, "prepare")
  /\ s \in Prepared /\ StmtIsOpen(s)
  /\ s \in constructed \/ \A u \in Threads : pc[u] = "idle" \/ curStmt[u] # s
  /\ curStmt' = [curStmt EXCEPT ![t] = s]
  /\ Goto(t, "pLock")
  /\ UNCHANGED << driverVars, objectVars, curResult, curAppender, retVars, auxVars >>

StartCloseStmt(t, s) ==
  /\ Starts(t, "closeStmt")
  /\ s \in constructed
  /\ curStmt' = [curStmt EXCEPT ![t] = s]
  /\ retStmtClose' = [retStmtClose EXCEPT ![t] = "idle"]
  /\ Goto(t, "scEnter")
  /\ UNCHANGED << driverVars, objectVars, curResult, curAppender, retResultClose,
       retNext, retAppClose, auxVars >>

\* An execution of s has stored a result, so that returnsResultSet can be set.
\* (Whether a result is one of rows is left open.)
HasReturned(s) == \E r \in Results : ResultStmt[r] = s /\ resultRef[r] # "none"

\* getResultSet() reads selectResult, which it is about to return, without a
\* lock ...
GetResultSet(t, s) ==
  /\ Starts(t, "getResultSet")
  /\ StmtIsOpen(s) /\ HasReturned(s)
  /\ detached' = detached \cup ({selectResult[s]} \ {NoResult})
  /\ curStmt' = [curStmt EXCEPT ![t] = s]
  /\ Goto(t, "grForget")
  /\ UNCHANGED << driverVars, stmtVars, resultRef, resultRefLock, pendingVars,
       overwritten, appenderVars, curResult, curAppender, retVars, auxVars >>

\* ... and then sets it to null, whatever it has become: a result that no
\* getResultSet() has read is overwritten.
ForgetResult(t) ==
  LET s == curStmt[t] IN
  /\ pc[t] = "grForget"
  /\ selectResult' = [selectResult EXCEPT ![s] = NoResult]
  /\ overwritten' = overwritten \cup ({selectResult[s]} \ (detached \cup {NoResult}))
  /\ Goto(t, "idle")
  /\ UNCHANGED << driverVars, stmtConn, stmtRef, stmtRefLock, query, closeOnCompletion,
       resultRef, resultRefLock, detached, pendingVars, appenderVars, localVars >>

SetCloseOnCompletion(t, s) ==
  /\ Starts(t, "closeOnCompletion")
  /\ s \in constructed /\ StmtIsOpen(s)
  /\ closeOnCompletion' = [closeOnCompletion EXCEPT ![s] = TRUE]
  /\ UNCHANGED << driverVars, stmtConn, stmtRef, stmtRefLock, query, selectResult,
       resultVars, pendingVars, appenderVars, pc, curVars, retVars, auxVars >>

\* cancel() goes on only while some thread holds the statement lock.
StartCancel(t, s) ==
  /\ Starts(t, "cancel")
  /\ s \in constructed /\ StmtIsOpen(s) /\ stmtRefLock[s] # NoThread
  /\ curStmt' = [curStmt EXCEPT ![t] = s]
  /\ Goto(t, "caConn")
  /\ UNCHANGED << driverVars, objectVars, curResult, curAppender, retVars, auxVars >>

\* Faulty variant of StartNext: fetchChunk() locks the result before the connection.
StartNextResultFirst(t, r) ==
  /\ Starts(t, "next")
  /\ resultRef[r] = "live" /\ resultRefLock[r] = NoThread
  /\ resultRefLock' = [resultRefLock EXCEPT ![r] = t]
  /\ curResult' = [curResult EXCEPT ![t] = r]
  /\ retNext' = [retNext EXCEPT ![t] = "idle"]
  /\ Goto(t, "fConn")
  /\ UNCHANGED << driverVars, stmtVars, resultRef, detached, overwritten, pendingVars,
       appenderVars, curStmt, curAppender, retStmtClose,
       retResultClose, retAppClose, auxVars >>

\* ResultSet.next() that needs another chunk.
StartNext(t, r) ==
  /\ Starts(t, "next")
  /\ resultRef[r] = "live"
  /\ curResult' = [curResult EXCEPT ![t] = r]
  /\ retNext' = [retNext EXCEPT ![t] = "idle"]
  /\ Goto(t, "fConn")
  /\ UNCHANGED << driverVars, objectVars, curStmt, curAppender, retStmtClose,
       retResultClose, retAppClose, auxVars >>

StartCloseResult(t, r) ==
  /\ Starts(t, "closeResult")
  /\ resultRef[r] = "live"
  /\ curResult' = [curResult EXCEPT ![t] = r]
  /\ Goto(t, "rsFree")
  /\ UNCHANGED << driverVars, objectVars, curStmt, curAppender, retVars, auxVars >>

\* close() of the connection, or a call that runs under the connection lock:
\* setCatalog, getCatalog, setSchema, getSchema, duplicate, queryProgress, ...
StartConn(t, c, label) ==
  /\ Starts(t, c)
  /\ connRef
  /\ Goto(t, label)
  /\ UNCHANGED << driverVars, objectVars, curVars, retVars, auxVars >>

StartCloseConn(t) == StartConn(t, "closeConn", "ccLock")
StartConnCall(t) == StartConn(t, "connCall", "kConn")

\* An appender is used by the application once createAppender() has returned.
UsableAppender(a) ==
  /\ appenderRef[a] \notin {"none", "closed"}
  /\ ~ \E u \in Threads : pc[u] = "anTrack" /\ curAppender[u] = a

StartAppender(t, a, c, label) ==
  /\ Starts(t, c)
  /\ curAppender' = [curAppender EXCEPT ![t] = a]
  /\ retAppClose' = [retAppClose EXCEPT ![t] = "idle"]
  /\ Goto(t, label)
  /\ UNCHANGED << driverVars, objectVars, curStmt, curResult, retStmtClose,
       retResultClose, retNext, auxVars >>

StartNewAppender(t, a) ==
  /\ appenderRef[a] = "none" /\ connRef
  /\ StartAppender(t, a, "newAppender", "anConn")
StartFlush(t, a) == UsableAppender(a) /\ StartAppender(t, a, "flush", "afLock")
StartCloseAppender(t, a) ==
  UsableAppender(a) /\ StartAppender(t, a, "closeAppender", "acLock")

-----------------------------------------------------------------------------
(***************************************************************************)
(* DuckDBPreparedStatement.execute()                                       *)
(***************************************************************************)
\* Take and release the connection lock before taking the statement lock.
\* getConnRefLock() throws if the statement was closed meanwhile.
ExecuteBarrier(t) ==
  /\ pc[t] = "exBarrier"
  /\ \/ ~stmtConn[curStmt[t]] /\ Goto(t, "idle")
     \/ stmtConn[curStmt[t]] /\ CanLock(connRefLock, t) /\ Goto(t, "exLock")
  /\ UNCHANGED << driverVars, objectVars, localVars >>

\* Faulty variant of ExecuteLock: the previous result is not closed.
ExecuteLockKeepsResult(t) ==
  LET s == curStmt[t] IN
  /\ pc[t] = "exLock"
  /\ stmtRefLock[s] = NoThread
  /\ stmtRefLock' = [stmtRefLock EXCEPT ![s] = t]
  /\ Goto(t, IF StmtIsOpen(s) /\ IsPrepared(s) THEN "exTx" ELSE "exFail")
  /\ UNCHANGED << driverVars, stmtConn, stmtRef, query, selectResult, closeOnCompletion,
       resultVars, pendingVars, appenderVars, curVars, retVars, auxVars, ops >>

\* Take the statement lock, recheck, and close the previous result.
ExecuteLock(t) ==
  LET s == curStmt[t]
      ready == StmtIsOpen(s) /\ IsPrepared(s) IN
  /\ pc[t] = "exLock"
  /\ stmtRefLock[s] = NoThread
  /\ stmtRefLock' = [stmtRefLock EXCEPT ![s] = t]
  /\ \/ ~ready /\ Goto(t, "exFail") /\ UNCHANGED retResultClose
     \/ ready /\ selectResult[s] = NoResult /\ Goto(t, "exTx") /\ UNCHANGED retResultClose
     \/ /\ ready /\ selectResult[s] # NoResult /\ Goto(t, "rcRead")
        /\ retResultClose' = [retResultClose EXCEPT ![t] = "exTx"]
  /\ UNCHANGED << driverVars, stmtConn, stmtRef, query, selectResult, closeOnCompletion,
       resultVars, pendingVars, appenderVars, curVars, retStmtClose, retNext,
       retAppClose, auxVars, ops >>

\* Where execute() dispatches the query to the engine.
Dispatch(s) == IF s \in Prepared THEN "exNative" ELSE "dqConn"

\* selectResult = null; without auto-commit, start a transaction if none is
\* running.  startTransaction() sets the flag before it executes BEGIN.
ExecuteTx(t) ==
  LET s == curStmt[t] IN
  /\ pc[t] = "exTx"
  /\ selectResult' = [selectResult EXCEPT ![s] = NoResult]
  /\ \/ /\ ~StmtIsOpen(s)
        /\ Goto(t, "exFail")
        /\ UNCHANGED transactionRunning
     \/ /\ StmtIsOpen(s) /\ (AutoCommit \/ transactionRunning)
        /\ Goto(t, Dispatch(s))
        /\ UNCHANGED transactionRunning
     \/ /\ StmtIsOpen(s) /\ ~AutoCommit /\ ~transactionRunning
        /\ transactionRunning' = TRUE
        /\ Goto(t, "exBegin")
  /\ UNCHANGED << connRef, closing, connRefLock, trackVars, engineVars, stmtConn,
       stmtRef, stmtRefLock, query, closeOnCompletion, resultVars, pendingVars,
       appenderVars, localVars >>

\* The nested Statement that executes BEGIN TRANSACTION: it goes through
\* execute() itself, so it needs the connection lock and the engine while this
\* thread keeps its statement lock.  Its own short-lived handles are left out.
ExecuteBegin(t) ==
  /\ pc[t] = "exBegin"
  /\ CanLock(connRefLock, t) /\ contextLock = NoThread
  /\ interrupted' = (interrupted /\ ~connRef)
  /\ \/ connRef /\ Goto(t, Dispatch(curStmt[t]))
     \/ Goto(t, "exFail")
  /\ UNCHANGED << connVars, trackVars, contextLock, objectVars, localVars >>

\* duckdb_jdbc_execute(stmtRef, params): the engine takes its context lock and
\* InitialCleanup() clears the interrupted flag.
ExecuteNative(t) ==
  /\ pc[t] = "exNative"
  /\ contextLock = NoThread
  /\ contextLock' = t /\ interrupted' = FALSE
  /\ Goto(t, "exRun")
  /\ UNCHANGED << connVars, trackVars, objectVars, localVars >>

\* The statement's new result set r becomes selectResult.
NewResult(s, r) ==
  /\ ResultStmt[r] = s /\ resultRef[r] = "none"
  /\ resultRef' = [resultRef EXCEPT ![r] = "live"]
  /\ selectResult' = [selectResult EXCEPT ![s] = r]

ExecuteReturns(t) ==
  /\ pc[t] = "exRun"
  /\ contextLock' = NoThread
  /\ \E r \in Results : NewResult(curStmt[t], r)
  /\ Goto(t, "exUnlock")
  /\ UNCHANGED << connVars, trackVars, interrupted, stmtConn, stmtRef, stmtRefLock,
       query, closeOnCompletion, resultRefLock, detached, overwritten, pendingVars, appenderVars,
       localVars >>

\* The query fails, or notices that it was interrupted.
ExecuteThrows(t) ==
  /\ pc[t] = "exRun"
  /\ contextLock' = NoThread
  /\ Goto(t, "exFail")
  /\ UNCHANGED << connVars, trackVars, interrupted, objectVars, localVars >>
(***************************************************************************)
(* executeDirect(), holding the statement lock.                            *)
(***************************************************************************)
DirectLockConn(t) ==
  /\ pc[t] = "dqConn"
  /\ CanLock(connRefLock, t)
  /\ \/ ~connRef /\ Goto(t, "exFail") /\ UNCHANGED connRefLock
     \/ connRef /\ Goto(t, "dqQuery") /\ connRefLock' = t
  /\ UNCHANGED << connRef, closing, transactionRunning, trackVars, engineVars,
       objectVars, localVars >>

\* duckdb_jdbc_pending_query() under both locks; the new pending query and the
\* statement are tracked before the connection lock is released.  If the call
\* throws, no pending query exists.  An execution that ends on another thread
\* may have nulled the query meanwhile: the call is then not made.
DirectPendingQuery(t) ==
  /\ pc[t] = "dqQuery"
  /\ connRefLock' = NoThread
  /\ \/ /\ query[curStmt[t]] /\ contextLock = NoThread
        /\ interrupted' = FALSE
        /\ pendingRef' = [pendingRef EXCEPT ![t] = TRUE]
        /\ pendingQueries' = pendingQueries \cup {t}
        /\ preparedStatements' = Tracked(curStmt[t])
        /\ Goto(t, "dqPending")
     \/ /\ query[curStmt[t]] /\ contextLock = NoThread
        /\ interrupted' = FALSE
        /\ Goto(t, "exFail")
        /\ UNCHANGED << pendingRef, pendingQueries, preparedStatements >>
     \/ /\ ~query[curStmt[t]]
        /\ Goto(t, "exNull")
        /\ UNCHANGED << interrupted, pendingRef, pendingQueries, preparedStatements >>
  /\ UNCHANGED << connRef, closing, transactionRunning, appenders, contextLock,
       stmtVars, resultVars, pendingRefLock, orphans, appenderVars, localVars >>

\* Faulty variant of DirectLockPending: pendingRef is not checked again.
DirectLockPendingUnchecked(t) ==
  /\ pc[t] = "dqPending"
  /\ pendingRefLock[t] = NoThread
  /\ Goto(t, "dqExec")
  /\ pendingRefLock' = [pendingRefLock EXCEPT ![t] = t]
  /\ UNCHANGED << driverVars, stmtVars, resultVars, pendingRef, orphans, appenderVars,
       localVars >>

\* Take pendingRefLock; conn.close() may have released the pending query.
DirectLockPending(t) ==
  /\ pc[t] = "dqPending"
  /\ pendingRefLock[t] = NoThread
  /\ \/ ~pendingRef[t] /\ Goto(t, "exFail") /\ UNCHANGED pendingRefLock
     \/ /\ pendingRef[t] /\ Goto(t, "dqExec")
        /\ pendingRefLock' = [pendingRefLock EXCEPT ![t] = t]
  /\ UNCHANGED << driverVars, stmtVars, resultVars, pendingRef, orphans, appenderVars,
       localVars >>

\* duckdb_jdbc_execute_pending() waits for the engine's context lock.
DirectExecute(t) ==
  /\ pc[t] = "dqExec"
  /\ contextLock = NoThread
  /\ contextLock' = t
  /\ Goto(t, "dqRun")
  /\ UNCHANGED << connVars, trackVars, interrupted, objectVars, localVars >>

DirectReturns(t) ==
  /\ pc[t] = "dqRun"
  /\ contextLock' = NoThread
  /\ pendingRefLock' = [pendingRefLock EXCEPT ![t] = NoThread]
  /\ \E r \in Results : NewResult(curStmt[t], r)
  /\ Goto(t, "exUnlock")
  /\ UNCHANGED << connVars, trackVars, interrupted, stmtConn, stmtRef, stmtRefLock,
       query, closeOnCompletion, resultRefLock, detached, overwritten, pendingRef, orphans,
       appenderVars, localVars >>

\* executeDirect() throws before it returns the pending query, so execute()
\* never closes it: it stays in conn.pendingQueries, referenced by no one else.
DirectThrows(t) ==
  /\ pc[t] = "dqRun"
  /\ contextLock' = NoThread
  /\ pendingRefLock' = [pendingRefLock EXCEPT ![t] = NoThread]
  /\ pendingRef' = [pendingRef EXCEPT ![t] = FALSE]
  /\ pendingQueries' = pendingQueries \ {t}
  /\ orphans' = orphans + 1
  /\ Goto(t, "exFail")
  /\ UNCHANGED << connVars, preparedStatements, appenders, interrupted, stmtVars,
       resultVars, appenderVars, localVars >>

(***************************************************************************)
(* The finally block of execute(), and what follows it.                    *)
(***************************************************************************)
\* Faulty variant of ExecuteUnlock: the lock is released only after a success.
ExecuteUnlockForgotten(t) ==
  /\ pc[t] \in {"exUnlock", "exFail", "exNull"}
  /\ stmtRefLock' = [stmtRefLock EXCEPT ![curStmt[t]] =
                     IF pc[t] = "exUnlock" THEN NoThread ELSE t]
  /\ Goto(t, CASE pc[t] = "exUnlock" -> "exReset"
               [] pc[t] = "exFail" -> "exFailReset"
               [] pc[t] = "exNull" -> "exNullReset")
  /\ UNCHANGED << driverVars, stmtConn, stmtRef, query, selectResult, closeOnCompletion,
       resultVars, pendingVars, appenderVars, localVars >>

\* Release the statement lock, however the execution ended: well (exUnlock),
\* with an SQLException (exFail) or with a NullPointerException (exNull).
ExecuteUnlock(t) ==
  /\ pc[t] \in {"exUnlock", "exFail", "exNull"}
  /\ stmtRefLock' = [stmtRefLock EXCEPT ![curStmt[t]] = NoThread]
  /\ Goto(t, CASE pc[t] = "exUnlock" -> "exReset"
               [] pc[t] = "exFail" -> "exFailReset"
               [] pc[t] = "exNull" -> "exNullReset")
  /\ UNCHANGED << driverVars, stmtConn, stmtRef, query, selectResult, closeOnCompletion,
       resultVars, pendingVars, appenderVars, localVars >>

\* query = null is assigned after the lock is released.  Only an SQLException
\* closes selectResult, if there is one, and the statement.
ExecuteReset(t) ==
  /\ pc[t] \in {"exReset", "exFailReset", "exNullReset"}
  /\ query' = [query EXCEPT ![curStmt[t]] = FALSE]
  /\ retStmtClose' = [retStmtClose EXCEPT ![t] = "idle"]
  /\ Goto(t, CASE pc[t] = "exReset" -> IF curStmt[t] \in Prepared THEN "exPost" ELSE "pqClose"
               [] pc[t] = "exFailReset" -> IF selectResult[curStmt[t]] = NoResult
                                           THEN "scEnter" ELSE "exFailRead"
               [] pc[t] = "exNullReset" -> "idle")
  /\ UNCHANGED << driverVars, stmtConn, stmtRef, stmtRefLock, selectResult,
       closeOnCompletion, resultVars, pendingVars, appenderVars, curVars,
       retResultClose, retNext, retAppClose, auxVars, ops >>

\* The second read of selectResult: null is a NullPointerException, and the
\* statement is not closed.
ExecuteFailRead(t) ==
  /\ pc[t] = "exFailRead"
  /\ retStmtClose' = [retStmtClose EXCEPT ![t] = "idle"]
  /\ Goto(t, IF selectResult[curStmt[t]] = NoResult THEN "idle" ELSE "scEnter")
  /\ UNCHANGED << driverVars, objectVars, curVars, retResultClose, retNext, retAppClose,
       auxVars, ops >>

\* DuckDBPendingQuery.close(): release under pendingRefLock, unless conn.close()
\* did it, then untrack under connRefLock unless the connection is closing.
PendingClose(t) ==
  /\ pc[t] = "pqClose"
  /\ pendingRefLock[t] = NoThread
  /\ pendingRef' = [pendingRef EXCEPT ![t] = FALSE]
  /\ Goto(t, IF pendingRef[t] THEN "pqClosing" ELSE "exPost")
  /\ UNCHANGED << driverVars, stmtVars, resultVars, pendingRefLock, orphans,
       appenderVars, localVars >>

PendingReadClosing(t) ==
  /\ pc[t] = "pqClosing"
  /\ Goto(t, IF closing THEN "exPost" ELSE "pqUntrack")
  /\ UNCHANGED << driverVars, objectVars, localVars >>

PendingUntrack(t) ==
  /\ pc[t] = "pqUntrack"
  /\ CanLock(connRefLock, t)
  /\ pendingQueries' = pendingQueries \ {t}
  /\ Goto(t, "exPost")
  /\ UNCHANGED << connVars, preparedStatements, appenders, engineVars, objectVars,
       localVars >>

\* Without a lock: a query that changed rows reads its count with next() on
\* selectResult and closes it.  A null selectResult is a NullPointerException
\* and a closed one an SQLException: either leaves execute().
ExecutePost(t) ==
  LET s == curStmt[t] IN
  /\ pc[t] = "exPost"
  /\ \/ Goto(t, "idle") /\ UNCHANGED << curResult, retNext >>
     \/ /\ HasOpenResult(s)
        /\ curResult' = [curResult EXCEPT ![t] = selectResult[s]]
        /\ retNext' = [retNext EXCEPT ![t] = "exPostClose"]
        /\ Goto(t, "fConn")
  /\ UNCHANGED << driverVars, objectVars, curStmt, curAppender, retStmtClose,
       retResultClose, retAppClose, auxVars, ops >>

ExecutePostClose(t) ==
  LET s == curStmt[t] IN
  /\ pc[t] = "exPostClose"
  /\ \/ ~HasOpenResult(s) /\ Goto(t, "idle") /\ UNCHANGED curResult
     \/ /\ HasOpenResult(s) /\ Goto(t, "rsFree")
        /\ curResult' = [curResult EXCEPT ![t] = selectResult[s]]
  /\ UNCHANGED << driverVars, objectVars, curStmt, curAppender, retVars, auxVars, ops >>

-----------------------------------------------------------------------------
(***************************************************************************)
(* DuckDBPreparedStatement.close(), called by the application, by a failed *)
(* execute(), by ResultSet.close() with closeOnCompletion and by           *)
(* Connection.close(); retStmtClose is where it returns to.                *)
(***************************************************************************)
\* Faulty variant of StmtCloseEnter: close() does not take the statement lock.
StmtCloseEnterUnlocked(t) ==
  /\ pc[t] = "scEnter"
  /\ Goto(t, IF StmtIsOpen(curStmt[t]) THEN "scRelease" ELSE retStmtClose[t])
  /\ UNCHANGED << driverVars, objectVars, localVars >>

StmtCloseEnter(t) ==
  /\ pc[t] = "scEnter"
  /\ Goto(t, IF StmtIsOpen(curStmt[t]) THEN "scLock" ELSE retStmtClose[t])
  /\ UNCHANGED << driverVars, objectVars, localVars >>

\* Take the statement lock and recheck; the result is closed first.
StmtCloseLock(t) ==
  LET s == curStmt[t] IN
  /\ pc[t] = "scLock"
  /\ stmtRefLock[s] = NoThread
  /\ \/ /\ ~StmtIsOpen(s) /\ Goto(t, retStmtClose[t])
        /\ UNCHANGED << stmtRefLock, retResultClose >>
     \/ /\ StmtIsOpen(s) /\ selectResult[s] = NoResult /\ Goto(t, "scRelease")
        /\ stmtRefLock' = [stmtRefLock EXCEPT ![s] = t]
        /\ UNCHANGED retResultClose
     \/ /\ StmtIsOpen(s) /\ selectResult[s] # NoResult /\ Goto(t, "rcRead")
        /\ stmtRefLock' = [stmtRefLock EXCEPT ![s] = t]
        /\ retResultClose' = [retResultClose EXCEPT ![t] = "scRelease"]
  /\ UNCHANGED << driverVars, stmtConn, stmtRef, query, selectResult, closeOnCompletion,
       resultVars, pendingVars, appenderVars, curVars, retStmtClose, retNext,
       retAppClose, auxVars, ops >>

\* Release stmtRef, forget the result and the connection.
ReleaseStmt(s) ==
  /\ selectResult' = [selectResult EXCEPT ![s] = NoResult]
  /\ stmtRef' = [stmtRef EXCEPT ![s] = FALSE]
  /\ stmtConn' = [stmtConn EXCEPT ![s] = FALSE]

StmtCloseRelease(t) ==
  /\ pc[t] = "scRelease"
  /\ ReleaseStmt(curStmt[t])
  /\ stmtRefLock' = [stmtRefLock EXCEPT ![curStmt[t]] = NoThread]
  /\ Goto(t, "scClosing")
  /\ UNCHANGED << driverVars, query, closeOnCompletion, resultVars, pendingVars,
       appenderVars, localVars >>

\* Faulty variant of StmtCloseReadClosing: the statement is never untracked.
StmtCloseNeverUntracks(t) ==
  /\ pc[t] = "scClosing"
  /\ Goto(t, retStmtClose[t])
  /\ UNCHANGED << driverVars, objectVars, localVars >>

StmtCloseReadClosing(t) ==
  /\ pc[t] = "scClosing"
  /\ Goto(t, IF closing THEN retStmtClose[t] ELSE "scUntrack")
  /\ UNCHANGED << driverVars, objectVars, localVars >>

\* Remove the statement from conn.preparedStatements and continue at label.
Untrack(t, label) ==
  /\ CanLock(connRefLock, t)
  /\ preparedStatements' = preparedStatements \ {curStmt[t]}
  /\ Goto(t, label)
  /\ UNCHANGED << connVars, pendingQueries, appenders, engineVars, objectVars,
       localVars >>

StmtCloseUntrack(t) == pc[t] = "scUntrack" /\ Untrack(t, retStmtClose[t])
(***************************************************************************)
(* ResultSet.close() of the statement's result, called by a thread that    *)
(* holds the statement lock: from execute(), prepare() and Statement.close.*)
(* With closeOnCompletion it closes the statement reentrantly, so it       *)
(* untracks the statement while the statement lock is still held.          *)
(*                                                                         *)
(* The callers check selectResult for null and read it again for the call; *)
(* getResultSet() of another thread can set it to null in between.         *)
(***************************************************************************)
\* selectResult.close() on null: the NullPointerException leaves the call that
\* was to close the result through its finally blocks.  prepare() and
\* Statement.close() close nothing more, and conn.close() stops on the way.
NullPointer(t) ==
  \/ /\ retResultClose[t] = "exTx" /\ Goto(t, "exNull")
     /\ UNCHANGED << connRefLock, stmtRefLock >>
  \/ /\ retResultClose[t] \in {"pConn", "pUnlock"} /\ Goto(t, "pUnlock")
     /\ UNCHANGED << connRefLock, stmtRefLock >>
  \/ /\ retResultClose[t] = "scRelease"
     /\ stmtRefLock' = [stmtRefLock EXCEPT ![curStmt[t]] = NoThread]
     /\ connRefLock' = IF retStmtClose[t] = "ccStmts" THEN NoThread ELSE connRefLock
     /\ Goto(t, IF retStmtClose[t] = "fUnlock" THEN "fUnlock" ELSE "idle")

\* The second read of selectResult.
ResultCloseRead(t) ==
  LET s == curStmt[t] IN
  /\ pc[t] = "rcRead"
  /\ \/ selectResult[s] = NoResult /\ NullPointer(t) /\ UNCHANGED curResult
     \/ /\ selectResult[s] # NoResult /\ Goto(t, "rcFree")
        /\ curResult' = [curResult EXCEPT ![t] = selectResult[s]]
        /\ UNCHANGED << connRefLock, stmtRefLock >>
  /\ UNCHANGED << connRef, closing, transactionRunning, trackVars, engineVars, stmtConn,
       stmtRef, query, selectResult, closeOnCompletion, resultVars, pendingVars,
       appenderVars, curStmt, curAppender, retVars, auxVars, ops >>

ResultCloseFree(t) ==
  LET r == curResult[t] IN
  /\ pc[t] = "rcFree"
  /\ CanLock(resultRefLock[r], t)
  /\ \/ resultRef[r] # "live" /\ Goto(t, retResultClose[t]) /\ UNCHANGED resultRef
     \/ /\ resultRef[r] = "live"
        /\ resultRef' = [resultRef EXCEPT ![r] = "closed"]
        /\ Goto(t, IF closeOnCompletion[curStmt[t]] THEN "rcStmt" ELSE retResultClose[t])
  /\ UNCHANGED << driverVars, stmtVars, resultRefLock, detached, overwritten, pendingVars,
       appenderVars, localVars >>

\* The nested Statement.close(); a failed prepare() comes here too.
ResultCloseStmt(t) ==
  LET s == curStmt[t] IN
  /\ pc[t] = "rcStmt"
  /\ \/ /\ ~StmtIsOpen(s) /\ Goto(t, retResultClose[t])
        /\ UNCHANGED << selectResult, stmtRef, stmtConn >>
     \/ /\ StmtIsOpen(s) /\ selectResult[s] # NoResult /\ Goto(t, "rcNested")
        /\ UNCHANGED << selectResult, stmtRef, stmtConn >>
     \/ /\ StmtIsOpen(s) /\ selectResult[s] = NoResult /\ Goto(t, "rcClosing")
        /\ ReleaseStmt(s)
  /\ UNCHANGED << driverVars, stmtRefLock, query, closeOnCompletion, resultVars,
       pendingVars, appenderVars, localVars >>

\* It reads selectResult again: the result is closed already.
ResultCloseNested(t) ==
  LET s == curStmt[t] IN
  /\ pc[t] = "rcNested"
  /\ \/ /\ selectResult[s] = NoResult /\ NullPointer(t)
        /\ UNCHANGED << selectResult, stmtRef, stmtConn >>
     \/ /\ selectResult[s] # NoResult /\ Goto(t, "rcClosing")
        /\ ReleaseStmt(s)
        /\ UNCHANGED << connRefLock, stmtRefLock >>
  /\ UNCHANGED << connRef, closing, transactionRunning, trackVars, engineVars, query,
       closeOnCompletion, resultVars, pendingVars, appenderVars, localVars >>

ResultCloseReadClosing(t) ==
  /\ pc[t] = "rcClosing"
  /\ Goto(t, IF closing THEN retResultClose[t] ELSE "rcUntrack")
  /\ UNCHANGED << driverVars, objectVars, localVars >>

ResultCloseUntrack(t) == pc[t] = "rcUntrack" /\ Untrack(t, retResultClose[t])

(***************************************************************************)
(* DuckDBPreparedStatement.prepare() of a prepared statement.              *)
(***************************************************************************)
\* Take the statement lock and release the old stmtRef and result.
PrepareLock(t) ==
  LET s == curStmt[t] IN
  /\ pc[t] = "pLock"
  /\ stmtRefLock[s] = NoThread
  /\ \/ /\ ~StmtIsOpen(s) /\ Goto(t, "idle")
        /\ UNCHANGED << stmtRefLock, stmtRef, retResultClose >>
     \/ /\ StmtIsOpen(s)
        /\ stmtRefLock' = [stmtRefLock EXCEPT ![s] = t]
        /\ stmtRef' = [stmtRef EXCEPT ![s] = FALSE]
        /\ \/ selectResult[s] = NoResult /\ Goto(t, "pConn") /\ UNCHANGED retResultClose
           \/ /\ selectResult[s] # NoResult /\ Goto(t, "rcRead")
              /\ retResultClose' = [retResultClose EXCEPT ![t] = "pConn"]
  /\ UNCHANGED << driverVars, stmtConn, query, selectResult, closeOnCompletion,
       resultVars, pendingVars, appenderVars, curVars, retStmtClose, retNext,
       retAppClose, auxVars, ops >>

\* Lock the connection while still holding the statement lock.  conn is null
\* if closing the old result closed the statement (NullPointerException); a
\* closed connection is an SQLException, which closes the statement.
PrepareConn(t) ==
  LET s == curStmt[t] IN
  /\ pc[t] = "pConn"
  /\ selectResult' = [selectResult EXCEPT ![s] = NoResult]
  /\ \/ /\ ~stmtConn[s] /\ Goto(t, "pUnlock")
        /\ UNCHANGED << connRefLock, retResultClose >>
     \/ /\ stmtConn[s] /\ CanLock(connRefLock, t) /\ connRef
        /\ connRefLock' = t
        /\ Goto(t, "pCall") /\ UNCHANGED retResultClose
     \/ /\ stmtConn[s] /\ CanLock(connRefLock, t) /\ ~connRef
        /\ retResultClose' = [retResultClose EXCEPT ![t] = "pUnlock"]
        /\ Goto(t, "rcStmt") /\ UNCHANGED connRefLock
  /\ UNCHANGED << connRef, closing, transactionRunning, trackVars, engineVars, stmtConn,
       stmtRef, stmtRefLock, query, closeOnCompletion, resultVars, pendingVars,
       appenderVars, curVars, retStmtClose, retNext, retAppClose, auxVars, ops >>

\* Both locks are held: startTransaction() if needed (its nested statement
\* enters the connection lock reentrantly), then duckdb_jdbc_prepare().
PrepareCall(t) ==
  LET s == curStmt[t] IN
  /\ pc[t] = "pCall"
  /\ contextLock = NoThread
  /\ interrupted' = FALSE
  /\ transactionRunning' = (transactionRunning \/ ~AutoCommit)
  /\ connRefLock' = NoThread
  /\ \/ /\ stmtRef' = [stmtRef EXCEPT ![s] = TRUE]
        /\ preparedStatements' = Tracked(s)
        /\ Goto(t, "pUnlock") /\ UNCHANGED retResultClose
     \/ /\ retResultClose' = [retResultClose EXCEPT ![t] = "pUnlock"]
        /\ Goto(t, "rcStmt") /\ UNCHANGED << stmtRef, preparedStatements >>
  /\ UNCHANGED << connRef, closing, pendingQueries, appenders, contextLock, stmtConn,
       stmtRefLock, query, selectResult, closeOnCompletion, resultVars, pendingVars,
       appenderVars, curVars, retStmtClose, retNext, retAppClose, auxVars, ops >>

\* A constructor that failed leaves a closed statement.
PrepareUnlock(t) ==
  /\ pc[t] = "pUnlock"
  /\ stmtRefLock' = [stmtRefLock EXCEPT ![curStmt[t]] = NoThread]
  /\ constructed' = constructed \cup {curStmt[t]}
  /\ Goto(t, "idle")
  /\ UNCHANGED << driverVars, stmtConn, stmtRef, query, selectResult, closeOnCompletion,
       resultVars, pendingVars, appenderVars, curVars, retVars, todoStmts,
       todoAppenders, ops >>

-----------------------------------------------------------------------------
(***************************************************************************)
(* DuckDBResultSet.fetchChunk() and close()                                *)
(***************************************************************************)
FetchLockConn(t) ==
  /\ pc[t] = "fConn"
  /\ CanLock(connRefLock, t)
  /\ connRefLock' = t
  /\ Goto(t, IF connRef THEN "fRes" ELSE "fErr")
  /\ UNCHANGED << connRef, closing, transactionRunning, trackVars, engineVars,
       objectVars, localVars >>

\* Faulty variant of FetchLockResult: resultRef is not checked again under the lock.
FetchLockResultUnchecked(t) ==
  LET r == curResult[t] IN
  /\ pc[t] = "fRes"
  /\ CanLock(resultRefLock[r], t)
  /\ Goto(t, "fCall")
  /\ resultRefLock' = [resultRefLock EXCEPT ![r] = t]
  /\ UNCHANGED << driverVars, stmtVars, resultRef, detached, overwritten, pendingVars, appenderVars,
       localVars >>

FetchLockResult(t) ==
  LET r == curResult[t] IN
  /\ pc[t] = "fRes"
  /\ CanLock(resultRefLock[r], t)
  /\ \/ resultRef[r] # "live" /\ Goto(t, "fErr") /\ UNCHANGED resultRefLock
     \/ /\ resultRef[r] = "live" /\ Goto(t, "fCall")
        /\ resultRefLock' = [resultRefLock EXCEPT ![r] = t]
  /\ UNCHANGED << driverVars, stmtVars, resultRef, detached, overwritten, pendingVars, appenderVars,
       localVars >>

\* duckdb_jdbc_fetch(resultRef, connRef) returns a chunk ...
FetchReturns(t) ==
  /\ pc[t] = "fCall"
  /\ resultRefLock' = [resultRefLock EXCEPT ![curResult[t]] = NoThread]
  /\ connRefLock' = NoThread
  /\ Goto(t, retNext[t])
  /\ UNCHANGED << connRef, closing, transactionRunning, trackVars, engineVars, stmtVars,
       resultRef, detached, overwritten, pendingVars, appenderVars, localVars >>

\* ... or throws, and the result set is closed under the connection lock.
FetchThrows(t) ==
  /\ pc[t] = "fCall"
  /\ resultRefLock' = [resultRefLock EXCEPT ![curResult[t]] = NoThread]
  /\ Goto(t, "fErr")
  /\ UNCHANGED << driverVars, stmtVars, resultRef, detached, overwritten, pendingVars, appenderVars,
       localVars >>

\* ResultSet.close() by a thread that does not hold the statement lock; with
\* closeOnCompletion it goes on to Statement.close(), returning to label.
CloseResult(t, label) ==
  LET r == curResult[t]
      s == ResultStmt[r] IN
  /\ CanLock(resultRefLock[r], t)
  /\ \/ /\ resultRef[r] = "live" /\ closeOnCompletion[s]
        /\ curStmt' = [curStmt EXCEPT ![t] = s]
        /\ retStmtClose' = [retStmtClose EXCEPT ![t] = label]
        /\ Goto(t, "scEnter")
     \/ /\ ~(resultRef[r] = "live" /\ closeOnCompletion[s])
        /\ Goto(t, label) /\ UNCHANGED << curStmt, retStmtClose >>
  /\ resultRef' = [resultRef EXCEPT ![r] = "closed"]
  /\ UNCHANGED << driverVars, stmtVars, resultRefLock, detached, overwritten, pendingVars,
       appenderVars, curResult, curAppender, retResultClose, retNext, retAppClose,
       auxVars, ops >>

FetchError(t) == pc[t] = "fErr" /\ CloseResult(t, "fUnlock")
ResultSetClose(t) == pc[t] = "rsFree" /\ CloseResult(t, "idle")

FetchUnlock(t) ==
  /\ pc[t] = "fUnlock"
  /\ connRefLock' = NoThread
  /\ Goto(t, "idle")
  /\ UNCHANGED << connRef, closing, transactionRunning, trackVars, engineVars,
       objectVars, localVars >>
-----------------------------------------------------------------------------
(***************************************************************************)
(* DuckDBConnection.close() and the other calls under the connection lock. *)
(* The children of one kind are closed in the order of their tracking set, *)
(* last created first; the model lets it be any order.                     *)
(***************************************************************************)
ConnCloseLock(t) ==
  /\ pc[t] = "ccLock"
  /\ CanLock(connRefLock, t)
  /\ \/ ~connRef /\ Goto(t, "idle") /\ UNCHANGED << connRefLock, closing, interrupted >>
     \/ /\ connRef
        /\ connRefLock' = t /\ closing' = TRUE /\ interrupted' = TRUE
        /\ Goto(t, "ccPending")
  /\ UNCHANGED << connRef, transactionRunning, trackVars, contextLock, objectVars,
       localVars >>

\* Close one tracked pending query that is still alive.
ConnClosePending(t) ==
  /\ pc[t] = "ccPending"
  /\ \E p \in pendingQueries :
        /\ pendingRef[p] /\ CanLock(pendingRefLock[p], t)
        /\ pendingRef' = [pendingRef EXCEPT ![p] = FALSE]
  /\ UNCHANGED << driverVars, stmtVars, resultVars, pendingRefLock, orphans,
       appenderVars, pc, localVars >>

\* Faulty variant of ConnClosePendingDone: live pending queries are skipped.
ConnClosePendingSkipped(t) ==
  /\ pc[t] = "ccPending"
  /\ pendingQueries' = {} /\ orphans' = 0
  /\ todoStmts' = preparedStatements
  /\ Goto(t, "ccStmts")
  /\ UNCHANGED << connVars, preparedStatements, appenders, engineVars, stmtVars,
       resultVars, pendingRef, pendingRefLock, appenderVars, curVars, retVars,
       todoAppenders, constructed, ops >>

\* All are closed, the orphans too: clear the set, list the statements.
ConnClosePendingDone(t) ==
  /\ pc[t] = "ccPending"
  /\ \A p \in pendingQueries : ~pendingRef[p]
  /\ pendingQueries' = {} /\ orphans' = 0
  /\ todoStmts' = preparedStatements
  /\ Goto(t, "ccStmts")
  /\ UNCHANGED << connVars, preparedStatements, appenders, engineVars, stmtVars,
       resultVars, pendingRef, pendingRefLock, appenderVars, curVars, retVars,
       todoAppenders, constructed, ops >>

ConnCloseStmt(t) ==
  /\ pc[t] = "ccStmts"
  /\ \E s \in todoStmts :
        /\ todoStmts' = todoStmts \ {s}
        /\ curStmt' = [curStmt EXCEPT ![t] = s]
  /\ retStmtClose' = [retStmtClose EXCEPT ![t] = "ccStmts"]
  /\ Goto(t, "scEnter")
  /\ UNCHANGED << driverVars, objectVars, curResult, curAppender, retResultClose,
       retNext, retAppClose, todoAppenders, constructed, ops >>

ConnCloseStmtsDone(t) ==
  /\ pc[t] = "ccStmts"
  /\ todoStmts = {}
  /\ preparedStatements' = {}
  /\ todoAppenders' = appenders
  /\ Goto(t, "ccApps")
  /\ UNCHANGED << connVars, pendingQueries, appenders, engineVars, objectVars, curVars,
       retVars, todoStmts, constructed, ops >>

ConnCloseAppender(t) ==
  /\ pc[t] = "ccApps"
  /\ \E a \in todoAppenders :
        /\ todoAppenders' = todoAppenders \ {a}
        /\ curAppender' = [curAppender EXCEPT ![t] = a]
  /\ retAppClose' = [retAppClose EXCEPT ![t] = "ccApps"]
  /\ Goto(t, "acLock")
  /\ UNCHANGED << driverVars, objectVars, curStmt, curResult, retStmtClose,
       retResultClose, retNext, todoStmts, constructed, ops >>

ConnCloseAppendersDone(t) ==
  /\ pc[t] = "ccApps"
  /\ todoAppenders = {}
  /\ appenders' = {}
  /\ Goto(t, "ccDisconnect")
  /\ UNCHANGED << connVars, preparedStatements, pendingQueries, engineVars, objectVars,
       localVars >>

\* duckdb_jdbc_disconnect() deletes the ConnectionHolder.
ConnDisconnect(t) ==
  /\ pc[t] = "ccDisconnect"
  /\ connRef' = FALSE /\ connRefLock' = NoThread
  /\ Goto(t, "idle")
  /\ UNCHANGED << closing, transactionRunning, trackVars, engineVars, objectVars,
       localVars >>

ConnCallLock(t) ==
  /\ pc[t] = "kConn"
  /\ CanLock(connRefLock, t)
  /\ \/ ~connRef /\ Goto(t, "idle") /\ UNCHANGED connRefLock
     \/ connRef /\ Goto(t, "kCall") /\ connRefLock' = t
  /\ UNCHANGED << connRef, closing, transactionRunning, trackVars, engineVars,
       objectVars, localVars >>

ConnCallReturns(t) ==
  /\ pc[t] = "kCall"
  /\ connRefLock' = NoThread
  /\ Goto(t, "idle")
  /\ UNCHANGED << connRef, closing, transactionRunning, trackVars, engineVars,
       objectVars, localVars >>

\* Statement.cancel() under the connection lock: recheck that the statement
\* lock is held, then interrupt whatever runs on the connection.
CancelInterrupt(t) ==
  LET s == curStmt[t] IN
  /\ pc[t] = "caConn"
  /\ CanLock(connRefLock, t)
  /\ interrupted' = (interrupted \/ (stmtRefLock[s] # NoThread /\ StmtIsOpen(s)))
  /\ Goto(t, "idle")
  /\ UNCHANGED << connVars, trackVars, contextLock, objectVars, localVars >>

-----------------------------------------------------------------------------
(***************************************************************************)
(* DuckDBAppender: createAppender(), a call on the native appender (flush  *)
(* and the list helpers), and close().                                     *)
(***************************************************************************)
\* The native appender is created under the connection lock; a null connRef or
\* an unknown table is an error.
AppenderCreate(t) ==
  /\ pc[t] = "anConn"
  /\ CanLock(connRefLock, t)
  /\ \/ /\ connRef /\ appenderRef[curAppender[t]] = "none"
        /\ appenderRef' = [appenderRef EXCEPT ![curAppender[t]] = "live"]
        /\ Goto(t, "anTrack")
     \/ Goto(t, "idle") /\ UNCHANGED appenderRef
  /\ UNCHANGED << driverVars, stmtVars, resultVars, pendingVars, appenderRefLock,
       localVars >>

\* conn.appenders.add() is not under the connection lock: while conn.close()
\* works on the set, the element can be lost.  A failure of the constructor
\* destroys the native appender instead.
AppenderTrack(t) ==
  LET a == curAppender[t] IN
  /\ pc[t] = "anTrack"
  /\ \/ appenders' = appenders \cup {a} /\ UNCHANGED appenderRef
     \/ /\ \E u \in Threads : pc[u] = "ccApps"
        /\ UNCHANGED << appenders, appenderRef >>
     \/ /\ appenderRef' = [appenderRef EXCEPT ![a] = "closed"] /\ UNCHANGED appenders
  /\ Goto(t, "idle")
  /\ UNCHANGED << connVars, preparedStatements, pendingQueries, engineVars, stmtVars,
       resultVars, pendingVars, appenderRefLock, localVars >>

\* Faulty variant of AppenderLock: flush() does not check that it is open.
AppenderLockUnchecked(t) ==
  LET a == curAppender[t] IN
  /\ pc[t] = "afLock"
  /\ appenderRefLock[a] = NoThread
  /\ Goto(t, "afCall")
  /\ appenderRefLock' = [appenderRefLock EXCEPT ![a] = t]
  /\ UNCHANGED << driverVars, stmtVars, resultVars, pendingVars, appenderRef,
       localVars >>

AppenderLock(t) ==
  LET a == curAppender[t] IN
  /\ pc[t] = "afLock"
  /\ appenderRefLock[a] = NoThread
  /\ \/ appenderRef[a] = "closed" /\ Goto(t, "idle") /\ UNCHANGED appenderRefLock
     \/ /\ appenderRef[a] # "closed" /\ Goto(t, "afCall")
        /\ appenderRefLock' = [appenderRefLock EXCEPT ![a] = t]
  /\ UNCHANGED << driverVars, stmtVars, resultVars, pendingVars, appenderRef,
       localVars >>

\* The native flush runs in the engine, one query at a time.
AppenderReturns(t) ==
  /\ pc[t] = "afCall"
  /\ contextLock = NoThread
  /\ appenderRefLock' = [appenderRefLock EXCEPT ![curAppender[t]] = NoThread]
  /\ Goto(t, "idle")
  /\ UNCHANGED << driverVars, stmtVars, resultVars, pendingVars, appenderRef,
       localVars >>

AppenderCloseLock(t) ==
  LET a == curAppender[t] IN
  /\ pc[t] = "acLock"
  /\ appenderRefLock[a] = NoThread
  /\ \/ appenderRef[a] = "closed" /\ Goto(t, retAppClose[t]) /\ UNCHANGED appenderRefLock
     \/ /\ appenderRef[a] # "closed" /\ Goto(t, "acCall")
        /\ appenderRefLock' = [appenderRefLock EXCEPT ![a] = t]
  /\ UNCHANGED << driverVars, stmtVars, resultVars, pendingVars, appenderRef,
       localVars >>

\* Flush what is buffered and destroy the native appender; appenderRef keeps
\* its dangling value until the appender is untracked.
AppenderDestroy(t) ==
  /\ pc[t] = "acCall"
  /\ contextLock = NoThread
  /\ appenderRef' = [appenderRef EXCEPT ![curAppender[t]] = "destroyed"]
  /\ Goto(t, "acClosing")
  /\ UNCHANGED << driverVars, stmtVars, resultVars, pendingVars, appenderRefLock,
       localVars >>

AppenderReadClosing(t) ==
  /\ pc[t] = "acClosing"
  /\ Goto(t, IF closing THEN "acNull" ELSE "acUntrack")
  /\ UNCHANGED << driverVars, objectVars, localVars >>

\* Takes the connection lock while holding the appender lock.
AppenderUntrack(t) ==
  /\ pc[t] = "acUntrack"
  /\ CanLock(connRefLock, t)
  /\ appenders' = appenders \ {curAppender[t]}
  /\ Goto(t, "acNull")
  /\ UNCHANGED << connVars, preparedStatements, pendingQueries, engineVars, objectVars,
       localVars >>

AppenderUnlock(t) ==
  LET a == curAppender[t] IN
  /\ pc[t] = "acNull"
  /\ appenderRef' = [appenderRef EXCEPT ![a] = "closed"]
  /\ appenderRefLock' = [appenderRefLock EXCEPT ![a] = NoThread]
  /\ Goto(t, retAppClose[t])
  /\ UNCHANGED << driverVars, stmtVars, resultVars, pendingVars, localVars >>

-----------------------------------------------------------------------------
(***************************************************************************)
(* The system.                                                             *)
(***************************************************************************)
StartStmt(t) ==
  \E s \in Stmts : \/ StartExecute(t, s) \/ StartPrepare(t, s) \/ StartCloseStmt(t, s)
                   \/ GetResultSet(t, s) \/ SetCloseOnCompletion(t, s) \/ StartCancel(t, s)

StartOther(t) ==
  \/ \E r \in Results : StartNext(t, r) \/ StartCloseResult(t, r)
  \/ StartCloseConn(t) \/ StartConnCall(t)
  \/ \E a \in Appenders : \/ StartNewAppender(t, a) \/ StartFlush(t, a)
                          \/ StartCloseAppender(t, a)

\* The steps of a thread inside the driver, except a query that comes back by
\* itself; what the fairness of the specification is about.
ExecuteStep(t) ==
  \/ ExecuteBarrier(t) \/ ExecuteLock(t) \/ ExecuteTx(t) \/ ExecuteBegin(t)
  \/ ExecuteNative(t) \/ ExecuteUnlock(t) \/ ExecuteReset(t) \/ ExecuteFailRead(t)
  \/ ExecutePost(t) \/ ExecutePostClose(t)

DirectStep(t) ==
  \/ DirectLockConn(t) \/ DirectPendingQuery(t) \/ DirectLockPending(t) \/ DirectExecute(t)
  \/ PendingClose(t) \/ PendingReadClosing(t) \/ PendingUntrack(t)

PrepareStep(t) ==
  \/ PrepareLock(t) \/ PrepareConn(t) \/ PrepareCall(t) \/ PrepareUnlock(t)

StmtCloseStep(t) ==
  \/ StmtCloseEnter(t) \/ StmtCloseLock(t) \/ StmtCloseRelease(t)
  \/ StmtCloseReadClosing(t) \/ StmtCloseUntrack(t)

ResultCloseStep(t) ==
  \/ ResultCloseRead(t) \/ ResultCloseFree(t) \/ ResultCloseStmt(t)
  \/ ResultCloseNested(t) \/ ResultCloseReadClosing(t) \/ ResultCloseUntrack(t)

FetchStep(t) ==
  \/ FetchLockConn(t) \/ FetchLockResult(t) \/ FetchReturns(t) \/ FetchThrows(t)
  \/ FetchError(t) \/ FetchUnlock(t) \/ ResultSetClose(t) \/ ForgetResult(t)

ConnCloseStep(t) ==
  \/ ConnCloseLock(t) \/ ConnClosePending(t) \/ ConnClosePendingDone(t)
  \/ ConnCloseStmt(t) \/ ConnCloseStmtsDone(t)
  \/ ConnCloseAppender(t) \/ ConnCloseAppendersDone(t) \/ ConnDisconnect(t)

ConnCallStep(t) == ConnCallLock(t) \/ ConnCallReturns(t) \/ CancelInterrupt(t)

AppenderStep(t) ==
  \/ AppenderCreate(t) \/ AppenderTrack(t) \/ AppenderLock(t) \/ AppenderReturns(t)
  \/ AppenderCloseLock(t) \/ AppenderDestroy(t) \/ AppenderReadClosing(t)
  \/ AppenderUntrack(t) \/ AppenderUnlock(t)

QueryEnds(t) == ExecuteReturns(t) \/ ExecuteThrows(t) \/ DirectReturns(t) \/ DirectThrows(t)

DriverStep(t) ==
  \/ ExecuteStep(t) \/ DirectStep(t) \/ PrepareStep(t) \/ StmtCloseStep(t)
  \/ ResultCloseStep(t) \/ FetchStep(t) \/ ConnCloseStep(t) \/ ConnCallStep(t)
  \/ AppenderStep(t)

\* Every thread is back in the application and nothing more is called.
Quiescent ==
  /\ \A t \in Threads : pc[t] = "idle"
  /\ UNCHANGED vars

ThreadStep(t) == StartStmt(t) \/ StartOther(t) \/ DriverStep(t) \/ QueryEnds(t)

Next == (\E t \in Threads : ThreadStep(t)) \/ Quiescent

Spec == Init /\ [][Next]_vars
-----------------------------------------------------------------------------
(***************************************************************************)
(* Fairness.  A thread inside the driver is scheduled again, and a lock is *)
(* granted to a thread that waits for it alone (the number of API calls is *)
(* bounded, so no lock is contended for ever).  A query need not end by    *)
(* itself: only one that has been interrupted is sure to.                  *)
(***************************************************************************)
InterruptedQueryEnds(t) == interrupted /\ (ExecuteThrows(t) \/ DirectThrows(t))

LongQuerySpec == Spec /\ \A t \in Threads : /\ WF_vars(DriverStep(t))
                                            /\ WF_vars(InterruptedQueryEnds(t))

-----------------------------------------------------------------------------
(***************************************************************************)
(* Properties.                                                             *)
(***************************************************************************)
ConnTypeOK ==
  /\ connRef \in BOOLEAN /\ closing \in BOOLEAN /\ transactionRunning \in BOOLEAN
  /\ connRefLock \in Threads \cup {NoThread}
  /\ preparedStatements \subseteq Stmts /\ todoStmts \subseteq Stmts
  /\ appenders \subseteq Appenders /\ todoAppenders \subseteq Appenders
  /\ pendingQueries \subseteq Threads
  /\ contextLock \in Threads \cup {NoThread} /\ interrupted \in BOOLEAN

StmtTypeOK ==
  /\ stmtConn \in [Stmts -> BOOLEAN] /\ stmtRef \in [Stmts -> BOOLEAN]
  /\ stmtRefLock \in [Stmts -> Threads \cup {NoThread}]
  /\ query \in [Stmts -> BOOLEAN] /\ closeOnCompletion \in [Stmts -> BOOLEAN]
  /\ selectResult \in [Stmts -> Results \cup {NoResult}]
  /\ constructed \subseteq Stmts

HandleTypeOK ==
  /\ resultRef \in [Results -> {"none", "live", "closed"}]
  /\ resultRefLock \in [Results -> Threads \cup {NoThread}]
  /\ detached \subseteq Results /\ overwritten \subseteq Results
  /\ pendingRef \in [Threads -> BOOLEAN]
  /\ pendingRefLock \in [Threads -> Threads \cup {NoThread}]
  /\ orphans \in Nat
  /\ appenderRef \in [Appenders -> {"none", "live", "destroyed", "closed"}]
  /\ appenderRefLock \in [Appenders -> Threads \cup {NoThread}]

ThreadTypeOK ==
  /\ pc \in [Threads -> Labels]
  /\ curStmt \in [Threads -> Stmts]
  /\ curResult \in [Threads -> Results]
  /\ curAppender \in [Threads -> Appenders]
  /\ retStmtClose \in [Threads -> {"idle", "ccStmts", "fUnlock"}]
  /\ retResultClose \in [Threads -> {"exTx", "scRelease", "pConn", "pUnlock"}]
  /\ retNext \in [Threads -> {"idle", "exPostClose"}]
  /\ retAppClose \in [Threads -> {"idle", "ccApps"}]
  /\ ops \in [Threads -> Nat]

\* Every variable has its type; in particular no null result is ever locked,
\* although selectResult is read without the statement lock.
TypeOK == ConnTypeOK /\ StmtTypeOK /\ HandleTypeOK /\ ThreadTypeOK

\* No native call works on a handle that another thread has freed: as long as
\* a thread is inside (or blocked inside) a native call, the prepared
\* statement, pending query, result, connection or appender it passed is alive,
\* whatever close() calls run concurrently.
NoUseAfterFree ==
  \A t \in Threads :
    /\ pc[t] \in {"exNative", "exRun"} => stmtRef[curStmt[t]]
    /\ pc[t] \in {"dqExec", "dqRun"} => pendingRef[t]
    /\ pc[t] = "fCall" => resultRef[curResult[t]] = "live"
    /\ pc[t] \in {"dqQuery", "pCall", "fRes", "fCall", "kCall", "ccDisconnect"} => connRef
    /\ pc[t] \in {"afCall", "acCall"} => appenderRef[curAppender[t]] = "live"

\* Whatever a statement still has to release - its prepared statement or the
\* result it refers to - conn.close() will find: the statement is tracked.
HoldersAreTracked ==
  \A s \in Stmts : stmtRef[s] \/ HasOpenResult(s) => s \in preparedStatements

\* When duckdb_jdbc_disconnect() has deleted the connection, everything it handed
\* out has been released before: no statement keeps a prepared statement or an open
\* result, no pending query is alive, and the only live results are those that the
\* application took over with getResultSet() and those whose reference a
\* getResultSet() overwrote, which nobody can find.
NothingOutlivesConnection ==
  ~connRef => /\ \A s \in Stmts : ~stmtRef[s] /\ ~HasOpenResult(s)
              /\ \A t \in Threads : ~pendingRef[t]
              /\ orphans = 0
              /\ \A r \in Results : resultRef[r] = "live" => r \in detached \cup overwritten

\* getResultSet() sets no result to null but the one it returns.
NoResultIsLost == overwritten = {}

\* While the connection is open and no call is in progress, the connection
\* tracks no closed statement: untracking is never lost.
ClosedStatementsUntracked ==
  (\A t \in Threads : pc[t] = "idle") /\ ~closing
    => \A s \in preparedStatements : stmtConn[s]

\* A finished execution leaves no pending query behind: while no call is in
\* progress on an open connection, no pending query is alive.
PendingQueriesUntracked ==
  (\A t \in Threads : pc[t] = "idle") /\ ~closing => pendingQueries = {} /\ orphans = 0

\* After close() of the connection every appender is closed.
AppendersAutoClosed ==
  (\A t \in Threads : pc[t] = "idle") /\ ~connRef
    => \A a \in Appenders : appenderRef[a] \in {"none", "closed"}

\* The thread whose lock t waits for (NoThread when t can go on).
WaitsFor(t) ==
  LET pendingOwner(u) ==     \* of a pending query that conn.close() cannot release
        LET busy == { p \in pendingQueries : pendingRef[p] }
        IN IF busy = {} \/ \E p \in busy : CanLock(pendingRefLock[p], u)
           THEN NoThread ELSE pendingRefLock[CHOOSE p \in busy : TRUE]
      owner ==
        CASE pc[t] = "exBarrier" -> IF stmtConn[curStmt[t]] THEN connRefLock ELSE NoThread
          [] pc[t] = "pConn" -> IF stmtConn[curStmt[t]] THEN connRefLock ELSE NoThread
          [] pc[t] \in {"exBegin", "dqConn", "pqUntrack", "scUntrack", "rcUntrack", "fConn",
                        "ccLock", "kConn", "caConn", "anConn", "acUntrack"} -> connRefLock
          [] pc[t] \in {"exLock", "scLock", "pLock"} -> stmtRefLock[curStmt[t]]
          [] pc[t] \in {"rcFree", "fRes", "fErr", "rsFree"} -> resultRefLock[curResult[t]]
          [] pc[t] \in {"dqPending", "pqClose"} -> pendingRefLock[t]
          [] pc[t] \in {"afLock", "acLock"} -> appenderRefLock[curAppender[t]]
          [] pc[t] = "ccPending" -> pendingOwner(t)
          [] pc[t] = "dqQuery" /\ ~query[curStmt[t]] -> NoThread
          [] pc[t] \in {"exNative", "dqQuery", "dqExec", "pCall", "afCall", "acCall"} -> contextLock
          [] OTHER -> NoThread
  IN IF owner = t THEN NoThread ELSE owner

\* No set of threads waits for locks that only threads of the set hold.
NoDeadlock ==
  \A D \in (SUBSET Threads) \ {{}} : \E t \in D : WaitsFor(t) \notin D

\* Every close() of the connection returns.
CloseReturns ==
  \A t \in Threads : pc[t] = "ccLock" ~> pc[t] = "idle"

\* An interrupt that cancel() of a statement sends never hits a query that
\* another statement runs on the same connection.
CancelsOnlySelf ==
  [][\A t \in Threads :
       pc[t] = "caConn" /\ ~interrupted /\ interrupted' /\ contextLock # NoThread
         => curStmt[contextLock] = curStmt[t]]_vars
=============================================================================
