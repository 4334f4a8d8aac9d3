---------------------- MODULE ConnectionLifecycleProofs ----------------------
(***************************************************************************)
(* Proofs about ConnectionLifecycle, for any number of threads,            *)
(* statements, results and appenders.                                      *)
(***************************************************************************)
EXTENDS ConnectionLifecycle, TLAPS

-----------------------------------------------------------------------------
(***************************************************************************)
(* The inductive invariant.                                                *)
(***************************************************************************)
\* Where a thread holds the lock of its current statement.
StmtLocked == { "exTx", "exBegin", "exNative", "exRun", "dqConn", "dqQuery", "dqPending",
                "dqExec", "dqRun", "exUnlock", "exFail", "exNull", "scRelease", "rcRead",
                "rcFree", "rcStmt", "rcNested", "rcClosing", "rcUntrack", "pConn", "pCall",
                "pUnlock" }

\* The statement lock excludes: what a thread does at these places, no other
\* thread does to the same statement.
StmtLockInv ==
  \A t \in Threads : pc[t] \in StmtLocked => stmtRefLock[curStmt[t]] = t

\* Statement.close() that was called with the connection lock held, by
\* conn.close() or by the error path of fetchChunk().
InStmtClose(t, rets) ==
  /\ retStmtClose[t] \in rets
  /\ \/ pc[t] \in StmtCloseLabels
     \/ pc[t] \in ResultCloseLabels /\ retResultClose[t] = "scRelease"

\* Appender.close() called by conn.close().
InConnAppClose(t) ==
  /\ retAppClose[t] = "ccApps"
  /\ pc[t] \in {"acLock", "acCall", "acClosing", "acUntrack", "acNull"}

\* Inside conn.close(), after the first check.
InConnClose(t) ==
  \/ pc[t] \in {"ccPending", "ccStmts", "ccApps", "ccDisconnect"}
  \/ InStmtClose(t, {"ccStmts"})
  \/ InConnAppClose(t)

\* Where a thread holds the connection lock and knows that connRef is alive.
ConnLockInv ==
  \A t \in Threads :
    /\ \/ pc[t] \in {"dqQuery", "pCall", "fRes", "fCall", "kCall"}
       \/ InConnClose(t)
       => connRefLock = t /\ connRef
    /\ pc[t] \in {"fErr", "fUnlock"} \/ InStmtClose(t, {"fUnlock"}) => connRefLock = t

\* execute() of a prepared statement found stmtRef and holds the statement
\* lock; only closing the old result on the way can release it again, and that
\* closes the statement.
StmtRefInv ==
  \A t \in Threads :
    LET s == curStmt[t] IN
    /\ pc[t] \in {"exNative", "exRun"} => stmtRef[s]
    /\ pc[t] = "exBegin" /\ s \in Prepared => stmtRef[s]
    /\ /\ pc[t] = "exTx" \/ (pc[t] \in ResultCloseLabels /\ retResultClose[t] = "exTx")
       /\ stmtConn[s] /\ s \in Prepared
       => stmtRef[s]

\* The pending query and the result in use are alive and locked.
QueryInv ==
  \A t \in Threads :
    /\ pc[t] \in {"dqExec", "dqRun"} => pendingRef[t] /\ pendingRefLock[t] = t
    /\ pc[t] = "fCall" => /\ resultRef[curResult[t]] = "live"
                          /\ resultRefLock[curResult[t]] = t

\* Where a thread works on an appender that createAppender() has returned.
AppenderInUse == { "afLock", "afCall", "acLock", "acCall", "acClosing", "acUntrack", "acNull" }

\* An appender in use was created; a dangling appenderRef is visible only
\* under the appender's lock; until createAppender() returns the appender is
\* known to the creating thread alone.
AppenderInv ==
  /\ \A a \in Appenders : appenderRefLock[a] = NoThread => appenderRef[a] # "destroyed"
  /\ \A a \in appenders \cup todoAppenders : appenderRef[a] # "none"
  /\ \A t \in Threads :
       LET a == curAppender[t] IN
       /\ pc[t] \in AppenderInUse => appenderRef[a] # "none"
       /\ pc[t] \in AppenderInUse \ {"afLock", "acLock"} => appenderRefLock[a] = t
       /\ pc[t] \in {"afCall", "acCall"} => appenderRef[a] = "live"
       /\ pc[t] = "anTrack" =>
            /\ appenderRef[a] = "live" /\ a \notin appenders \cup todoAppenders
            /\ \A u \in Threads \ {t} :
                 pc[u] \in AppenderInUse \cup {"anTrack"} => curAppender[u] # a

IInv == TypeOK /\ StmtLockInv /\ ConnLockInv /\ StmtRefInv /\ QueryInv /\ AppenderInv

-----------------------------------------------------------------------------
(***************************************************************************)
(* Types.                                                                  *)
(***************************************************************************)
\* Every place in the driver is a program counter value.
LEMMA LabelFacts ==
  /\ "idle" \in Labels /\ "rsFree" \in Labels /\ "exBarrier" \in Labels
  /\ "exLock" \in Labels /\ "exTx" \in Labels /\ "exBegin" \in Labels
  /\ "exNative" \in Labels /\ "exRun" \in Labels /\ "exUnlock" \in Labels
  /\ "exFail" \in Labels /\ "exNull" \in Labels /\ "exReset" \in Labels
  /\ "exFailReset" \in Labels /\ "exNullReset" \in Labels /\ "exPost" \in Labels
  /\ "exPostClose" \in Labels /\ "dqConn" \in Labels /\ "dqQuery" \in Labels
  /\ "dqPending" \in Labels /\ "dqExec" \in Labels /\ "dqRun" \in Labels
  /\ "pqClose" \in Labels /\ "pqClosing" \in Labels /\ "pqUntrack" \in Labels
  /\ "pLock" \in Labels /\ "pConn" \in Labels /\ "pCall" \in Labels
  /\ "pUnlock" \in Labels /\ "scEnter" \in Labels /\ "scLock" \in Labels
  /\ "scRelease" \in Labels /\ "scClosing" \in Labels /\ "scUntrack" \in Labels
  /\ "rcFree" \in Labels /\ "rcStmt" \in Labels /\ "rcClosing" \in Labels
  /\ "rcUntrack" \in Labels /\ "fConn" \in Labels /\ "fRes" \in Labels
  /\ "fCall" \in Labels /\ "fErr" \in Labels /\ "fUnlock" \in Labels
  /\ "ccLock" \in Labels /\ "ccPending" \in Labels /\ "ccStmts" \in Labels
  /\ "ccApps" \in Labels /\ "ccDisconnect" \in Labels /\ "kConn" \in Labels
  /\ "kCall" \in Labels /\ "caConn" \in Labels /\ "anConn" \in Labels
  /\ "anTrack" \in Labels /\ "afLock" \in Labels /\ "afCall" \in Labels
  /\ "acLock" \in Labels /\ "acCall" \in Labels /\ "acClosing" \in Labels
  /\ "acUntrack" \in Labels /\ "acNull" \in Labels
  /\ "grForget" \in Labels /\ "exFailRead" \in Labels
  /\ "rcRead" \in Labels /\ "rcNested" \in Labels
  BY DEF Labels, ExecuteLabels, DirectLabels, PrepareLabels, StmtCloseLabels,
      ResultCloseLabels, FetchLabels, ConnLabels, AppenderLabels

\* Every step of a thread keeps the types of the connection, its tracking sets and the engine.
LEMMA ConnTypeOKStep ==
  ASSUME TypeOK, NEW t \in Threads, ThreadStep(t)
  PROVE  ConnTypeOK'
<1> USE ConstantsAssumption DEF TypeOK, ConnTypeOK, ThreadTypeOK,
      Goto, driverVars, objectVars, localVars, connVars, trackVars, engineVars,
      stmtVars, resultVars, pendingVars, appenderVars, curVars, retVars, auxVars
<1>1. CASE StartStmt(t)
  BY <1>1 DEF StartStmt, StartExecute, StartPrepare, StartCloseStmt, GetResultSet,
      SetCloseOnCompletion, StartCancel, Starts
<1>2. CASE StartOther(t)
  BY <1>2 DEF StartOther, StartNext, StartCloseResult, StartCloseConn, StartConnCall,
      StartNewAppender, StartFlush, StartCloseAppender, Starts, StartConn, StartAppender
<1>3. CASE ExecuteStep(t)
  BY <1>3 DEF ExecuteStep, ExecuteBarrier, ExecuteLock, ExecuteTx, ExecuteBegin,
      ExecuteNative, ExecuteUnlock, ExecuteReset, ExecuteFailRead, ExecutePost, ExecutePostClose,
      Dispatch, HasOpenResult
<1>4. CASE DirectStep(t)
  <2>1. CASE DirectLockConn(t)
    BY <2>1 DEF DirectLockConn
  <2>2. CASE DirectPendingQuery(t)
    <3>1. preparedStatements' \in {preparedStatements, Tracked(curStmt[t])}
      BY <2>2 DEF DirectPendingQuery
    <3>2. pendingQueries' \in {pendingQueries, pendingQueries \cup {t}}
      BY <2>2 DEF DirectPendingQuery
    <3>3. preparedStatements' \subseteq Stmts /\ pendingQueries' \subseteq Threads
      BY <3>1, <3>2 DEF Tracked
    <3>4. /\ UNCHANGED << connRef, closing, transactionRunning, appenders, contextLock,
                          todoStmts, todoAppenders >>
          /\ connRefLock' = NoThread /\ interrupted' \in {interrupted, FALSE}
      BY <2>2 DEF DirectPendingQuery
    <3> QED BY <3>3, <3>4
  <2>3. CASE DirectLockPending(t)
    BY <2>3 DEF DirectLockPending
  <2>4. CASE DirectExecute(t)
    BY <2>4 DEF DirectExecute
  <2>5. CASE PendingClose(t)
    BY <2>5 DEF PendingClose
  <2>6. CASE PendingReadClosing(t)
    BY <2>6 DEF PendingReadClosing
  <2>7. CASE PendingUntrack(t)
    BY <2>7 DEF PendingUntrack
  <2> QED
    BY <1>4, <2>1, <2>2, <2>3, <2>4, <2>5, <2>6, <2>7 DEF DirectStep
<1>5. CASE PrepareStep(t)
  <2>1. CASE PrepareLock(t)
    BY <2>1 DEF PrepareLock, HasOpenResult
  <2>2. CASE PrepareConn(t)
    BY <2>2 DEF PrepareConn
  <2>3. CASE PrepareCall(t)
    <3>1. preparedStatements' \in {preparedStatements, Tracked(curStmt[t])}
      BY <2>3 DEF PrepareCall
    <3>2. preparedStatements' \subseteq Stmts
      BY <3>1 DEF Tracked
    <3>3. /\ UNCHANGED << connRef, closing, pendingQueries, appenders, contextLock,
                          todoStmts, todoAppenders >>
          /\ connRefLock' = NoThread /\ interrupted' = FALSE
          /\ transactionRunning' = (transactionRunning \/ ~AutoCommit)
      BY <2>3 DEF PrepareCall
    <3> QED BY <3>2, <3>3
  <2>4. CASE PrepareUnlock(t)
    BY <2>4 DEF PrepareUnlock
  <2> QED
    BY <1>5, <2>1, <2>2, <2>3, <2>4 DEF PrepareStep
<1>6. CASE StmtCloseStep(t)
  BY <1>6 DEF StmtCloseStep, StmtCloseEnter, StmtCloseLock, StmtCloseRelease,
      StmtCloseReadClosing, StmtCloseUntrack, Untrack, ReleaseStmt, HasOpenResult
<1>7. CASE ResultCloseStep(t)
  BY <1>7 DEF ResultCloseStep, ResultCloseRead, ResultCloseFree, ResultCloseStmt, NullPointer,
      ResultCloseNested, ResultCloseReadClosing,
      ResultCloseUntrack, Untrack, ReleaseStmt
<1>8. CASE FetchStep(t)
  BY <1>8 DEF FetchStep, FetchLockConn, FetchLockResult, FetchReturns, FetchThrows,
      FetchError, FetchUnlock, ResultSetClose, CloseResult, ForgetResult
<1>9. CASE ConnCloseStep(t)
  BY <1>9 DEF ConnCloseStep, ConnCloseLock, ConnClosePending, ConnClosePendingDone,
      ConnCloseStmt, ConnCloseStmtsDone, ConnCloseAppender, ConnCloseAppendersDone,
      ConnDisconnect
<1>10. CASE ConnCallStep(t)
  BY <1>10 DEF ConnCallStep, ConnCallLock, ConnCallReturns, CancelInterrupt
<1>11. CASE AppenderStep(t)
  BY <1>11 DEF AppenderStep, AppenderCreate, AppenderTrack, AppenderLock,
      AppenderReturns, AppenderCloseLock, AppenderDestroy, AppenderReadClosing,
      AppenderUntrack, AppenderUnlock
<1>12. CASE QueryEnds(t)
  BY <1>12 DEF QueryEnds, ExecuteReturns, ExecuteThrows, DirectReturns, DirectThrows,
      NewResult
<1> QED
  BY <1>1, <1>2, <1>3, <1>4, <1>5, <1>6, <1>7, <1>8, <1>9, <1>10, <1>11, <1>12 DEF ThreadStep, DriverStep

\* Every step of a thread keeps the types of the statements.
LEMMA StmtTypeOKStep ==
  ASSUME TypeOK, NEW t \in Threads, ThreadStep(t)
  PROVE  StmtTypeOK'
<1> USE ConstantsAssumption DEF TypeOK, StmtTypeOK, ThreadTypeOK,
      Goto, driverVars, objectVars, localVars, connVars, trackVars, engineVars,
      stmtVars, resultVars, pendingVars, appenderVars, curVars, retVars, auxVars
<1>1. CASE StartStmt(t)
  <2>1. ASSUME NEW s \in Stmts, StartExecute(t, s) PROVE StmtTypeOK'
    BY <2>1 DEF StartExecute, Starts
  <2>2. ASSUME NEW s \in Stmts, StartPrepare(t, s) PROVE StmtTypeOK'
    BY <2>2 DEF StartPrepare, Starts
  <2>3. ASSUME NEW s \in Stmts, StartCloseStmt(t, s) PROVE StmtTypeOK'
    BY <2>3 DEF StartCloseStmt, Starts
  <2>4. ASSUME NEW s \in Stmts, GetResultSet(t, s) PROVE StmtTypeOK'
    BY <2>4 DEF GetResultSet, Starts
  <2>5. ASSUME NEW s \in Stmts, SetCloseOnCompletion(t, s) PROVE StmtTypeOK'
    BY <2>5 DEF SetCloseOnCompletion, Starts
  <2>6. ASSUME NEW s \in Stmts, StartCancel(t, s) PROVE StmtTypeOK'
    BY <2>6 DEF StartCancel, Starts
  <2> QED
    BY <1>1, <2>1, <2>2, <2>3, <2>4, <2>5, <2>6 DEF StartStmt
<1>2. CASE StartOther(t)
  BY <1>2 DEF StartOther, StartNext, StartCloseResult, StartCloseConn, StartConnCall,
      StartNewAppender, StartFlush, StartCloseAppender, Starts, StartConn, StartAppender
<1>3. CASE ExecuteStep(t)
  <2>1. CASE ExecuteBarrier(t)
    BY <2>1 DEF ExecuteBarrier
  <2>2. CASE ExecuteLock(t)
    BY <2>2 DEF ExecuteLock, HasOpenResult
  <2>3. CASE ExecuteTx(t)
    BY <2>3 DEF ExecuteTx, Dispatch
  <2>4. CASE ExecuteBegin(t)
    BY <2>4 DEF ExecuteBegin, Dispatch
  <2>5. CASE ExecuteNative(t)
    BY <2>5 DEF ExecuteNative
  <2>6. CASE ExecuteUnlock(t)
    BY <2>6 DEF ExecuteUnlock
  <2>7. CASE ExecuteReset(t)
    BY <2>7 DEF ExecuteReset
  <2>8. CASE ExecutePost(t)
    BY <2>8 DEF ExecutePost, HasOpenResult
  <2>9. CASE ExecutePostClose(t)
    BY <2>9 DEF ExecutePostClose, HasOpenResult
  <2>10. CASE ExecuteFailRead(t)
    BY <2>10 DEF ExecuteFailRead
  <2> QED
    BY <1>3, <2>1, <2>2, <2>3, <2>4, <2>5, <2>6, <2>7, <2>8, <2>9, <2>10 DEF ExecuteStep
<1>4. CASE DirectStep(t)
  BY <1>4 DEF DirectStep, DirectLockConn, DirectPendingQuery, DirectLockPending,
      DirectExecute, PendingClose, PendingReadClosing, PendingUntrack, Tracked
<1>5. CASE PrepareStep(t)
  <2>1. CASE PrepareLock(t)
    <3>1. stmtRefLock' \in [Stmts -> Threads \cup {NoThread}]
      BY <2>1 DEF PrepareLock
    <3>2. stmtRef' \in [Stmts -> BOOLEAN]
      BY <2>1 DEF PrepareLock
    <3>3. UNCHANGED << stmtConn, query, closeOnCompletion, selectResult, constructed >>
      BY <2>1 DEF PrepareLock
    <3> QED BY <3>1, <3>2, <3>3
  <2>2. CASE PrepareConn(t)
    BY <2>2 DEF PrepareConn
  <2>3. CASE PrepareCall(t)
    BY <2>3 DEF PrepareCall, Tracked
  <2>4. CASE PrepareUnlock(t)
    BY <2>4 DEF PrepareUnlock
  <2> QED
    BY <1>5, <2>1, <2>2, <2>3, <2>4 DEF PrepareStep
<1>6. CASE StmtCloseStep(t)
  <2>1. CASE StmtCloseEnter(t)
    BY <2>1 DEF StmtCloseEnter
  <2>2. CASE StmtCloseLock(t)
    BY <2>2 DEF StmtCloseLock, HasOpenResult
  <2>3. CASE StmtCloseRelease(t)
    BY <2>3 DEF StmtCloseRelease, ReleaseStmt
  <2>4. CASE StmtCloseReadClosing(t)
    BY <2>4 DEF StmtCloseReadClosing
  <2>5. CASE StmtCloseUntrack(t)
    BY <2>5 DEF StmtCloseUntrack, Untrack
  <2> QED
    BY <1>6, <2>1, <2>2, <2>3, <2>4, <2>5 DEF StmtCloseStep
<1>7. CASE ResultCloseStep(t)
  BY <1>7 DEF ResultCloseStep, ResultCloseRead, ResultCloseFree, ResultCloseStmt, NullPointer,
      ResultCloseNested, ResultCloseReadClosing,
      ResultCloseUntrack, Untrack, ReleaseStmt
<1>8. CASE FetchStep(t)
  BY <1>8 DEF FetchStep, FetchLockConn, FetchLockResult, FetchReturns, FetchThrows,
      FetchError, FetchUnlock, ResultSetClose, CloseResult, ForgetResult
<1>9. CASE ConnCloseStep(t)
  BY <1>9 DEF ConnCloseStep, ConnCloseLock, ConnClosePending, ConnClosePendingDone,
      ConnCloseStmt, ConnCloseStmtsDone, ConnCloseAppender, ConnCloseAppendersDone,
      ConnDisconnect
<1>10. CASE ConnCallStep(t)
  BY <1>10 DEF ConnCallStep, ConnCallLock, ConnCallReturns, CancelInterrupt
<1>11. CASE AppenderStep(t)
  BY <1>11 DEF AppenderStep, AppenderCreate, AppenderTrack, AppenderLock,
      AppenderReturns, AppenderCloseLock, AppenderDestroy, AppenderReadClosing,
      AppenderUntrack, AppenderUnlock
<1>12. CASE QueryEnds(t)
  BY <1>12 DEF QueryEnds, ExecuteReturns, ExecuteThrows, DirectReturns, DirectThrows,
      NewResult
<1> QED
  BY <1>1, <1>2, <1>3, <1>4, <1>5, <1>6, <1>7, <1>8, <1>9, <1>10, <1>11, <1>12 DEF ThreadStep, DriverStep

\* Every step of a thread keeps the types of the results, pending queries and appenders.
LEMMA HandleTypeOKStep ==
  ASSUME TypeOK, NEW t \in Threads, ThreadStep(t)
  PROVE  HandleTypeOK'
<1> USE ConstantsAssumption DEF TypeOK, HandleTypeOK, StmtTypeOK, ThreadTypeOK,
      Goto, driverVars, objectVars, localVars, connVars, trackVars, engineVars,
      stmtVars, resultVars, pendingVars, appenderVars, curVars, retVars, auxVars
<1>1. CASE StartStmt(t)
  BY <1>1 DEF StartStmt, StartExecute, StartPrepare, StartCloseStmt, GetResultSet,
      SetCloseOnCompletion, StartCancel, Starts
<1>2. CASE StartOther(t)
  BY <1>2 DEF StartOther, StartNext, StartCloseResult, StartCloseConn, StartConnCall,
      StartNewAppender, StartFlush, StartCloseAppender, Starts, StartConn, StartAppender
<1>3. CASE ExecuteStep(t)
  BY <1>3 DEF ExecuteStep, ExecuteBarrier, ExecuteLock, ExecuteTx, ExecuteBegin,
      ExecuteNative, ExecuteUnlock, ExecuteReset, ExecuteFailRead, ExecutePost, ExecutePostClose,
      Dispatch, HasOpenResult
<1>4. CASE DirectStep(t)
  <2>1. CASE DirectLockConn(t)
    BY <2>1 DEF DirectLockConn
  <2>2. CASE DirectPendingQuery(t)
    BY <2>2 DEF DirectPendingQuery, Tracked
  <2>3. CASE DirectLockPending(t)
    BY <2>3 DEF DirectLockPending
  <2>4. CASE DirectExecute(t)
    BY <2>4 DEF DirectExecute
  <2>5. CASE PendingClose(t)
    BY <2>5 DEF PendingClose
  <2>6. CASE PendingReadClosing(t)
    BY <2>6 DEF PendingReadClosing
  <2>7. CASE PendingUntrack(t)
    BY <2>7 DEF PendingUntrack
  <2> QED
    BY <1>4, <2>1, <2>2, <2>3, <2>4, <2>5, <2>6, <2>7 DEF DirectStep
<1>5. CASE PrepareStep(t)
  BY <1>5 DEF PrepareStep, PrepareLock, PrepareConn, PrepareCall, PrepareUnlock,
      Tracked, HasOpenResult
<1>6. CASE StmtCloseStep(t)
  BY <1>6 DEF StmtCloseStep, StmtCloseEnter, StmtCloseLock, StmtCloseRelease,
      StmtCloseReadClosing, StmtCloseUntrack, Untrack, ReleaseStmt, HasOpenResult
<1>7. CASE ResultCloseStep(t)
  BY <1>7 DEF ResultCloseStep, ResultCloseRead, ResultCloseFree, ResultCloseStmt, NullPointer,
      ResultCloseNested, ResultCloseReadClosing,
      ResultCloseUntrack, Untrack, ReleaseStmt
<1>8. CASE FetchStep(t)
  <2>1. CASE FetchLockConn(t)
    BY <2>1 DEF FetchLockConn, CanLock
  <2>2. CASE FetchLockResult(t)
    BY <2>2 DEF FetchLockResult, CanLock
  <2>3. CASE FetchReturns(t)
    BY <2>3 DEF FetchReturns
  <2>4. CASE FetchThrows(t)
    BY <2>4 DEF FetchThrows
  <2>5. CASE FetchError(t)
    BY <2>5 DEF FetchError, CloseResult
  <2>6. CASE FetchUnlock(t)
    BY <2>6 DEF FetchUnlock
  <2>7. CASE ResultSetClose(t)
    BY <2>7 DEF ResultSetClose, CloseResult
  <2>8. CASE ForgetResult(t)
    BY <2>8 DEF ForgetResult
  <2> QED
    BY <1>8, <2>1, <2>2, <2>3, <2>4, <2>5, <2>6, <2>7, <2>8 DEF FetchStep
<1>9. CASE ConnCloseStep(t)
  <2>1. CASE ConnCloseLock(t)
    BY <2>1 DEF ConnCloseLock
  <2>2. CASE ConnClosePending(t)
    BY <2>2 DEF ConnClosePending
  <2>3. CASE ConnClosePendingDone(t)
    BY <2>3 DEF ConnClosePendingDone
  <2>4. CASE ConnCloseStmt(t)
    BY <2>4 DEF ConnCloseStmt
  <2>5. CASE ConnCloseStmtsDone(t)
    BY <2>5 DEF ConnCloseStmtsDone
  <2>6. CASE ConnCloseAppender(t)
    BY <2>6 DEF ConnCloseAppender
  <2>7. CASE ConnCloseAppendersDone(t)
    BY <2>7 DEF ConnCloseAppendersDone
  <2>8. CASE ConnDisconnect(t)
    BY <2>8 DEF ConnDisconnect
  <2> QED
    BY <1>9, <2>1, <2>2, <2>3, <2>4, <2>5, <2>6, <2>7, <2>8 DEF ConnCloseStep
<1>10. CASE ConnCallStep(t)
  BY <1>10 DEF ConnCallStep, ConnCallLock, ConnCallReturns, CancelInterrupt
<1>11. CASE AppenderStep(t)
  BY SMTT(30), <1>11 DEF AppenderStep, AppenderCreate, AppenderTrack, AppenderLock,
      AppenderReturns, AppenderCloseLock, AppenderDestroy, AppenderReadClosing,
      AppenderUntrack, AppenderUnlock
<1>12. CASE QueryEnds(t)
  <2>1. CASE ExecuteReturns(t)
    BY <2>1 DEF ExecuteReturns, NewResult
  <2>2. CASE ExecuteThrows(t)
    BY <2>2 DEF ExecuteThrows
  <2>3. CASE DirectReturns(t)
    BY <2>3 DEF DirectReturns, NewResult
  <2>4. CASE DirectThrows(t)
    BY <2>4 DEF DirectThrows
  <2> QED
    BY <1>12, <2>1, <2>2, <2>3, <2>4 DEF QueryEnds
<1> QED
  BY <1>1, <1>2, <1>3, <1>4, <1>5, <1>6, <1>7, <1>8, <1>9, <1>10, <1>11, <1>12 DEF ThreadStep, DriverStep

\* Every step of a thread keeps the types of the threads' program counters, arguments and return addresses.
LEMMA ThreadTypeOKStep ==
  ASSUME TypeOK, NEW t \in Threads, ThreadStep(t)
  PROVE  ThreadTypeOK'
<1> USE ConstantsAssumption DEF TypeOK, ThreadTypeOK, ConnTypeOK, StmtTypeOK,
      Goto, driverVars, objectVars, localVars, connVars, trackVars, engineVars,
      stmtVars, resultVars, pendingVars, appenderVars, curVars, retVars, auxVars
<1>1. CASE StartStmt(t)
  BY LabelFacts, <1>1 DEF StartStmt, StartExecute, StartPrepare, StartCloseStmt,
      GetResultSet, SetCloseOnCompletion, StartCancel, Starts
<1>2. CASE StartOther(t)
  <2>1. ASSUME NEW r \in Results, StartNext(t, r) PROVE ThreadTypeOK'
    BY LabelFacts, <2>1 DEF StartNext, Starts
  <2>2. ASSUME NEW r \in Results, StartCloseResult(t, r) PROVE ThreadTypeOK'
    BY LabelFacts, <2>2 DEF StartCloseResult, Starts
  <2>3. CASE StartCloseConn(t)
    BY LabelFacts, <2>3 DEF StartCloseConn, Starts, StartConn
  <2>4. CASE StartConnCall(t)
    BY LabelFacts, <2>4 DEF StartConnCall, Starts, StartConn
  <2>5. ASSUME NEW a \in Appenders, StartNewAppender(t, a) PROVE ThreadTypeOK'
    BY LabelFacts, <2>5 DEF StartNewAppender, Starts, StartAppender
  <2>6. ASSUME NEW a \in Appenders, StartFlush(t, a) PROVE ThreadTypeOK'
    BY LabelFacts, <2>6 DEF StartFlush, Starts, StartAppender
  <2>7. ASSUME NEW a \in Appenders, StartCloseAppender(t, a) PROVE ThreadTypeOK'
    BY LabelFacts, <2>7 DEF StartCloseAppender, Starts, StartAppender
  <2> QED
    BY <1>2, <2>1, <2>2, <2>3, <2>4, <2>5, <2>6, <2>7 DEF StartOther
<1>3. CASE ExecuteStep(t)
  <2>1. CASE ExecuteBarrier(t)
    <3>1. pc' \in [Threads -> Labels]
      BY LabelFacts, <2>1 DEF ExecuteBarrier
    <3>2. UNCHANGED << curStmt, curResult, curAppender, retStmtClose, retResultClose, retNext, retAppClose, ops >>
      BY <2>1 DEF ExecuteBarrier
    <3> QED BY <3>1, <3>2
  <2>2. CASE ExecuteLock(t)
    <3>1. curResult' \in [Threads -> Results]
      BY <2>2 DEF ExecuteLock, HasOpenResult
    <3>2. pc' \in [Threads -> Labels]
      BY LabelFacts, <2>2 DEF ExecuteLock
    <3>3. retResultClose' \in [Threads -> {"exTx", "scRelease", "pConn", "pUnlock"}]
      BY <2>2 DEF ExecuteLock
    <3>4. UNCHANGED << curStmt, curAppender, retStmtClose, retNext, retAppClose, ops >>
      BY <2>2 DEF ExecuteLock
    <3> QED BY <3>1, <3>2, <3>3, <3>4
  <2>3. CASE ExecuteTx(t)
    BY LabelFacts, <2>3 DEF ExecuteTx, Dispatch
  <2>4. CASE ExecuteBegin(t)
    BY LabelFacts, <2>4 DEF ExecuteBegin, Dispatch
  <2>5. CASE ExecuteNative(t)
    BY LabelFacts, <2>5 DEF ExecuteNative
  <2>6. CASE ExecuteUnlock(t)
    BY LabelFacts, <2>6 DEF ExecuteUnlock
  <2>7. CASE ExecuteReset(t)
    BY LabelFacts, <2>7 DEF ExecuteReset
  <2>8. CASE ExecutePost(t)
    <3>1. curResult' \in [Threads -> Results]
      BY <2>8 DEF ExecutePost, HasOpenResult
    <3>2. pc' \in [Threads -> Labels]
      BY LabelFacts, <2>8 DEF ExecutePost
    <3>3. retNext' \in [Threads -> {"idle", "exPostClose"}]
      BY <2>8 DEF ExecutePost
    <3>4. UNCHANGED << curStmt, curAppender, retStmtClose, retResultClose, retAppClose, ops >>
      BY <2>8 DEF ExecutePost
    <3> QED BY <3>1, <3>2, <3>3, <3>4
  <2>9. CASE ExecutePostClose(t)
    <3>1. curResult' \in [Threads -> Results]
      BY <2>9 DEF ExecutePostClose, HasOpenResult
    <3>2. pc' \in [Threads -> Labels]
      BY LabelFacts, <2>9 DEF ExecutePostClose
    <3>3. UNCHANGED << curStmt, curAppender, retStmtClose, retResultClose, retNext, retAppClose, ops >>
      BY <2>9 DEF ExecutePostClose
    <3> QED BY <3>1, <3>2, <3>3
  <2>10. CASE ExecuteFailRead(t)
    BY LabelFacts, <2>10 DEF ExecuteFailRead
  <2> QED
    BY <1>3, <2>1, <2>2, <2>3, <2>4, <2>5, <2>6, <2>7, <2>8, <2>9, <2>10 DEF ExecuteStep
<1>4. CASE DirectStep(t)
  BY LabelFacts, <1>4 DEF DirectStep, DirectLockConn, DirectPendingQuery,
      DirectLockPending, DirectExecute, PendingClose, PendingReadClosing,
      PendingUntrack, Tracked
<1>5. CASE PrepareStep(t)
  <2>1. CASE PrepareLock(t)
    <3>1. curResult' \in [Threads -> Results]
      BY <2>1 DEF PrepareLock, HasOpenResult
    <3>2. pc' \in [Threads -> Labels]
      BY LabelFacts, <2>1 DEF PrepareLock
    <3>3. retResultClose' \in [Threads -> {"exTx", "scRelease", "pConn", "pUnlock"}]
      BY <2>1 DEF PrepareLock
    <3>4. UNCHANGED << curStmt, curAppender, retStmtClose, retNext, retAppClose, ops >>
      BY <2>1 DEF PrepareLock
    <3> QED BY <3>1, <3>2, <3>3, <3>4
  <2>2. CASE PrepareConn(t)
    <3>1. pc' \in [Threads -> Labels]
      BY LabelFacts, <2>2 DEF PrepareConn
    <3>2. retResultClose' \in [Threads -> {"exTx", "scRelease", "pConn", "pUnlock"}]
      BY <2>2 DEF PrepareConn
    <3>3. UNCHANGED << curStmt, curResult, curAppender, retStmtClose, retNext, retAppClose, ops >>
      BY <2>2 DEF PrepareConn
    <3> QED BY <3>1, <3>2, <3>3
  <2>3. CASE PrepareCall(t)
    <3>1. pc' \in [Threads -> Labels]
      BY LabelFacts, <2>3 DEF PrepareCall
    <3>2. retResultClose' \in [Threads -> {"exTx", "scRelease", "pConn", "pUnlock"}]
      BY <2>3 DEF PrepareCall
    <3>3. UNCHANGED << curStmt, curResult, curAppender, retStmtClose, retNext, retAppClose, ops >>
      BY <2>3 DEF PrepareCall
    <3> QED BY <3>1, <3>2, <3>3
  <2>4. CASE PrepareUnlock(t)
    BY LabelFacts, <2>4 DEF PrepareUnlock
  <2> QED
    BY <1>5, <2>1, <2>2, <2>3, <2>4 DEF PrepareStep
<1>6. CASE StmtCloseStep(t)
  <2>1. CASE StmtCloseEnter(t)
    BY LabelFacts, <2>1 DEF StmtCloseEnter
  <2>2. CASE StmtCloseLock(t)
    <3>1. curResult' \in [Threads -> Results]
      BY <2>2 DEF StmtCloseLock, HasOpenResult
    <3>2. pc' \in [Threads -> Labels]
      BY LabelFacts, <2>2 DEF StmtCloseLock
    <3>3. retResultClose' \in [Threads -> {"exTx", "scRelease", "pConn", "pUnlock"}]
      BY <2>2 DEF StmtCloseLock
    <3>4. UNCHANGED << curStmt, curAppender, retStmtClose, retNext, retAppClose, ops >>
      BY <2>2 DEF StmtCloseLock
    <3> QED BY <3>1, <3>2, <3>3, <3>4
  <2>3. CASE StmtCloseRelease(t)
    BY LabelFacts, <2>3 DEF StmtCloseRelease, ReleaseStmt
  <2>4. CASE StmtCloseReadClosing(t)
    BY LabelFacts, <2>4 DEF StmtCloseReadClosing
  <2>5. CASE StmtCloseUntrack(t)
    BY LabelFacts, <2>5 DEF StmtCloseUntrack, Untrack
  <2> QED
    BY <1>6, <2>1, <2>2, <2>3, <2>4, <2>5 DEF StmtCloseStep
<1>7. CASE ResultCloseStep(t)
  <2>1. CASE ResultCloseRead(t)
    BY LabelFacts, <2>1 DEF ResultCloseRead, NullPointer
  <2>2. CASE ResultCloseFree(t)
    BY LabelFacts, <2>2 DEF ResultCloseFree
  <2>3. CASE ResultCloseStmt(t)
    BY LabelFacts, <2>3 DEF ResultCloseStmt, ReleaseStmt
  <2>4. CASE ResultCloseNested(t)
    BY LabelFacts, <2>4 DEF ResultCloseNested, NullPointer, ReleaseStmt
  <2>5. CASE ResultCloseReadClosing(t)
    BY LabelFacts, <2>5 DEF ResultCloseReadClosing
  <2>6. CASE ResultCloseUntrack(t)
    BY LabelFacts, <2>6 DEF ResultCloseUntrack, Untrack
  <2> QED
    BY <1>7, <2>1, <2>2, <2>3, <2>4, <2>5, <2>6 DEF ResultCloseStep
<1>8. CASE FetchStep(t)
  <2>1. CASE FetchLockConn(t)
    BY LabelFacts, <2>1 DEF FetchLockConn
  <2>2. CASE FetchLockResult(t)
    <3>1. pc' \in [Threads -> Labels]
      <4>1. pc' = [pc EXCEPT ![t] = "fErr"] \/ pc' = [pc EXCEPT ![t] = "fCall"]
        BY <2>2 DEF FetchLockResult
      <4> QED BY LabelFacts, <4>1
    <3>2. UNCHANGED << curStmt, curResult, curAppender, retStmtClose, retResultClose, retNext,
                       retAppClose, ops >>
      BY <2>2 DEF FetchLockResult
    <3> QED BY <3>1, <3>2
  <2>3. CASE FetchReturns(t)
    BY LabelFacts, <2>3 DEF FetchReturns
  <2>4. CASE FetchThrows(t)
    BY LabelFacts, <2>4 DEF FetchThrows
  <2>5. CASE FetchError(t)
    <3>1. curStmt' \in [Threads -> Stmts]
      BY <2>5 DEF FetchError, CloseResult
    <3>2. pc' \in [Threads -> Labels]
      BY LabelFacts, <2>5 DEF FetchError, CloseResult
    <3>3. retStmtClose' \in [Threads -> {"idle", "ccStmts", "fUnlock"}]
      BY <2>5 DEF FetchError, CloseResult
    <3>4. UNCHANGED << curResult, curAppender, retResultClose, retNext, retAppClose, ops >>
      BY <2>5 DEF FetchError, CloseResult
    <3> QED BY <3>1, <3>2, <3>3, <3>4
  <2>6. CASE FetchUnlock(t)
    BY LabelFacts, <2>6 DEF FetchUnlock
  <2>7. CASE ResultSetClose(t)
    <3>1. curStmt' \in [Threads -> Stmts]
      BY <2>7 DEF ResultSetClose, CloseResult
    <3>2. pc' \in [Threads -> Labels]
      BY LabelFacts, <2>7 DEF ResultSetClose, CloseResult
    <3>3. retStmtClose' \in [Threads -> {"idle", "ccStmts", "fUnlock"}]
      BY <2>7 DEF ResultSetClose, CloseResult
    <3>4. UNCHANGED << curResult, curAppender, retResultClose, retNext, retAppClose, ops >>
      BY <2>7 DEF ResultSetClose, CloseResult
    <3> QED BY <3>1, <3>2, <3>3, <3>4
  <2>8. CASE ForgetResult(t)
    BY LabelFacts, <2>8 DEF ForgetResult
  <2> QED
    BY <1>8, <2>1, <2>2, <2>3, <2>4, <2>5, <2>6, <2>7, <2>8 DEF FetchStep
<1>9. CASE ConnCloseStep(t)
  <2>1. CASE ConnCloseLock(t)
    BY LabelFacts, <2>1 DEF ConnCloseLock
  <2>2. CASE ConnClosePending(t)
    BY LabelFacts, <2>2 DEF ConnClosePending
  <2>3. CASE ConnClosePendingDone(t)
    BY LabelFacts, <2>3 DEF ConnClosePendingDone
  <2>4. CASE ConnCloseStmt(t)
    BY LabelFacts, <2>4 DEF ConnCloseStmt
  <2>5. CASE ConnCloseStmtsDone(t)
    BY LabelFacts, <2>5 DEF ConnCloseStmtsDone
  <2>6. CASE ConnCloseAppender(t)
    BY LabelFacts, <2>6 DEF ConnCloseAppender
  <2>7. CASE ConnCloseAppendersDone(t)
    BY LabelFacts, <2>7 DEF ConnCloseAppendersDone
  <2>8. CASE ConnDisconnect(t)
    BY LabelFacts, <2>8 DEF ConnDisconnect
  <2> QED
    BY <1>9, <2>1, <2>2, <2>3, <2>4, <2>5, <2>6, <2>7, <2>8 DEF ConnCloseStep
<1>10. CASE ConnCallStep(t)
  BY LabelFacts, <1>10 DEF ConnCallStep, ConnCallLock, ConnCallReturns, CancelInterrupt
<1>11. CASE AppenderStep(t)
  BY LabelFacts, <1>11 DEF AppenderStep, AppenderCreate, AppenderTrack, AppenderLock,
      AppenderReturns, AppenderCloseLock, AppenderDestroy, AppenderReadClosing,
      AppenderUntrack, AppenderUnlock
<1>12. CASE QueryEnds(t)
  BY LabelFacts, <1>12 DEF QueryEnds, ExecuteReturns, ExecuteThrows, DirectReturns,
      DirectThrows, NewResult
<1> QED
  BY <1>1, <1>2, <1>3, <1>4, <1>5, <1>6, <1>7, <1>8, <1>9, <1>10, <1>11, <1>12 DEF ThreadStep, DriverStep

-----------------------------------------------------------------------------
(***************************************************************************)
(* The locks and the handles they protect.                                 *)
(***************************************************************************)
\* Every step of a thread keeps the statement locks exclusive.
LEMMA StmtLockInvStep ==
  ASSUME IInv, NEW t \in Threads, ThreadStep(t)
  PROVE  StmtLockInv'
<1> USE ConstantsAssumption DEF IInv, TypeOK, StmtTypeOK, ThreadTypeOK, StmtLockInv,
      StmtLocked,
      Goto, driverVars, objectVars, localVars, connVars, trackVars, engineVars,
      stmtVars, resultVars, pendingVars, appenderVars, curVars, retVars, auxVars
<1> SUFFICES ASSUME NEW u \in Threads, pc'[u] \in StmtLocked
             PROVE  stmtRefLock'[curStmt'[u]] = u
  BY DEF StmtLockInv
<1>1. CASE StartStmt(t)
  BY <1>1 DEF StartStmt, StartExecute, StartPrepare, StartCloseStmt, GetResultSet,
      SetCloseOnCompletion, StartCancel, Starts
<1>2. CASE StartOther(t)
  BY <1>2 DEF StartOther, StartNext, StartCloseResult, StartCloseConn, StartConnCall,
      StartNewAppender, StartFlush, StartCloseAppender, Starts, StartConn, StartAppender
<1>3. CASE ExecuteStep(t)
  BY <1>3 DEF ExecuteStep, ExecuteBarrier, ExecuteLock, ExecuteTx, ExecuteBegin,
      ExecuteNative, ExecuteUnlock, ExecuteReset, ExecuteFailRead, ExecutePost, ExecutePostClose,
      Dispatch
<1>4. CASE DirectStep(t)
  BY <1>4 DEF DirectStep, DirectLockConn, DirectPendingQuery, DirectLockPending,
      DirectExecute, PendingClose, PendingReadClosing, PendingUntrack, Tracked
<1>5. CASE PrepareStep(t)
  BY <1>5 DEF PrepareStep, PrepareLock, PrepareConn, PrepareCall, PrepareUnlock, Tracked
<1>6. CASE StmtCloseStep(t)
  BY <1>6 DEF StmtCloseStep, StmtCloseEnter, StmtCloseLock, StmtCloseRelease,
      StmtCloseReadClosing, StmtCloseUntrack, Untrack, ReleaseStmt
<1>7. CASE ResultCloseStep(t)
  BY <1>7 DEF ResultCloseStep, ResultCloseRead, ResultCloseFree, ResultCloseStmt, NullPointer,
      ResultCloseNested, ResultCloseReadClosing,
      ResultCloseUntrack, Untrack, ReleaseStmt
<1>8. CASE FetchStep(t)
  BY <1>8 DEF FetchStep, FetchLockConn, FetchLockResult, FetchReturns, FetchThrows,
      FetchError, FetchUnlock, ResultSetClose, CloseResult, ForgetResult
<1>9. CASE ConnCloseStep(t)
  BY <1>9 DEF ConnCloseStep, ConnCloseLock, ConnClosePending, ConnClosePendingDone,
      ConnCloseStmt, ConnCloseStmtsDone, ConnCloseAppender, ConnCloseAppendersDone,
      ConnDisconnect
<1>10. CASE ConnCallStep(t)
  BY <1>10 DEF ConnCallStep, ConnCallLock, ConnCallReturns, CancelInterrupt
<1>11. CASE AppenderStep(t)
  BY <1>11 DEF AppenderStep, AppenderCreate, AppenderTrack, AppenderLock,
      AppenderReturns, AppenderCloseLock, AppenderDestroy, AppenderReadClosing,
      AppenderUntrack, AppenderUnlock
<1>12. CASE QueryEnds(t)
  BY <1>12 DEF QueryEnds, ExecuteReturns, ExecuteThrows, DirectReturns, DirectThrows,
      NewResult
<1> QED
  BY <1>1, <1>2, <1>3, <1>4, <1>5, <1>6, <1>7, <1>8, <1>9, <1>10, <1>11, <1>12 DEF ThreadStep, DriverStep

\* Every step of a thread keeps the connection lock exclusive, and connRef alive
\* for the thread that found it so under the lock.
LEMMA ConnLockInvStep ==
  ASSUME IInv, NEW t \in Threads, ThreadStep(t)
  PROVE  ConnLockInv'
<1> USE ConstantsAssumption DEF IInv, TypeOK, ConnTypeOK, ThreadTypeOK, ConnLockInv,
      InConnClose, InStmtClose, InConnAppClose, StmtCloseLabels, ResultCloseLabels,
      Goto, driverVars, objectVars, localVars, connVars, trackVars, engineVars,
      stmtVars, resultVars, pendingVars, appenderVars, curVars, retVars, auxVars
<1> DEFINE Safe(u) ==
        /\ \/ pc[u] \in {"dqQuery", "pCall", "fRes", "fCall", "kCall"}
           \/ InConnClose(u)
           => connRefLock = u /\ connRef
        /\ pc[u] \in {"fErr", "fUnlock"} \/ InStmtClose(u, {"fUnlock"}) => connRefLock = u
<1> SUFFICES ASSUME NEW u \in Threads PROVE Safe(u)'
  BY DEF ConnLockInv
<1>1. CASE StartStmt(t)
  BY <1>1 DEF StartStmt, StartExecute, StartPrepare, StartCloseStmt, GetResultSet,
      SetCloseOnCompletion, StartCancel, Starts
<1>2. CASE StartOther(t)
  BY <1>2 DEF StartOther, StartNext, StartCloseResult, StartCloseConn, StartConnCall,
      StartNewAppender, StartFlush, StartCloseAppender, Starts, StartConn, StartAppender
<1>3. CASE ExecuteStep(t)
  <2>1. CASE ExecuteBarrier(t)
    BY <2>1 DEF ExecuteBarrier, CanLock
  <2>2. CASE ExecuteLock(t)
    BY <2>2 DEF ExecuteLock, StmtIsOpen
  <2>3. CASE ExecuteTx(t)
    BY <2>3 DEF ExecuteTx, Dispatch, StmtIsOpen
  <2>4. CASE ExecuteBegin(t)
    BY <2>4 DEF ExecuteBegin, Dispatch, CanLock
  <2>5. CASE ExecuteNative(t)
    BY <2>5 DEF ExecuteNative
  <2>6. CASE ExecuteUnlock(t)
    BY <2>6 DEF ExecuteUnlock
  <2>7. CASE ExecuteReset(t)
    BY <2>7 DEF ExecuteReset
  <2>8. CASE ExecuteFailRead(t)
    BY <2>8 DEF ExecuteFailRead
  <2>9. CASE ExecutePost(t)
    BY <2>9 DEF ExecutePost, HasOpenResult
  <2>10. CASE ExecutePostClose(t)
    BY <2>10 DEF ExecutePostClose, HasOpenResult
  <2> QED
    BY <1>3, <2>1, <2>2, <2>3, <2>4, <2>5, <2>6, <2>7, <2>8, <2>9, <2>10 DEF ExecuteStep
<1>4. CASE DirectStep(t)
  BY <1>4 DEF DirectStep, DirectLockConn, DirectPendingQuery, DirectLockPending,
      DirectExecute, PendingClose, PendingReadClosing, PendingUntrack, Tracked, CanLock
<1>5. CASE PrepareStep(t)
  BY <1>5 DEF PrepareStep, PrepareLock, PrepareConn, PrepareCall, PrepareUnlock,
      Tracked, CanLock
<1>6. CASE StmtCloseStep(t)
  BY <1>6 DEF StmtCloseStep, StmtCloseEnter, StmtCloseLock, StmtCloseRelease,
      StmtCloseReadClosing, StmtCloseUntrack, Untrack, ReleaseStmt, CanLock
<1>7. CASE ResultCloseStep(t)
  BY <1>7 DEF ResultCloseStep, ResultCloseRead, ResultCloseFree, ResultCloseStmt, NullPointer,
      ResultCloseNested, ResultCloseReadClosing,
      ResultCloseUntrack, Untrack, ReleaseStmt, CanLock
<1>8. CASE FetchStep(t)
  BY <1>8 DEF FetchStep, FetchLockConn, FetchLockResult, FetchReturns, FetchThrows,
      FetchError, FetchUnlock, ResultSetClose, CloseResult, ForgetResult, CanLock
<1>9. CASE ConnCloseStep(t)
  BY <1>9 DEF ConnCloseStep, ConnCloseLock, ConnClosePending, ConnClosePendingDone,
      ConnCloseStmt, ConnCloseStmtsDone, ConnCloseAppender, ConnCloseAppendersDone,
      ConnDisconnect, CanLock
<1>10. CASE ConnCallStep(t)
  BY <1>10 DEF ConnCallStep, ConnCallLock, ConnCallReturns, CancelInterrupt, CanLock
<1>11. CASE AppenderStep(t)
  BY <1>11 DEF AppenderStep, AppenderCreate, AppenderTrack, AppenderLock,
      AppenderReturns, AppenderCloseLock, AppenderDestroy, AppenderReadClosing,
      AppenderUntrack, AppenderUnlock, CanLock
<1>12. CASE QueryEnds(t)
  BY <1>12 DEF QueryEnds, ExecuteReturns, ExecuteThrows, DirectReturns, DirectThrows,
      NewResult, CanLock
<1> QED
  BY <1>1, <1>2, <1>3, <1>4, <1>5, <1>6, <1>7, <1>8, <1>9, <1>10, <1>11, <1>12 DEF ThreadStep, DriverStep

\* No step of a thread releases the prepared statement another one executes.
LEMMA StmtRefInvStep ==
  ASSUME IInv, NEW t \in Threads, ThreadStep(t)
  PROVE  StmtRefInv'
<1> USE ConstantsAssumption DEF IInv, TypeOK, StmtTypeOK, ThreadTypeOK, StmtLockInv,
      StmtLocked, StmtRefInv, ResultCloseLabels,
      Goto, driverVars, objectVars, localVars, connVars, trackVars, engineVars,
      stmtVars, resultVars, pendingVars, appenderVars, curVars, retVars, auxVars
<1> DEFINE Safe(u) ==
        LET s == curStmt[u] IN
        /\ pc[u] \in {"exNative", "exRun"} => stmtRef[s]
        /\ pc[u] = "exBegin" /\ s \in Prepared => stmtRef[s]
        /\ /\ pc[u] = "exTx" \/ (pc[u] \in ResultCloseLabels /\ retResultClose[u] = "exTx")
           /\ stmtConn[s] /\ s \in Prepared
           => stmtRef[s]
<1> SUFFICES ASSUME NEW u \in Threads PROVE Safe(u)'
  BY DEF StmtRefInv
<1>1. CASE StartStmt(t)
  BY <1>1 DEF StartStmt, StartExecute, StartPrepare, StartCloseStmt, GetResultSet,
      SetCloseOnCompletion, StartCancel, Starts, StmtIsOpen
<1>2. CASE StartOther(t)
  BY <1>2 DEF StartOther, StartNext, StartCloseResult, StartCloseConn, StartConnCall,
      StartNewAppender, StartFlush, StartCloseAppender, Starts, StartConn, StartAppender
<1>3. CASE ExecuteStep(t)
  BY <1>3 DEF ExecuteStep, ExecuteBarrier, ExecuteLock, ExecuteTx, ExecuteBegin,
      ExecuteNative, ExecuteUnlock, ExecuteReset, ExecuteFailRead, ExecutePost, ExecutePostClose,
      Dispatch, StmtIsOpen, IsPrepared
<1>4. CASE DirectStep(t)
  BY <1>4 DEF DirectStep, DirectLockConn, DirectPendingQuery, DirectLockPending,
      DirectExecute, PendingClose, PendingReadClosing, PendingUntrack, Tracked
<1>5. CASE PrepareStep(t)
  BY <1>5 DEF PrepareStep, PrepareLock, PrepareConn, PrepareCall, PrepareUnlock,
      Tracked, StmtIsOpen
<1>6. CASE StmtCloseStep(t)
  BY <1>6 DEF StmtCloseStep, StmtCloseEnter, StmtCloseLock, StmtCloseRelease,
      StmtCloseReadClosing, StmtCloseUntrack, Untrack, ReleaseStmt, StmtIsOpen
<1>7. CASE ResultCloseStep(t)
  BY SMTT(30), <1>7 DEF ResultCloseStep, ResultCloseRead, ResultCloseFree, ResultCloseStmt, NullPointer,
      ResultCloseNested, ResultCloseReadClosing,
      ResultCloseUntrack, Untrack, ReleaseStmt, StmtIsOpen
<1>8. CASE FetchStep(t)
  BY <1>8 DEF FetchStep, FetchLockConn, FetchLockResult, FetchReturns, FetchThrows,
      FetchError, FetchUnlock, ResultSetClose, CloseResult, ForgetResult
<1>9. CASE ConnCloseStep(t)
  BY <1>9 DEF ConnCloseStep, ConnCloseLock, ConnClosePending, ConnClosePendingDone,
      ConnCloseStmt, ConnCloseStmtsDone, ConnCloseAppender, ConnCloseAppendersDone,
      ConnDisconnect
<1>10. CASE ConnCallStep(t)
  BY <1>10 DEF ConnCallStep, ConnCallLock, ConnCallReturns, CancelInterrupt, StmtIsOpen
<1>11. CASE AppenderStep(t)
  BY <1>11 DEF AppenderStep, AppenderCreate, AppenderTrack, AppenderLock,
      AppenderReturns, AppenderCloseLock, AppenderDestroy, AppenderReadClosing,
      AppenderUntrack, AppenderUnlock
<1>12. CASE QueryEnds(t)
  BY <1>12 DEF QueryEnds, ExecuteReturns, ExecuteThrows, DirectReturns, DirectThrows,
      NewResult
<1> QED
  BY <1>1, <1>2, <1>3, <1>4, <1>5, <1>6, <1>7, <1>8, <1>9, <1>10, <1>11, <1>12 DEF ThreadStep, DriverStep

\* No step of a thread releases the pending query or the result another one uses.
LEMMA QueryInvStep ==
  ASSUME IInv, NEW t \in Threads, ThreadStep(t)
  PROVE  QueryInv'
<1> USE ConstantsAssumption DEF IInv, TypeOK, HandleTypeOK, ThreadTypeOK, QueryInv,
      Goto, driverVars, objectVars, localVars, connVars, trackVars, engineVars,
      stmtVars, resultVars, pendingVars, appenderVars, curVars, retVars, auxVars
<1> DEFINE Safe(u) ==
        /\ pc[u] \in {"dqExec", "dqRun"} => pendingRef[u] /\ pendingRefLock[u] = u
        /\ pc[u] = "fCall" => /\ resultRef[curResult[u]] = "live"
                              /\ resultRefLock[curResult[u]] = u
<1> SUFFICES ASSUME NEW u \in Threads PROVE Safe(u)'
  BY DEF QueryInv
<1>1. CASE StartStmt(t)
  BY <1>1 DEF StartStmt, StartExecute, StartPrepare, StartCloseStmt, GetResultSet,
      SetCloseOnCompletion, StartCancel, Starts
<1>2. CASE StartOther(t)
  BY <1>2 DEF StartOther, StartNext, StartCloseResult, StartCloseConn, StartConnCall,
      StartNewAppender, StartFlush, StartCloseAppender, Starts, StartConn, StartAppender
<1>3. CASE ExecuteStep(t)
  BY <1>3 DEF ExecuteStep, ExecuteBarrier, ExecuteLock, ExecuteTx, ExecuteBegin,
      ExecuteNative, ExecuteUnlock, ExecuteReset, ExecuteFailRead, ExecutePost, ExecutePostClose,
      Dispatch, CanLock
<1>4. CASE DirectStep(t)
  BY <1>4 DEF DirectStep, DirectLockConn, DirectPendingQuery, DirectLockPending,
      DirectExecute, PendingClose, PendingReadClosing, PendingUntrack, Tracked, CanLock
<1>5. CASE PrepareStep(t)
  BY <1>5 DEF PrepareStep, PrepareLock, PrepareConn, PrepareCall, PrepareUnlock,
      Tracked, CanLock
<1>6. CASE StmtCloseStep(t)
  BY <1>6 DEF StmtCloseStep, StmtCloseEnter, StmtCloseLock, StmtCloseRelease,
      StmtCloseReadClosing, StmtCloseUntrack, Untrack, ReleaseStmt, CanLock
<1>7. CASE ResultCloseStep(t)
  BY <1>7 DEF ResultCloseStep, ResultCloseRead, ResultCloseFree, ResultCloseStmt, NullPointer,
      ResultCloseNested, ResultCloseReadClosing,
      ResultCloseUntrack, Untrack, ReleaseStmt, CanLock
<1>8. CASE FetchStep(t)
  BY <1>8 DEF FetchStep, FetchLockConn, FetchLockResult, FetchReturns, FetchThrows,
      FetchError, FetchUnlock, ResultSetClose, CloseResult, ForgetResult, CanLock
<1>9. CASE ConnCloseStep(t)
  BY <1>9 DEF ConnCloseStep, ConnCloseLock, ConnClosePending, ConnClosePendingDone,
      ConnCloseStmt, ConnCloseStmtsDone, ConnCloseAppender, ConnCloseAppendersDone,
      ConnDisconnect, CanLock
<1>10. CASE ConnCallStep(t)
  BY <1>10 DEF ConnCallStep, ConnCallLock, ConnCallReturns, CancelInterrupt, CanLock
<1>11. CASE AppenderStep(t)
  BY <1>11 DEF AppenderStep, AppenderCreate, AppenderTrack, AppenderLock,
      AppenderReturns, AppenderCloseLock, AppenderDestroy, AppenderReadClosing,
      AppenderUntrack, AppenderUnlock, CanLock
<1>12. CASE QueryEnds(t)
  BY <1>12 DEF QueryEnds, ExecuteReturns, ExecuteThrows, DirectReturns, DirectThrows,
      NewResult, CanLock
<1> QED
  BY <1>1, <1>2, <1>3, <1>4, <1>5, <1>6, <1>7, <1>8, <1>9, <1>10, <1>11, <1>12 DEF ThreadStep, DriverStep

\* No step of a thread destroys the native appender another one uses.
LEMMA AppenderInvStep ==
  ASSUME IInv, NEW t \in Threads, ThreadStep(t)
  PROVE  AppenderInv'
<1> USE ConstantsAssumption DEF IInv, TypeOK, ConnTypeOK, HandleTypeOK, ThreadTypeOK,
      AppenderInv, AppenderInUse,
      Goto, driverVars, objectVars, localVars, connVars, trackVars, engineVars,
      stmtVars, resultVars, pendingVars, appenderVars, curVars, retVars, auxVars
<1> DEFINE Known == /\ \A a \in Appenders :
                         appenderRefLock[a] = NoThread => appenderRef[a] # "destroyed"
                    /\ \A a \in appenders \cup todoAppenders : appenderRef[a] # "none"
<1> DEFINE Safe(u) ==
       LET a == curAppender[u] IN
       /\ pc[u] \in AppenderInUse => appenderRef[a] # "none"
       /\ pc[u] \in AppenderInUse \ {"afLock", "acLock"} => appenderRefLock[a] = u
       /\ pc[u] \in {"afCall", "acCall"} => appenderRef[a] = "live"
<1> DEFINE Fresh(u) ==
       LET a == curAppender[u] IN
       pc[u] = "anTrack" =>
            /\ appenderRef[a] = "live" /\ a \notin appenders \cup todoAppenders
            /\ \A v \in Threads \ {u} :
                 pc[v] \in AppenderInUse \cup {"anTrack"} => curAppender[v] # a
<1> SUFFICES ASSUME NEW u \in Threads PROVE Safe(u)' /\ Fresh(u)' /\ Known'
  BY DEF AppenderInv
<1>1. CASE StartStmt(t)
  BY <1>1 DEF StartStmt, StartExecute, StartPrepare, StartCloseStmt, GetResultSet,
      SetCloseOnCompletion, StartCancel, Starts
<1>2. CASE StartOther(t)
  BY SMTT(30), <1>2 DEF StartOther, StartNext, StartCloseResult, StartCloseConn, StartConnCall,
      StartNewAppender, StartFlush, StartCloseAppender, Starts, StartConn,
      StartAppender, UsableAppender
<1>3. CASE ExecuteStep(t)
  BY <1>3 DEF ExecuteStep, ExecuteBarrier, ExecuteLock, ExecuteTx, ExecuteBegin,
      ExecuteNative, ExecuteUnlock, ExecuteReset, ExecuteFailRead, ExecutePost, ExecutePostClose,
      Dispatch
<1>4. CASE DirectStep(t)
  BY <1>4 DEF DirectStep, DirectLockConn, DirectPendingQuery, DirectLockPending,
      DirectExecute, PendingClose, PendingReadClosing, PendingUntrack, Tracked
<1>5. CASE PrepareStep(t)
  BY <1>5 DEF PrepareStep, PrepareLock, PrepareConn, PrepareCall, PrepareUnlock, Tracked
<1>6. CASE StmtCloseStep(t)
  BY <1>6 DEF StmtCloseStep, StmtCloseEnter, StmtCloseLock, StmtCloseRelease,
      StmtCloseReadClosing, StmtCloseUntrack, Untrack, ReleaseStmt
<1>7. CASE ResultCloseStep(t)
  BY <1>7 DEF ResultCloseStep, ResultCloseRead, ResultCloseFree, ResultCloseStmt, NullPointer,
      ResultCloseNested, ResultCloseReadClosing,
      ResultCloseUntrack, Untrack, ReleaseStmt
<1>8. CASE FetchStep(t)
  BY <1>8 DEF FetchStep, FetchLockConn, FetchLockResult, FetchReturns, FetchThrows,
      FetchError, FetchUnlock, ResultSetClose, CloseResult, ForgetResult
<1>9. CASE ConnCloseStep(t)
  BY <1>9 DEF ConnCloseStep, ConnCloseLock, ConnClosePending, ConnClosePendingDone,
      ConnCloseStmt, ConnCloseStmtsDone, ConnCloseAppender, ConnCloseAppendersDone,
      ConnDisconnect
<1>10. CASE ConnCallStep(t)
  BY <1>10 DEF ConnCallStep, ConnCallLock, ConnCallReturns, CancelInterrupt
<1>11. CASE AppenderStep(t)
  BY <1>11 DEF AppenderStep, AppenderCreate, AppenderTrack, AppenderLock,
      AppenderReturns, AppenderCloseLock, AppenderDestroy, AppenderReadClosing,
      AppenderUntrack, AppenderUnlock
<1>12. CASE QueryEnds(t)
  BY <1>12 DEF QueryEnds, ExecuteReturns, ExecuteThrows, DirectReturns, DirectThrows,
      NewResult
<1> QED
  BY <1>1, <1>2, <1>3, <1>4, <1>5, <1>6, <1>7, <1>8, <1>9, <1>10, <1>11, <1>12 DEF ThreadStep, DriverStep

-----------------------------------------------------------------------------
\* The driver starts with every variable of its type ...
LEMMA TypeInit == Init => TypeOK
<1> SUFFICES ASSUME Init PROVE TypeOK
  OBVIOUS
<1>1. /\ (CHOOSE s \in Stmts : TRUE) \in Stmts
      /\ (CHOOSE r \in Results : TRUE) \in Results
      /\ (CHOOSE a \in Appenders : TRUE) \in Appenders
  BY ConstantsAssumption
<1>2. ConnTypeOK
  BY ConstantsAssumption DEF Init, ConnTypeOK
<1>3. StmtTypeOK
  BY ConstantsAssumption DEF Init, StmtTypeOK
<1>4. HandleTypeOK
  BY DEF Init, HandleTypeOK
<1>5. ThreadTypeOK
  BY <1>1, LabelFacts DEF Init, ThreadTypeOK
<1> QED BY <1>2, <1>3, <1>4, <1>5 DEF TypeOK

\* ... and every step keeps it so.
LEMMA TypeNext == TypeOK /\ [Next]_vars => TypeOK'
<1> SUFFICES ASSUME TypeOK, [Next]_vars PROVE TypeOK'
  OBVIOUS
<1>1. CASE UNCHANGED vars
  BY <1>1 DEF TypeOK, ConnTypeOK, StmtTypeOK, HandleTypeOK, ThreadTypeOK, vars,
      driverVars, objectVars, localVars, connVars, trackVars, engineVars,
      stmtVars, resultVars, pendingVars, appenderVars, curVars, retVars, auxVars
<1>2. ASSUME NEW t \in Threads, ThreadStep(t) PROVE TypeOK'
  BY <1>2, ConnTypeOKStep, StmtTypeOKStep, HandleTypeOKStep, ThreadTypeOKStep DEF TypeOK
<1> QED BY <1>1, <1>2 DEF Next, Quiescent

\* Every variable keeps its type in every behaviour of the driver, for any
\* number of threads, statements, results and appenders.
THEOREM TypeCorrectness == Spec => []TypeOK
  BY TypeInit, TypeNext, PTL DEF Spec

-----------------------------------------------------------------------------
\* The lock and handle invariant holds before the first API call ...
LEMMA LockInit == Init => IInv
<1> SUFFICES ASSUME Init PROVE IInv
  OBVIOUS
<1>1. TypeOK
  BY TypeInit
<1>2. \A t \in Threads : pc[t] = "idle"
  BY DEF Init
<1>3. StmtLockInv /\ ConnLockInv /\ StmtRefInv /\ QueryInv
  BY <1>2 DEF StmtLockInv, StmtLocked, ConnLockInv, InConnClose, InStmtClose,
      InConnAppClose, StmtCloseLabels, ResultCloseLabels, StmtRefInv, QueryInv
<1>4. AppenderInv
  BY <1>2 DEF Init, AppenderInv, AppenderInUse
<1> QED BY <1>1, <1>3, <1>4 DEF IInv

\* ... and every step preserves it.
LEMMA LockNext == IInv /\ [Next]_vars => IInv'
<1> SUFFICES ASSUME IInv, [Next]_vars PROVE IInv'
  OBVIOUS
<1>1. TypeOK'
  BY TypeNext DEF IInv
<1>2. CASE UNCHANGED vars
  <2> USE <1>2 DEF IInv, vars, driverVars, objectVars, localVars, connVars, trackVars, engineVars,
      stmtVars, resultVars, pendingVars, appenderVars, curVars, retVars, auxVars
  <2>1. StmtLockInv' /\ StmtRefInv' /\ QueryInv'
    BY DEF StmtLockInv, StmtRefInv, QueryInv
  <2>2. ConnLockInv'
    BY DEF ConnLockInv, InConnClose, InStmtClose, InConnAppClose
  <2>3. AppenderInv'
    BY DEF AppenderInv
  <2> QED BY <1>1, <2>1, <2>2, <2>3
<1>3. ASSUME NEW t \in Threads, ThreadStep(t) PROVE IInv'
  BY <1>1, <1>3, StmtLockInvStep, ConnLockInvStep, StmtRefInvStep, QueryInvStep,
      AppenderInvStep DEF IInv
<1> QED BY <1>2, <1>3 DEF Next, Quiescent

\* The lock and handle invariant holds in every behaviour.
LEMMA LockInvariance == Spec => []IInv
  BY LockInit, LockNext, PTL DEF Spec

\* Whatever threads execute, fetch, cancel and close concurrently, the native
\* handle a thread passes to a JNI call is never released under it.
THEOREM NoHandleIsFreedInUse == Spec => []NoUseAfterFree
<1>1. IInv => NoUseAfterFree
  BY DEF IInv, NoUseAfterFree, ConnLockInv, InConnClose, StmtRefInv, QueryInv, AppenderInv
<1> QED BY <1>1, LockInvariance, PTL

-----------------------------------------------------------------------------
(***************************************************************************)
(* The connection finds everything it has to release: nothing outlives     *)
(* duckdb_jdbc_disconnect(), and no closed statement stays tracked on an   *)
(* open connection.                                                        *)
(***************************************************************************)

(***************************************************************************)
(* What the connection knows of its children.                              *)
(***************************************************************************)
\* A closed statement holds nothing, and whatever a statement holds conn.close()
\* will find.
HolderInv ==
  /\ \A s \in Stmts : ~stmtConn[s] => ~stmtRef[s] /\ selectResult[s] = NoResult
  /\ \A s \in Stmts : selectResult[s] # NoResult => resultRef[selectResult[s]] # "none"
  /\ HoldersAreTracked

\* Where a thread runs a query, or is about to, on an open statement.
Querying == { "exBegin", "exNative", "exRun", "dqConn", "dqQuery", "dqPending", "dqExec",
              "dqRun", "pCall" }

\* What a thread that works on a statement knows about it: a query replaces no
\* open result, the old result is closed before it is forgotten, and only
\* closed statements are untracked.
WorkInv ==
  \A t \in Threads :
    LET s == curStmt[t] IN
    /\ pc[t] \in Querying => stmtConn[s] /\ selectResult[s] = NoResult
    /\ pc[t] \in {"dqPending", "dqExec", "dqRun"} => s \in preparedStatements
    /\ pc[t] \in {"scClosing", "scUntrack", "rcClosing", "rcUntrack"} => ~stmtConn[s]
    /\ pc[t] \in {"exTx", "scRelease", "pConn", "rcStmt", "rcNested"} => ~HasOpenResult(s)
    /\ pc[t] = "rcFree" /\ HasOpenResult(s) => selectResult[s] = curResult[t]

\* A live pending query is tracked until it is released.
PendingInv ==
  \A t \in Threads : /\ pendingRef[t] => t \in pendingQueries
                     /\ pc[t] \in {"pqClosing", "pqUntrack"} => ~pendingRef[t]

NoPending == (\A t \in Threads : ~pendingRef[t]) /\ orphans = 0

InConnStmtClose(t) == InStmtClose(t, {"ccStmts"})

\* What conn.close() has achieved after each of its loops.
ClosePhaseInv ==
  /\ ~connRef => NoPending /\ preparedStatements = {}
  /\ \A t \in Threads :
       /\ InConnClose(t) /\ pc[t] # "ccPending" => NoPending
       /\ pc[t] \in {"ccApps", "ccDisconnect"} \/ InConnAppClose(t) => preparedStatements = {}
       /\ pc[t] = "ccStmts" \/ InConnStmtClose(t) =>
            \A s \in preparedStatements :
               \/ s \in todoStmts \/ ~stmtConn[s]
               \/ InConnStmtClose(t) /\ s = curStmt[t]

\* A closed statement is tracked only until its close() comes to untrack it.
ClosedInv ==
  \A s \in preparedStatements :
    \/ stmtConn[s] \/ closing
    \/ \E t \in Threads : /\ pc[t] \in {"scClosing", "scUntrack", "rcClosing", "rcUntrack"}
                          /\ curStmt[t] = s

TrackInv == HolderInv /\ WorkInv /\ PendingInv /\ ClosePhaseInv /\ ClosedInv

\* Every step of a thread leaves the live pending queries tracked.
LEMMA PendingInvStep ==
  ASSUME IInv, TrackInv, NEW t \in Threads, ThreadStep(t)
  PROVE  PendingInv'
<1> USE ConstantsAssumption DEF IInv, TypeOK, TrackInv, ConnTypeOK, HandleTypeOK,
      ThreadTypeOK, PendingInv,
      Goto, driverVars, objectVars, localVars, connVars, trackVars, engineVars,
      stmtVars, resultVars, pendingVars, appenderVars, curVars, retVars, auxVars
<1> DEFINE Safe(u) == /\ pendingRef[u] => u \in pendingQueries
                      /\ pc[u] \in {"pqClosing", "pqUntrack"} => ~pendingRef[u]
<1> SUFFICES ASSUME NEW u \in Threads PROVE Safe(u)'
  BY DEF PendingInv
<1>1. CASE StartStmt(t)
  BY <1>1 DEF StartStmt, StartExecute, StartPrepare, StartCloseStmt, GetResultSet,
      SetCloseOnCompletion, StartCancel, Starts
<1>2. CASE StartOther(t)
  BY <1>2 DEF StartOther, StartNext, StartCloseResult, StartCloseConn, StartConnCall,
      StartNewAppender, StartFlush, StartCloseAppender, Starts, StartConn, StartAppender
<1>3. CASE ExecuteStep(t)
  BY <1>3 DEF ExecuteStep, ExecuteBarrier, ExecuteLock, ExecuteTx, ExecuteBegin,
      ExecuteNative, ExecuteUnlock, ExecuteReset, ExecuteFailRead, ExecutePost, ExecutePostClose,
      Dispatch
<1>4. CASE DirectStep(t)
  BY <1>4 DEF DirectStep, DirectLockConn, DirectPendingQuery, DirectLockPending,
      DirectExecute, PendingClose, PendingReadClosing, PendingUntrack, Tracked
<1>5. CASE PrepareStep(t)
  BY <1>5 DEF PrepareStep, PrepareLock, PrepareConn, PrepareCall, PrepareUnlock, Tracked
<1>6. CASE StmtCloseStep(t)
  BY <1>6 DEF StmtCloseStep, StmtCloseEnter, StmtCloseLock, StmtCloseRelease,
      StmtCloseReadClosing, StmtCloseUntrack, Untrack, ReleaseStmt
<1>7. CASE ResultCloseStep(t)
  BY <1>7 DEF ResultCloseStep, ResultCloseRead, ResultCloseFree, ResultCloseStmt, NullPointer,
      ResultCloseNested, ResultCloseReadClosing,
      ResultCloseUntrack, Untrack, ReleaseStmt
<1>8. CASE FetchStep(t)
  BY <1>8 DEF FetchStep, FetchLockConn, FetchLockResult, FetchReturns, FetchThrows,
      FetchError, FetchUnlock, ResultSetClose, CloseResult, ForgetResult
<1>9. CASE ConnCloseStep(t)
  BY <1>9 DEF ConnCloseStep, ConnCloseLock, ConnClosePending, ConnClosePendingDone,
      ConnCloseStmt, ConnCloseStmtsDone, ConnCloseAppender, ConnCloseAppendersDone,
      ConnDisconnect
<1>10. CASE ConnCallStep(t)
  BY <1>10 DEF ConnCallStep, ConnCallLock, ConnCallReturns, CancelInterrupt
<1>11. CASE AppenderStep(t)
  BY <1>11 DEF AppenderStep, AppenderCreate, AppenderTrack, AppenderLock,
      AppenderReturns, AppenderCloseLock, AppenderDestroy, AppenderReadClosing,
      AppenderUntrack, AppenderUnlock
<1>12. CASE QueryEnds(t)
  BY <1>12 DEF QueryEnds, ExecuteReturns, ExecuteThrows, DirectReturns, DirectThrows,
      NewResult
<1> QED
  BY <1>1, <1>2, <1>3, <1>4, <1>5, <1>6, <1>7, <1>8, <1>9, <1>10, <1>11, <1>12 DEF ThreadStep, DriverStep

\* Every step of a thread respects what the others know of their statements.
LEMMA WorkInvStep ==
  ASSUME IInv, TrackInv, NEW t \in Threads, ThreadStep(t)
  PROVE  WorkInv'
<1> USE ConstantsAssumption DEF IInv, TypeOK, TrackInv, ConnTypeOK, StmtTypeOK,
      HandleTypeOK, ThreadTypeOK, StmtLockInv, StmtLocked, HolderInv, WorkInv, Querying,
      ClosePhaseInv, HasOpenResult,
      Goto, driverVars, objectVars, localVars, connVars, trackVars, engineVars,
      stmtVars, resultVars, pendingVars, appenderVars, curVars, retVars, auxVars
<1> DEFINE Safe(u) ==
        LET s == curStmt[u] IN
        /\ pc[u] \in Querying => stmtConn[s] /\ selectResult[s] = NoResult
        /\ pc[u] \in {"dqPending", "dqExec", "dqRun"} => s \in preparedStatements
        /\ pc[u] \in {"scClosing", "scUntrack", "rcClosing", "rcUntrack"} => ~stmtConn[s]
        /\ pc[u] \in {"exTx", "scRelease", "pConn", "rcStmt", "rcNested"} => ~HasOpenResult(s)
        /\ pc[u] = "rcFree" /\ HasOpenResult(s) => selectResult[s] = curResult[u]
<1> SUFFICES ASSUME NEW u \in Threads PROVE Safe(u)'
  BY DEF WorkInv
<1>1. CASE StartStmt(t)
  BY <1>1 DEF StartStmt, StartExecute, StartPrepare, StartCloseStmt, GetResultSet,
      SetCloseOnCompletion, StartCancel, Starts, StmtIsOpen
<1>2. CASE StartOther(t)
  BY <1>2 DEF StartOther, StartNext, StartCloseResult, StartCloseConn, StartConnCall,
      StartNewAppender, StartFlush, StartCloseAppender, Starts, StartConn, StartAppender
<1>3. CASE ExecuteStep(t)
  BY <1>3 DEF ExecuteStep, ExecuteBarrier, ExecuteLock, ExecuteTx, ExecuteBegin,
      ExecuteNative, ExecuteUnlock, ExecuteReset, ExecuteFailRead, ExecutePost, ExecutePostClose,
      Dispatch, StmtIsOpen, HasOpenResult
<1>4. CASE DirectStep(t)
  BY <1>4 DEF DirectStep, DirectLockConn, DirectPendingQuery, DirectLockPending,
      DirectExecute, PendingClose, PendingReadClosing, PendingUntrack, Tracked
<1>5. CASE PrepareStep(t)
  BY <1>5 DEF PrepareStep, PrepareLock, PrepareConn, PrepareCall, PrepareUnlock,
      Tracked, StmtIsOpen, HasOpenResult
<1>6. CASE StmtCloseStep(t)
  <2>1. CASE StmtCloseEnter(t)
    BY <2>1 DEF StmtCloseEnter, StmtIsOpen
  <2>2. CASE StmtCloseLock(t)
    <3>1. CASE u = t
      BY <2>2, <3>1 DEF StmtCloseLock
    <3>2. CASE u # t
      BY <2>2, <3>2 DEF StmtCloseLock
    <3> QED BY <3>1, <3>2
  <2>3. CASE StmtCloseRelease(t)
    BY <2>3 DEF StmtCloseRelease, ReleaseStmt
  <2>4. CASE StmtCloseReadClosing(t)
    BY <2>4 DEF StmtCloseReadClosing
  <2>5. CASE StmtCloseUntrack(t)
    BY <2>5 DEF StmtCloseUntrack, Untrack
  <2> QED
    BY <1>6, <2>1, <2>2, <2>3, <2>4, <2>5 DEF StmtCloseStep
<1>7. CASE ResultCloseStep(t)
  <2>1. CASE ResultCloseFree(t)
    BY <2>1 DEF ResultCloseFree
  <2>2. CASE ResultCloseStmt(t)
    BY <2>2 DEF ResultCloseStmt, ReleaseStmt, StmtIsOpen
  <2>3. CASE ResultCloseReadClosing(t)
    BY <2>3 DEF ResultCloseReadClosing
  <2>4. CASE ResultCloseUntrack(t)
    BY <2>4 DEF ResultCloseUntrack, Untrack
  <2>5. CASE ResultCloseRead(t)
    BY <2>5 DEF ResultCloseRead, NullPointer
  <2>6. CASE ResultCloseNested(t)
    BY <2>6 DEF ResultCloseNested, NullPointer, ReleaseStmt
  <2> QED
    BY <1>7, <2>1, <2>2, <2>3, <2>4, <2>5, <2>6 DEF ResultCloseStep
<1>8. CASE FetchStep(t)
  BY <1>8 DEF FetchStep, FetchLockConn, FetchLockResult, FetchReturns, FetchThrows,
      FetchError, FetchUnlock, ResultSetClose, CloseResult, ForgetResult
<1>9. CASE ConnCloseStep(t)
  <2>1. CASE ConnCloseLock(t)
    BY <2>1 DEF ConnCloseLock
  <2>2. CASE ConnClosePending(t)
    BY <2>2 DEF ConnClosePending
  <2>3. CASE ConnClosePendingDone(t)
    BY <2>3 DEF ConnClosePendingDone
  <2>4. CASE ConnCloseStmt(t)
    BY <2>4 DEF ConnCloseStmt
  <2>5. CASE ConnCloseStmtsDone(t)
    <3>1. \A s \in preparedStatements : ~stmtConn[s]
      BY <2>5 DEF ConnCloseStmtsDone, InConnStmtClose, InStmtClose, StmtCloseLabels,
        ResultCloseLabels
    <3> QED BY <2>5, <3>1 DEF ConnCloseStmtsDone
  <2>6. CASE ConnCloseAppender(t)
    BY <2>6 DEF ConnCloseAppender
  <2>7. CASE ConnCloseAppendersDone(t)
    BY <2>7 DEF ConnCloseAppendersDone
  <2>8. CASE ConnDisconnect(t)
    BY <2>8 DEF ConnDisconnect
  <2> QED
    BY <1>9, <2>1, <2>2, <2>3, <2>4, <2>5, <2>6, <2>7, <2>8 DEF ConnCloseStep
<1>10. CASE ConnCallStep(t)
  BY <1>10 DEF ConnCallStep, ConnCallLock, ConnCallReturns, CancelInterrupt, StmtIsOpen
<1>11. CASE AppenderStep(t)
  BY <1>11 DEF AppenderStep, AppenderCreate, AppenderTrack, AppenderLock,
      AppenderReturns, AppenderCloseLock, AppenderDestroy, AppenderReadClosing,
      AppenderUntrack, AppenderUnlock
<1>12. CASE QueryEnds(t)
  BY <1>12 DEF QueryEnds, ExecuteReturns, ExecuteThrows, DirectReturns, DirectThrows,
      NewResult
<1> QED
  BY <1>1, <1>2, <1>3, <1>4, <1>5, <1>6, <1>7, <1>8, <1>9, <1>10, <1>11, <1>12 DEF ThreadStep, DriverStep

\* Every step of a thread leaves the holders of native objects tracked.
LEMMA HolderInvStep ==
  ASSUME IInv, TrackInv, NEW t \in Threads, ThreadStep(t)
  PROVE  HolderInv'
<1> USE ConstantsAssumption DEF IInv, TypeOK, TrackInv, ConnTypeOK, StmtTypeOK,
      HandleTypeOK, ThreadTypeOK, StmtRefInv, HolderInv, HoldersAreTracked, WorkInv,
      Querying, ClosePhaseInv, HasOpenResult,
      Goto, driverVars, objectVars, localVars, connVars, trackVars, engineVars,
      stmtVars, resultVars, pendingVars, appenderVars, curVars, retVars, auxVars
<1>1. CASE StartStmt(t)
  <2>1. ASSUME NEW s \in Stmts, StartExecute(t, s) PROVE HolderInv'
    BY <2>1 DEF StartExecute, Starts, StmtIsOpen
  <2>2. ASSUME NEW s \in Stmts, StartPrepare(t, s) PROVE HolderInv'
    BY <2>2 DEF StartPrepare, Starts, StmtIsOpen
  <2>3. ASSUME NEW s \in Stmts, StartCloseStmt(t, s) PROVE HolderInv'
    BY <2>3 DEF StartCloseStmt, Starts
  <2>4. ASSUME NEW s \in Stmts, GetResultSet(t, s) PROVE HolderInv'
    BY <2>4 DEF GetResultSet, Starts, StmtIsOpen
  <2>5. ASSUME NEW s \in Stmts, SetCloseOnCompletion(t, s) PROVE HolderInv'
    BY <2>5 DEF SetCloseOnCompletion, Starts, StmtIsOpen
  <2>6. ASSUME NEW s \in Stmts, StartCancel(t, s) PROVE HolderInv'
    BY <2>6 DEF StartCancel, Starts, StmtIsOpen
  <2> QED
    BY <1>1, <2>1, <2>2, <2>3, <2>4, <2>5, <2>6 DEF StartStmt
<1>2. CASE StartOther(t)
  BY <1>2 DEF StartOther, StartNext, StartCloseResult, StartCloseConn, StartConnCall,
      StartNewAppender, StartFlush, StartCloseAppender, Starts, StartConn, StartAppender
<1>3. CASE ExecuteStep(t)
  <2>1. CASE ExecuteBarrier(t)
    BY <2>1 DEF ExecuteBarrier
  <2>2. CASE ExecuteLock(t)
    BY <2>2 DEF ExecuteLock, StmtIsOpen, HasOpenResult
  <2>3. CASE ExecuteTx(t)
    BY <2>3 DEF ExecuteTx, Dispatch, StmtIsOpen
  <2>4. CASE ExecuteBegin(t)
    BY <2>4 DEF ExecuteBegin, Dispatch
  <2>5. CASE ExecuteNative(t)
    BY <2>5 DEF ExecuteNative
  <2>6. CASE ExecuteUnlock(t)
    BY <2>6 DEF ExecuteUnlock
  <2>7. CASE ExecuteReset(t)
    BY <2>7 DEF ExecuteReset
  <2>8. CASE ExecutePost(t)
    BY <2>8 DEF ExecutePost, HasOpenResult
  <2>9. CASE ExecutePostClose(t)
    BY <2>9 DEF ExecutePostClose, HasOpenResult
  <2>10. CASE ExecuteFailRead(t)
    BY <2>10 DEF ExecuteFailRead
  <2> QED
    BY <1>3, <2>1, <2>2, <2>3, <2>4, <2>5, <2>6, <2>7, <2>8, <2>9, <2>10 DEF ExecuteStep
<1>4. CASE DirectStep(t)
  BY <1>4 DEF DirectStep, DirectLockConn, DirectPendingQuery, DirectLockPending,
      DirectExecute, PendingClose, PendingReadClosing, PendingUntrack, Tracked
<1>5. CASE PrepareStep(t)
  <2>1. CASE PrepareLock(t)
    <3>1. /\ UNCHANGED << stmtConn, selectResult, resultRef, detached, preparedStatements >>
          /\ \A s \in Stmts : stmtRef'[s] => stmtRef[s]
      BY <2>1 DEF PrepareLock
    <3> QED BY <3>1
  <2>2. CASE PrepareConn(t)
    BY <2>2 DEF PrepareConn
  <2>3. CASE PrepareCall(t)
    BY <2>3 DEF PrepareCall, Tracked
  <2>4. CASE PrepareUnlock(t)
    BY <2>4 DEF PrepareUnlock
  <2> QED
    BY <1>5, <2>1, <2>2, <2>3, <2>4 DEF PrepareStep
<1>6. CASE StmtCloseStep(t)
  <2>1. CASE StmtCloseEnter(t)
    BY <2>1 DEF StmtCloseEnter, StmtIsOpen
  <2>2. CASE StmtCloseLock(t)
    BY <2>2 DEF StmtCloseLock, StmtIsOpen, HasOpenResult
  <2>3. CASE StmtCloseRelease(t)
    BY <2>3 DEF StmtCloseRelease, ReleaseStmt
  <2>4. CASE StmtCloseReadClosing(t)
    BY <2>4 DEF StmtCloseReadClosing
  <2>5. CASE StmtCloseUntrack(t)
    BY <2>5 DEF StmtCloseUntrack, Untrack
  <2> QED
    BY <1>6, <2>1, <2>2, <2>3, <2>4, <2>5 DEF StmtCloseStep
<1>7. CASE ResultCloseStep(t)
  <2>1. CASE ResultCloseFree(t)
    BY <2>1 DEF ResultCloseFree
  <2>2. CASE ResultCloseStmt(t)
    <3>1. UNCHANGED << resultRef, detached, preparedStatements >>
      BY <2>2 DEF ResultCloseStmt
    <3>2. CASE UNCHANGED << selectResult, stmtRef, stmtConn >>
      BY <3>1, <3>2
    <3>3. CASE ReleaseStmt(curStmt[t])
      BY <3>1, <3>3 DEF ReleaseStmt
    <3> QED BY <2>2, <3>2, <3>3 DEF ResultCloseStmt
  <2>3. CASE ResultCloseReadClosing(t)
    BY <2>3 DEF ResultCloseReadClosing
  <2>4. CASE ResultCloseUntrack(t)
    BY <2>4 DEF ResultCloseUntrack, Untrack
  <2>5. CASE ResultCloseRead(t)
    BY <2>5 DEF ResultCloseRead, NullPointer
  <2>6. CASE ResultCloseNested(t)
    <3>1. CASE selectResult[curStmt[t]] = NoResult
      BY <2>6, <3>1 DEF ResultCloseNested, NullPointer
    <3>2. CASE selectResult[curStmt[t]] # NoResult
      <4>1. UNCHANGED << resultRef, preparedStatements >> /\ ReleaseStmt(curStmt[t])
        BY <2>6, <3>2 DEF ResultCloseNested
      <4> QED BY <4>1 DEF ReleaseStmt
    <3> QED BY <3>1, <3>2
  <2> QED
    BY <1>7, <2>1, <2>2, <2>3, <2>4, <2>5, <2>6 DEF ResultCloseStep
<1>8. CASE FetchStep(t)
  <2>1. CASE FetchLockConn(t)
    BY <2>1 DEF FetchLockConn, CanLock
  <2>2. CASE FetchLockResult(t)
    BY <2>2 DEF FetchLockResult, CanLock
  <2>3. CASE FetchReturns(t)
    BY <2>3 DEF FetchReturns
  <2>4. CASE FetchThrows(t)
    BY <2>4 DEF FetchThrows
  <2>5. CASE FetchError(t)
    BY <2>5 DEF FetchError, CloseResult
  <2>6. CASE FetchUnlock(t)
    BY <2>6 DEF FetchUnlock
  <2>7. CASE ResultSetClose(t)
    BY <2>7 DEF ResultSetClose, CloseResult
  <2>8. CASE ForgetResult(t)
    BY <2>8 DEF ForgetResult
  <2> QED
    BY <1>8, <2>1, <2>2, <2>3, <2>4, <2>5, <2>6, <2>7, <2>8 DEF FetchStep
<1>9. CASE ConnCloseStep(t)
  <2>1. CASE ConnCloseLock(t)
    BY <2>1 DEF ConnCloseLock
  <2>2. CASE ConnClosePending(t)
    BY <2>2 DEF ConnClosePending
  <2>3. CASE ConnClosePendingDone(t)
    BY <2>3 DEF ConnClosePendingDone
  <2>4. CASE ConnCloseStmt(t)
    BY <2>4 DEF ConnCloseStmt
  <2>5. CASE ConnCloseStmtsDone(t)
    <3>1. \A s \in preparedStatements : ~stmtConn[s]
      BY <2>5 DEF ConnCloseStmtsDone, InConnStmtClose, InStmtClose, StmtCloseLabels,
        ResultCloseLabels
    <3>2. \A s \in Stmts : ~stmtRef[s] /\ ~HasOpenResult(s)
      BY <3>1
    <3> QED BY <2>5, <3>2 DEF ConnCloseStmtsDone
  <2>6. CASE ConnCloseAppender(t)
    BY <2>6 DEF ConnCloseAppender
  <2>7. CASE ConnCloseAppendersDone(t)
    BY <2>7 DEF ConnCloseAppendersDone
  <2>8. CASE ConnDisconnect(t)
    BY <2>8 DEF ConnDisconnect
  <2> QED
    BY <1>9, <2>1, <2>2, <2>3, <2>4, <2>5, <2>6, <2>7, <2>8 DEF ConnCloseStep
<1>10. CASE ConnCallStep(t)
  BY <1>10 DEF ConnCallStep, ConnCallLock, ConnCallReturns, CancelInterrupt, StmtIsOpen
<1>11. CASE AppenderStep(t)
  BY <1>11 DEF AppenderStep, AppenderCreate, AppenderTrack, AppenderLock,
      AppenderReturns, AppenderCloseLock, AppenderDestroy, AppenderReadClosing,
      AppenderUntrack, AppenderUnlock
<1>12. CASE QueryEnds(t)
  <2>1. CASE ExecuteReturns(t)
    BY <2>1 DEF ExecuteReturns, NewResult
  <2>2. CASE ExecuteThrows(t)
    BY <2>2 DEF ExecuteThrows
  <2>3. CASE DirectReturns(t)
    BY <2>3 DEF DirectReturns, NewResult
  <2>4. CASE DirectThrows(t)
    BY <2>4 DEF DirectThrows
  <2> QED
    BY <1>12, <2>1, <2>2, <2>3, <2>4 DEF QueryEnds
<1> QED
  BY <1>1, <1>2, <1>3, <1>4, <1>5, <1>6, <1>7, <1>8, <1>9, <1>10, <1>11, <1>12 DEF ThreadStep, DriverStep

\* No step of a thread undoes what the loops of conn.close() have achieved.
LEMMA ClosePhaseInvStep ==
  ASSUME IInv, TrackInv, NEW t \in Threads, ThreadStep(t)
  PROVE  ClosePhaseInv'
<1> USE ConstantsAssumption DEF IInv, TypeOK, TrackInv, ConnTypeOK, StmtTypeOK,
      HandleTypeOK, ThreadTypeOK, ConnLockInv, InConnClose, InStmtClose, InConnAppClose,
      InConnStmtClose, StmtCloseLabels, ResultCloseLabels, WorkInv, NoPending,
      PendingInv, QueryInv, ClosePhaseInv,
      Goto, driverVars, objectVars, localVars, connVars, trackVars, engineVars,
      stmtVars, resultVars, pendingVars, appenderVars, curVars, retVars, auxVars
<1>1. CASE StartStmt(t)
  BY <1>1 DEF StartStmt, StartExecute, StartPrepare, StartCloseStmt, GetResultSet,
      SetCloseOnCompletion, StartCancel, Starts, StmtIsOpen
<1>2. CASE StartOther(t)
  BY <1>2 DEF StartOther, StartNext, StartCloseResult, StartCloseConn, StartConnCall,
      StartNewAppender, StartFlush, StartCloseAppender, Starts, StartConn, StartAppender
<1>3. CASE ExecuteStep(t)
  <2>1. CASE ExecuteBarrier(t)
    BY <2>1 DEF ExecuteBarrier, CanLock
  <2>2. CASE ExecuteLock(t)
    BY <2>2 DEF ExecuteLock, StmtIsOpen
  <2>3. CASE ExecuteTx(t)
    BY <2>3 DEF ExecuteTx, Dispatch, StmtIsOpen
  <2>4. CASE ExecuteBegin(t)
    BY <2>4 DEF ExecuteBegin, Dispatch, CanLock
  <2>5. CASE ExecuteNative(t)
    BY <2>5 DEF ExecuteNative
  <2>6. CASE ExecuteUnlock(t)
    BY <2>6 DEF ExecuteUnlock
  <2>7. CASE ExecuteReset(t)
    BY <2>7 DEF ExecuteReset
  <2>8. CASE ExecuteFailRead(t)
    BY <2>8 DEF ExecuteFailRead
  <2>9. CASE ExecutePost(t)
    BY <2>9 DEF ExecutePost, HasOpenResult
  <2>10. CASE ExecutePostClose(t)
    BY <2>10 DEF ExecutePostClose, HasOpenResult
  <2> QED
    BY <1>3, <2>1, <2>2, <2>3, <2>4, <2>5, <2>6, <2>7, <2>8, <2>9, <2>10 DEF ExecuteStep
<1>4. CASE DirectStep(t)
  <2>1. CASE DirectLockConn(t)
    BY <2>1 DEF DirectLockConn, CanLock
  <2>2. CASE DirectPendingQuery(t)
    BY <2>2 DEF DirectPendingQuery, Tracked
  <2>3. CASE DirectLockPending(t)
    BY <2>3 DEF DirectLockPending
  <2>4. CASE DirectExecute(t)
    BY <2>4 DEF DirectExecute
  <2>5. CASE PendingClose(t)
    BY <2>5 DEF PendingClose
  <2>6. CASE PendingReadClosing(t)
    BY <2>6 DEF PendingReadClosing
  <2>7. CASE PendingUntrack(t)
    BY <2>7 DEF PendingUntrack, CanLock
  <2> QED
    BY <1>4, <2>1, <2>2, <2>3, <2>4, <2>5, <2>6, <2>7 DEF DirectStep
<1>5. CASE PrepareStep(t)
  BY <1>5 DEF PrepareStep, PrepareLock, PrepareConn, PrepareCall, PrepareUnlock,
      Tracked, CanLock, StmtIsOpen
<1>6. CASE StmtCloseStep(t)
  <2>1. CASE StmtCloseEnter(t)
    BY <2>1 DEF StmtCloseEnter, StmtIsOpen
  <2>2. CASE StmtCloseLock(t)
    BY <2>2 DEF StmtCloseLock, StmtIsOpen
  <2>3. CASE StmtCloseRelease(t)
    BY <2>3 DEF StmtCloseRelease, ReleaseStmt
  <2>4. CASE StmtCloseReadClosing(t)
    BY <2>4 DEF StmtCloseReadClosing
  <2>5. CASE StmtCloseUntrack(t)
    BY <2>5 DEF StmtCloseUntrack, Untrack, CanLock
  <2> QED
    BY <1>6, <2>1, <2>2, <2>3, <2>4, <2>5 DEF StmtCloseStep
<1>7. CASE ResultCloseStep(t)
  <2>1. CASE ResultCloseFree(t)
    BY <2>1 DEF ResultCloseFree, CanLock
  <2>2. CASE ResultCloseStmt(t)
    <3>1. /\ UNCHANGED << connVars, trackVars, pendingVars, todoStmts, curStmt, retStmtClose,
                          retResultClose, retAppClose >>
          /\ \A s \in Stmts : stmtConn'[s] => stmtConn[s]
      <4>1. UNCHANGED << driverVars, pendingVars, localVars >>
        BY <2>2 DEF ResultCloseStmt
      <4>2. stmtConn' \in {stmtConn, [stmtConn EXCEPT ![curStmt[t]] = FALSE]}
        BY <2>2 DEF ResultCloseStmt, ReleaseStmt
      <4> QED BY <4>1, <4>2
    <3>2. pc[t] = "rcStmt" /\ pc' = [pc EXCEPT ![t] = pc'[t]]
      BY <2>2 DEF ResultCloseStmt
    <3>3. pc'[t] \in {"rcNested", "rcClosing", retResultClose[t]}
      BY <2>2 DEF ResultCloseStmt
    <3>4. ASSUME NEW u \in Threads
          PROVE  /\ InConnStmtClose(u)' => InConnStmtClose(u)
                 /\ InConnAppClose(u)' => InConnAppClose(u)
                 /\ pc'[u] \in {"ccPending", "ccStmts", "ccApps", "ccDisconnect"} => pc'[u] = pc[u]
      <4>1. CASE u = t
        BY <3>1, <3>2, <3>3, <4>1
      <4>2. CASE u # t
        <5>1. pc'[u] = pc[u]
          BY <3>2, <4>2
        <5> QED BY <3>1, <5>1
      <4> QED BY <4>1, <4>2
    <3>5. ClosePhaseInv!1'
      BY <3>1
    <3>6. ASSUME NEW u \in Threads PROVE ClosePhaseInv!2!(u)'
      <4> HIDE DEF InConnStmtClose, InConnAppClose, InStmtClose
      <4>1. InConnClose(u)' => InConnClose(u) /\ (pc[u] = "ccPending" => pc'[u] = "ccPending")
        BY <3>2, <3>4 DEF InConnStmtClose
      <4> HIDE DEF InConnClose
      <4>2. (InConnClose(u) /\ pc[u] # "ccPending" => NoPending)'
        BY <3>1, <4>1
      <4>3. (pc[u] \in {"ccApps", "ccDisconnect"} \/ InConnAppClose(u)
              => preparedStatements = {})'
        BY <3>1, <3>4
      <4>4. (pc[u] = "ccStmts" \/ InConnStmtClose(u) =>
              \A s \in preparedStatements :
                 \/ s \in todoStmts \/ ~stmtConn[s]
                 \/ InConnStmtClose(u) /\ s = curStmt[u])'
        <5> SUFFICES ASSUME (pc[u] = "ccStmts" \/ InConnStmtClose(u))',
                            NEW s \in preparedStatements, stmtConn'[s], s \notin todoStmts
                     PROVE  InConnStmtClose(u)' /\ s = curStmt[u]
          BY <3>1
        <5>1. pc[u] = "ccStmts" \/ InConnStmtClose(u)
          BY <3>4
        <5>2. InConnStmtClose(u) /\ s = curStmt[u]
          BY <3>1, <5>1
        <5>3. pc'[u] # "ccStmts"
          BY <3>4, <5>2 DEF InConnStmtClose, InStmtClose
        <5> QED BY <5>2, <5>3
      <4> QED BY <4>2, <4>3, <4>4
    <3> QED BY <3>5, <3>6
  <2>3. CASE ResultCloseReadClosing(t)
    BY SMTT(30), <2>3 DEF ResultCloseReadClosing
  <2>4. CASE ResultCloseUntrack(t)
    BY <2>4 DEF ResultCloseUntrack, Untrack, CanLock
  <2>5. CASE ResultCloseRead(t)
    BY <2>5 DEF ResultCloseRead, NullPointer
  <2>6. CASE ResultCloseNested(t)
    <3>1. CASE selectResult[curStmt[t]] = NoResult
      BY <2>6, <3>1 DEF ResultCloseNested, NullPointer
    <3>2. CASE selectResult[curStmt[t]] # NoResult
      <4>1. /\ UNCHANGED << connVars, trackVars, pendingVars, todoStmts, curStmt, retStmtClose,
                            retResultClose, retAppClose >>
            /\ pc[t] = "rcNested" /\ pc' = [pc EXCEPT ![t] = "rcClosing"]
            /\ \A s \in Stmts : stmtConn'[s] => stmtConn[s]
        BY <2>6, <3>2 DEF ResultCloseNested, ReleaseStmt
      <4> QED BY SMTT(30), <4>1
    <3> QED BY <3>1, <3>2
  <2> QED
    BY <1>7, <2>1, <2>2, <2>3, <2>4, <2>5, <2>6 DEF ResultCloseStep
<1>8. CASE FetchStep(t)
  <2>1. CASE FetchLockConn(t)
    BY <2>1 DEF FetchLockConn, CanLock
  <2>2. CASE FetchLockResult(t)
    BY <2>2 DEF FetchLockResult, CanLock
  <2>3. CASE FetchReturns(t)
    BY <2>3 DEF FetchReturns
  <2>4. CASE FetchThrows(t)
    BY <2>4 DEF FetchThrows
  <2>5. CASE FetchError(t)
    BY <2>5 DEF FetchError, CloseResult
  <2>6. CASE FetchUnlock(t)
    BY <2>6 DEF FetchUnlock
  <2>7. CASE ResultSetClose(t)
    BY <2>7 DEF ResultSetClose, CloseResult
  <2>8. CASE ForgetResult(t)
    BY <2>8 DEF ForgetResult
  <2> QED
    BY <1>8, <2>1, <2>2, <2>3, <2>4, <2>5, <2>6, <2>7, <2>8 DEF FetchStep
<1>9. CASE ConnCloseStep(t)
  BY SMTT(30), <1>9 DEF ConnCloseStep, ConnCloseLock, ConnClosePending, ConnClosePendingDone,
      ConnCloseStmt, ConnCloseStmtsDone, ConnCloseAppender, ConnCloseAppendersDone,
      ConnDisconnect, CanLock
<1>10. CASE ConnCallStep(t)
  BY <1>10 DEF ConnCallStep, ConnCallLock, ConnCallReturns, CancelInterrupt, CanLock,
      StmtIsOpen
<1>11. CASE AppenderStep(t)
  <2>1. CASE AppenderCreate(t)
    BY <2>1 DEF AppenderCreate, CanLock
  <2>2. CASE AppenderTrack(t)
    BY <2>2 DEF AppenderTrack
  <2>3. CASE AppenderLock(t)
    BY SMTT(30), <2>3 DEF AppenderLock
  <2>4. CASE AppenderReturns(t)
    BY <2>4 DEF AppenderReturns
  <2>5. CASE AppenderCloseLock(t)
    BY <2>5 DEF AppenderCloseLock
  <2>6. CASE AppenderDestroy(t)
    BY <2>6 DEF AppenderDestroy
  <2>7. CASE AppenderReadClosing(t)
    BY <2>7 DEF AppenderReadClosing
  <2>8. CASE AppenderUntrack(t)
    BY <2>8 DEF AppenderUntrack, CanLock
  <2>9. CASE AppenderUnlock(t)
    BY <2>9 DEF AppenderUnlock
  <2> QED
    BY <1>11, <2>1, <2>2, <2>3, <2>4, <2>5, <2>6, <2>7, <2>8, <2>9 DEF AppenderStep
<1>12. CASE QueryEnds(t)
  <2>1. CASE ExecuteReturns(t)
    BY <2>1 DEF ExecuteReturns, NewResult
  <2>2. CASE ExecuteThrows(t)
    BY <2>2 DEF ExecuteThrows, CanLock
  <2>3. CASE DirectReturns(t)
    BY <2>3 DEF DirectReturns, NewResult
  <2>4. CASE DirectThrows(t)
    BY <2>4 DEF DirectThrows
  <2> QED
    BY <1>12, <2>1, <2>2, <2>3, <2>4 DEF QueryEnds
<1> QED
  BY <1>1, <1>2, <1>3, <1>4, <1>5, <1>6, <1>7, <1>8, <1>9, <1>10, <1>11, <1>12 DEF ThreadStep, DriverStep

\* Every step of a thread leaves a closed statement to the thread that untracks it.
LEMMA ClosedInvStep ==
  ASSUME IInv, TrackInv, NEW t \in Threads, ThreadStep(t)
  PROVE  ClosedInv'
<1> USE ConstantsAssumption DEF IInv, TypeOK, TrackInv, ConnTypeOK, StmtTypeOK,
      ThreadTypeOK, WorkInv, Querying, ClosedInv,
      Goto, driverVars, objectVars, localVars, connVars, trackVars, engineVars,
      stmtVars, resultVars, pendingVars, appenderVars, curVars, retVars, auxVars
<1> DEFINE Leaving(u, s) == pc[u] \in {"scClosing", "scUntrack", "rcClosing", "rcUntrack"} /\ curStmt[u] = s
<1> DEFINE Safe(s) == stmtConn[s] \/ closing \/ \E u \in Threads : Leaving(u, s)
<1> SUFFICES ASSUME NEW x \in preparedStatements' PROVE Safe(x)'
  BY DEF ClosedInv
<1>1. CASE StartStmt(t)
  <2>1. UNCHANGED << preparedStatements, stmtConn, closing >> /\ pc[t] = "idle"
    BY <1>1 DEF StartStmt, StartExecute, StartPrepare, StartCloseStmt, GetResultSet,
        SetCloseOnCompletion, StartCancel, Starts
  <2>2. \A u \in Threads \ {t} : pc'[u] = pc[u] /\ curStmt'[u] = curStmt[u]
    BY <1>1 DEF StartStmt, StartExecute, StartPrepare, StartCloseStmt, GetResultSet,
        SetCloseOnCompletion, StartCancel, Starts
  <2> QED BY <2>1, <2>2
<1>2. CASE StartOther(t)
  BY <1>2 DEF StartOther, StartNext, StartCloseResult, StartCloseConn, StartConnCall,
      StartNewAppender, StartFlush, StartCloseAppender, Starts, StartConn, StartAppender
<1>3. CASE ExecuteStep(t)
  BY <1>3 DEF ExecuteStep, ExecuteBarrier, ExecuteLock, ExecuteTx, ExecuteBegin,
      ExecuteNative, ExecuteUnlock, ExecuteReset, ExecuteFailRead, ExecutePost, ExecutePostClose,
      Dispatch
<1>4. CASE DirectStep(t)
  BY <1>4 DEF DirectStep, DirectLockConn, DirectPendingQuery, DirectLockPending,
      DirectExecute, PendingClose, PendingReadClosing, PendingUntrack, Tracked
<1>5. CASE PrepareStep(t)
  BY <1>5 DEF PrepareStep, PrepareLock, PrepareConn, PrepareCall, PrepareUnlock, Tracked
<1>6. CASE StmtCloseStep(t)
  <2>1. CASE StmtCloseEnter(t)
    BY <2>1 DEF StmtCloseEnter
  <2>2. CASE StmtCloseLock(t)
    BY SMTT(30), <2>2 DEF StmtCloseLock
  <2>3. CASE StmtCloseRelease(t)
    BY <2>3 DEF StmtCloseRelease, ReleaseStmt
  <2>4. CASE StmtCloseReadClosing(t)
    BY <2>4 DEF StmtCloseReadClosing
  <2>5. CASE StmtCloseUntrack(t)
    BY <2>5 DEF StmtCloseUntrack, Untrack
  <2> QED
    BY <1>6, <2>1, <2>2, <2>3, <2>4, <2>5 DEF StmtCloseStep
<1>7. CASE ResultCloseStep(t)
  BY <1>7 DEF ResultCloseStep, ResultCloseRead, ResultCloseFree, ResultCloseStmt, NullPointer,
      ResultCloseNested, ResultCloseReadClosing,
      ResultCloseUntrack, Untrack, ReleaseStmt
<1>8. CASE FetchStep(t)
  BY <1>8 DEF FetchStep, FetchLockConn, FetchLockResult, FetchReturns, FetchThrows,
      FetchError, FetchUnlock, ResultSetClose, CloseResult, ForgetResult
<1>9. CASE ConnCloseStep(t)
  <2>1. CASE ConnCloseLock(t)
    <3>1. CASE closing'
      BY <3>1
    <3>2. CASE ~closing'
      <4>1. /\ preparedStatements' = preparedStatements /\ UNCHANGED << stmtConn, curStmt, closing >>
            /\ pc[t] = "ccLock" /\ \A u \in Threads \ {t} : pc'[u] = pc[u]
        BY <2>1, <3>2 DEF ConnCloseLock
      <4> QED BY <4>1
    <3> QED BY <3>1, <3>2
  <2>2. CASE ConnClosePending(t)
    BY <2>2 DEF ConnClosePending
  <2>3. CASE ConnClosePendingDone(t)
    BY <2>3 DEF ConnClosePendingDone
  <2>4. CASE ConnCloseStmt(t)
    BY <2>4 DEF ConnCloseStmt
  <2>5. CASE ConnCloseStmtsDone(t)
    BY <2>5 DEF ConnCloseStmtsDone
  <2>6. CASE ConnCloseAppender(t)
    BY <2>6 DEF ConnCloseAppender
  <2>7. CASE ConnCloseAppendersDone(t)
    BY <2>7 DEF ConnCloseAppendersDone
  <2>8. CASE ConnDisconnect(t)
    BY <2>8 DEF ConnDisconnect
  <2> QED
    BY <1>9, <2>1, <2>2, <2>3, <2>4, <2>5, <2>6, <2>7, <2>8 DEF ConnCloseStep
<1>10. CASE ConnCallStep(t)
  BY <1>10 DEF ConnCallStep, ConnCallLock, ConnCallReturns, CancelInterrupt
<1>11. CASE AppenderStep(t)
  BY <1>11 DEF AppenderStep, AppenderCreate, AppenderTrack, AppenderLock,
      AppenderReturns, AppenderCloseLock, AppenderDestroy, AppenderReadClosing,
      AppenderUntrack, AppenderUnlock
<1>12. CASE QueryEnds(t)
  BY <1>12 DEF QueryEnds, ExecuteReturns, ExecuteThrows, DirectReturns, DirectThrows,
      NewResult
<1> QED
  BY <1>1, <1>2, <1>3, <1>4, <1>5, <1>6, <1>7, <1>8, <1>9, <1>10, <1>11, <1>12 DEF ThreadStep, DriverStep

-----------------------------------------------------------------------------
\* Nothing is open and nothing is tracked but the statements prepared before.
LEMMA TrackInit == Init => TrackInv
<1> SUFFICES ASSUME Init PROVE TrackInv
  OBVIOUS
<1>1. \A t \in Threads : pc[t] = "idle"
  BY DEF Init
<1>2. HolderInv
  BY ConstantsAssumption DEF Init, HolderInv, HoldersAreTracked, HasOpenResult
<1>3. WorkInv /\ PendingInv
  BY <1>1 DEF Init, WorkInv, Querying, PendingInv
<1>4. ClosePhaseInv
  BY <1>1 DEF Init, ClosePhaseInv, InConnClose, InConnStmtClose, InStmtClose,
      InConnAppClose, StmtCloseLabels, ResultCloseLabels
<1>5. ClosedInv
  BY ConstantsAssumption DEF Init, ClosedInv
<1> QED BY <1>2, <1>3, <1>4, <1>5 DEF TrackInv

\* The tracking invariant is inductive relative to the lock invariant.
LEMMA TrackNext == IInv /\ TrackInv /\ [Next]_vars => TrackInv'
<1> SUFFICES ASSUME IInv, TrackInv, [Next]_vars PROVE TrackInv'
  OBVIOUS
<1>1. CASE UNCHANGED vars
  <2> USE <1>1 DEF TrackInv, vars, driverVars, objectVars, localVars, connVars, trackVars, engineVars,
      stmtVars, resultVars, pendingVars, appenderVars, curVars, retVars, auxVars
  <2>1. HolderInv'
    BY DEF HolderInv, HoldersAreTracked, HasOpenResult
  <2>2. WorkInv' /\ PendingInv' /\ ClosedInv'
    BY DEF WorkInv, HasOpenResult, PendingInv, ClosedInv
  <2>3. ClosePhaseInv'
    BY DEF ClosePhaseInv, NoPending, InConnClose, InConnStmtClose, InStmtClose,
        InConnAppClose
  <2> QED BY <2>1, <2>2, <2>3
<1>2. ASSUME NEW t \in Threads, ThreadStep(t) PROVE TrackInv'
  BY <1>2, HolderInvStep, WorkInvStep, PendingInvStep, ClosePhaseInvStep, ClosedInvStep
  DEF TrackInv
<1> QED BY <1>1, <1>2 DEF Next, Quiescent

\* The tracking invariant holds in every behaviour.
LEMMA TrackInvariance == Spec => []TrackInv
  BY LockInvariance, TrackInit, TrackNext, PTL DEF Spec

\* conn.close() finds every statement that still has a native object to release.
THEOREM HoldersStayTracked == Spec => []HoldersAreTracked
<1>1. TrackInv => HoldersAreTracked
  BY DEF TrackInv, HolderInv
<1> QED BY <1>1, TrackInvariance, PTL

(***************************************************************************)
(* The results.                                                            *)
(***************************************************************************)
\* A live result belongs to its statement or to the application, unless a
\* getResultSet() has overwritten its reference.
ResultInv ==
  \A r \in Results : resultRef[r] = "live" =>
    r \in detached \cup overwritten \/ selectResult[ResultStmt[r]] = r

\* Every step of a thread leaves a live result where it can be found.
LEMMA ResultInvStep ==
  ASSUME IInv, TrackInv, ResultInv, NEW t \in Threads, ThreadStep(t)
  PROVE  ResultInv'
<1> USE ConstantsAssumption DEF IInv, TypeOK, ConnTypeOK, StmtTypeOK, HandleTypeOK,
      ThreadTypeOK, ResultInv,
      Goto, driverVars, objectVars, localVars, connVars, trackVars, engineVars,
      stmtVars, resultVars, pendingVars, appenderVars, curVars, retVars, auxVars
<1>1. CASE StartStmt(t)
  BY <1>1 DEF StartStmt, StartExecute, StartPrepare, StartCloseStmt, GetResultSet,
      SetCloseOnCompletion, StartCancel, Starts
<1>2. CASE StartOther(t)
  BY <1>2 DEF StartOther, StartNext, StartCloseResult, StartCloseConn, StartConnCall,
      StartNewAppender, StartFlush, StartCloseAppender, Starts, StartConn, StartAppender
<1>3. CASE ExecuteStep(t)
  <2>1. CASE ExecuteTx(t)
    BY <2>1 DEF ExecuteTx, Dispatch, TrackInv, WorkInv, HasOpenResult
  <2>2. CASE ~ExecuteTx(t)
    BY <1>3, <2>2 DEF ExecuteStep, ExecuteBarrier, ExecuteLock, ExecuteBegin,
      ExecuteNative, ExecuteUnlock, ExecuteReset, ExecuteFailRead, ExecutePost,
      ExecutePostClose, Dispatch
  <2> QED BY <2>1, <2>2
<1>4. CASE DirectStep(t)
  BY <1>4 DEF DirectStep, DirectLockConn, DirectPendingQuery, DirectLockPending,
      DirectExecute, PendingClose, PendingReadClosing, PendingUntrack
<1>5. CASE PrepareStep(t)
  <2>1. CASE PrepareConn(t)
    BY <2>1 DEF PrepareConn, TrackInv, WorkInv, HasOpenResult
  <2>2. CASE ~PrepareConn(t)
    BY <1>5, <2>2 DEF PrepareStep, PrepareLock, PrepareCall, PrepareUnlock
  <2> QED BY <2>1, <2>2
<1>6. CASE StmtCloseStep(t)
  <2>1. CASE StmtCloseRelease(t)
    BY <2>1 DEF StmtCloseRelease, ReleaseStmt, TrackInv, WorkInv, HasOpenResult
  <2>2. CASE ~StmtCloseRelease(t)
    BY <1>6, <2>2 DEF StmtCloseStep, StmtCloseEnter, StmtCloseLock, StmtCloseReadClosing,
      StmtCloseUntrack, Untrack
  <2> QED BY <2>1, <2>2
<1>7. CASE ResultCloseStep(t)
  <2>1. CASE ResultCloseRead(t)
    BY <2>1 DEF ResultCloseRead, NullPointer
  <2>2. CASE ResultCloseFree(t)
    BY <2>2 DEF ResultCloseFree
  <2>3. CASE ResultCloseStmt(t)
    BY <2>3 DEF ResultCloseStmt, ReleaseStmt
  <2>4. CASE ResultCloseNested(t)
    BY <2>4 DEF ResultCloseNested, NullPointer, ReleaseStmt, TrackInv, WorkInv, HasOpenResult
  <2>5. CASE ResultCloseReadClosing(t) \/ ResultCloseUntrack(t)
    BY <2>5 DEF ResultCloseReadClosing, ResultCloseUntrack, Untrack
  <2> QED BY <1>7, <2>1, <2>2, <2>3, <2>4, <2>5 DEF ResultCloseStep
<1>8. CASE FetchStep(t)
  <2>1. CASE ForgetResult(t)
    BY <2>1 DEF ForgetResult
  <2>2. CASE ~ForgetResult(t)
    BY <1>8, <2>2 DEF FetchStep, FetchLockConn, FetchLockResult, FetchReturns, FetchThrows,
      FetchError, FetchUnlock, ResultSetClose, CloseResult
  <2> QED BY <2>1, <2>2
<1>9. CASE ConnCloseStep(t)
  BY <1>9 DEF ConnCloseStep, ConnCloseLock, ConnClosePending, ConnClosePendingDone,
      ConnCloseStmt, ConnCloseStmtsDone, ConnCloseAppender, ConnCloseAppendersDone,
      ConnDisconnect
<1>10. CASE ConnCallStep(t)
  BY <1>10 DEF ConnCallStep, ConnCallLock, ConnCallReturns, CancelInterrupt
<1>11. CASE AppenderStep(t)
  BY <1>11 DEF AppenderStep, AppenderCreate, AppenderTrack, AppenderLock,
      AppenderReturns, AppenderCloseLock, AppenderDestroy, AppenderReadClosing,
      AppenderUntrack, AppenderUnlock
<1>12. CASE QueryEnds(t)
  <2>1. CASE ExecuteThrows(t) \/ DirectThrows(t)
    BY <2>1 DEF ExecuteThrows, DirectThrows
  <2>2. ASSUME NEW r \in Results, NewResult(curStmt[t], r), pc[t] \in {"exRun", "dqRun"},
               UNCHANGED << detached, overwritten >>
        PROVE  ResultInv'
    <3>1. selectResult[curStmt[t]] = NoResult
      BY <2>2 DEF TrackInv, WorkInv, Querying
    <3> QED BY <2>2, <3>1 DEF NewResult
  <2> QED BY <1>12, <2>1, <2>2 DEF QueryEnds, ExecuteReturns, DirectReturns
<1> QED
  BY <1>1, <1>2, <1>3, <1>4, <1>5, <1>6, <1>7, <1>8, <1>9, <1>10, <1>11, <1>12 DEF ThreadStep, DriverStep

\* Once duckdb_jdbc_disconnect() has run, no native object of the connection is alive
\* but the results that getResultSet() returned or overwrote, in whatever order threads
\* executed, closed, took results over and failed before.
THEOREM DisconnectComesLast == Spec => []NothingOutlivesConnection
<1>1. Init => ResultInv
  BY DEF Init, ResultInv
<1>2. IInv /\ TrackInv /\ ResultInv /\ [Next]_vars => ResultInv'
  <2> SUFFICES ASSUME IInv, TrackInv, ResultInv, [Next]_vars PROVE ResultInv'
    OBVIOUS
  <2>1. CASE UNCHANGED vars
    BY <2>1 DEF ResultInv, vars, objectVars, stmtVars, resultVars
  <2>2. ASSUME NEW t \in Threads, ThreadStep(t) PROVE ResultInv'
    BY <2>2, ResultInvStep
  <2> QED BY <2>1, <2>2 DEF Next, Quiescent
<1>3. IInv /\ TrackInv /\ ResultInv => NothingOutlivesConnection
  <2> SUFFICES ASSUME IInv, TrackInv, ResultInv, ~connRef PROVE NothingOutlivesConnection!2
    BY DEF NothingOutlivesConnection
  <2>1. NoPending /\ preparedStatements = {}
    BY DEF TrackInv, ClosePhaseInv
  <2>2. \A s \in Stmts : ~stmtRef[s] /\ ~HasOpenResult(s)
    BY <2>1 DEF TrackInv, HolderInv, HoldersAreTracked
  <2>3. ASSUME NEW r \in Results, resultRef[r] = "live" PROVE r \in detached \cup overwritten
    BY <2>2, <2>3, ConstantsAssumption DEF ResultInv, HasOpenResult
  <2> QED BY <2>1, <2>2, <2>3 DEF NoPending
<1> QED BY <1>1, <1>2, <1>3, LockInvariance, TrackInvariance, PTL DEF Spec

\* What getResultSet() asks of the application: no query of the statement runs on one
\* thread while another is between its read of selectResult and its write of null.
TakenAlone ==
  \A t, u \in Threads :
    pc[t] = "grForget" /\ pc[u] \in {"exRun", "dqRun"} => curStmt[u] # curStmt[t]

\* What getResultSet() is about to set to null the application has got.
TakenInv ==
  /\ \A t \in Threads : pc[t] = "grForget" =>
       selectResult[curStmt[t]] \in detached \cup {NoResult}
  /\ overwritten = {}

\* Only a query that returns puts a result in the place of one that getResultSet() has read.
LEMMA TakenInvStep ==
  ASSUME IInv, TakenInv, TakenAlone, NEW t \in Threads, ThreadStep(t)
  PROVE  TakenInv'
<1> USE ConstantsAssumption DEF IInv, TypeOK, ConnTypeOK, StmtTypeOK, HandleTypeOK,
      ThreadTypeOK, TakenInv,
      Goto, driverVars, objectVars, localVars, connVars, trackVars, engineVars,
      stmtVars, resultVars, pendingVars, appenderVars, curVars, retVars, auxVars
<1>1. CASE StartStmt(t)
  BY <1>1 DEF StartStmt, StartExecute, StartPrepare, StartCloseStmt, GetResultSet,
      SetCloseOnCompletion, StartCancel, Starts
<1>2. CASE StartOther(t)
  BY <1>2 DEF StartOther, StartNext, StartCloseResult, StartCloseConn, StartConnCall,
      StartNewAppender, StartFlush, StartCloseAppender, Starts, StartConn, StartAppender
<1>3. CASE ExecuteStep(t)
  <2>1. CASE ExecuteTx(t)
    BY <2>1 DEF ExecuteTx, Dispatch
  <2>2. CASE ~ExecuteTx(t)
    BY <1>3, <2>2 DEF ExecuteStep, ExecuteBarrier, ExecuteLock, ExecuteBegin,
      ExecuteNative, ExecuteUnlock, ExecuteReset, ExecuteFailRead, ExecutePost,
      ExecutePostClose, Dispatch
  <2> QED BY <2>1, <2>2
<1>4. CASE DirectStep(t)
  BY <1>4 DEF DirectStep, DirectLockConn, DirectPendingQuery, DirectLockPending,
      DirectExecute, PendingClose, PendingReadClosing, PendingUntrack
<1>5. CASE PrepareStep(t)
  <2>1. CASE PrepareConn(t)
    BY <2>1 DEF PrepareConn
  <2>2. CASE ~PrepareConn(t)
    BY <1>5, <2>2 DEF PrepareStep, PrepareLock, PrepareCall, PrepareUnlock
  <2> QED BY <2>1, <2>2
<1>6. CASE StmtCloseStep(t)
  <2>1. CASE StmtCloseRelease(t)
    BY <2>1 DEF StmtCloseRelease, ReleaseStmt
  <2>2. CASE ~StmtCloseRelease(t)
    BY <1>6, <2>2 DEF StmtCloseStep, StmtCloseEnter, StmtCloseLock, StmtCloseReadClosing,
      StmtCloseUntrack, Untrack
  <2> QED BY <2>1, <2>2
<1>7. CASE ResultCloseStep(t)
  <2>1. CASE ResultCloseRead(t)
    BY <2>1 DEF ResultCloseRead, NullPointer
  <2>2. CASE ResultCloseFree(t)
    BY <2>2 DEF ResultCloseFree
  <2>3. CASE ResultCloseStmt(t)
    BY <2>3 DEF ResultCloseStmt, ReleaseStmt
  <2>4. CASE ResultCloseNested(t)
    BY <2>4 DEF ResultCloseNested, NullPointer, ReleaseStmt
  <2>5. CASE ResultCloseReadClosing(t) \/ ResultCloseUntrack(t)
    BY <2>5 DEF ResultCloseReadClosing, ResultCloseUntrack, Untrack
  <2> QED BY <1>7, <2>1, <2>2, <2>3, <2>4, <2>5 DEF ResultCloseStep
<1>8. CASE FetchStep(t)
  <2>1. CASE ForgetResult(t)
    BY <2>1 DEF ForgetResult
  <2>2. CASE ~ForgetResult(t)
    BY <1>8, <2>2 DEF FetchStep, FetchLockConn, FetchLockResult, FetchReturns, FetchThrows,
      FetchError, FetchUnlock, ResultSetClose, CloseResult
  <2> QED BY <2>1, <2>2
<1>9. CASE ConnCloseStep(t)
  BY <1>9 DEF ConnCloseStep, ConnCloseLock, ConnClosePending, ConnClosePendingDone,
      ConnCloseStmt, ConnCloseStmtsDone, ConnCloseAppender, ConnCloseAppendersDone,
      ConnDisconnect
<1>10. CASE ConnCallStep(t)
  BY <1>10 DEF ConnCallStep, ConnCallLock, ConnCallReturns, CancelInterrupt
<1>11. CASE AppenderStep(t)
  BY <1>11 DEF AppenderStep, AppenderCreate, AppenderTrack, AppenderLock,
      AppenderReturns, AppenderCloseLock, AppenderDestroy, AppenderReadClosing,
      AppenderUntrack, AppenderUnlock
<1>12. CASE QueryEnds(t)
  <2>1. CASE ExecuteThrows(t) \/ DirectThrows(t)
    BY <2>1 DEF ExecuteThrows, DirectThrows
  <2>2. ASSUME NEW r \in Results, NewResult(curStmt[t], r), pc[t] \in {"exRun", "dqRun"},
               UNCHANGED << detached, overwritten, curStmt >>, Goto(t, "exUnlock")
        PROVE  TakenInv'
    <3>1. \A u \in Threads : pc[u] = "grForget" => curStmt[u] # curStmt[t]
      BY <2>2 DEF TakenAlone
    <3> QED BY <2>2, <3>1 DEF NewResult
  <2> QED BY <1>12, <2>1, <2>2 DEF QueryEnds, ExecuteReturns, DirectReturns
<1> QED
  BY <1>1, <1>2, <1>3, <1>4, <1>5, <1>6, <1>7, <1>8, <1>9, <1>10, <1>11, <1>12 DEF ThreadStep, DriverStep

\* As long as no query of a statement runs while another thread is in its
\* getResultSet(), getResultSet() sets no result to null but the one it returns;
\* otherwise the result of that query can be lost (MCLifecycle_lost_result.cfg).
THEOREM ResultsAreTaken == Spec /\ []TakenAlone => []NoResultIsLost
<1>1. Init => TakenInv
  BY DEF Init, TakenInv
<1>2. IInv /\ TakenInv /\ TakenAlone /\ [Next]_vars => TakenInv'
  <2> SUFFICES ASSUME IInv, TakenInv, TakenAlone, [Next]_vars PROVE TakenInv'
    OBVIOUS
  <2>1. CASE UNCHANGED vars
    BY <2>1 DEF TakenInv, vars, objectVars, stmtVars, resultVars, localVars, curVars
  <2>2. ASSUME NEW t \in Threads, ThreadStep(t) PROVE TakenInv'
    BY <2>2, TakenInvStep
  <2> QED BY <2>1, <2>2 DEF Next, Quiescent
<1>3. TakenInv => NoResultIsLost
  BY DEF TakenInv, NoResultIsLost
<1> QED BY <1>1, <1>2, <1>3, LockInvariance, PTL DEF Spec

\* The connection never keeps a closed statement: whoever closes it, directly, by
\* closing its result or by a failed execution, the statement is untracked.
THEOREM UntrackingIsNeverLost == Spec => []ClosedStatementsUntracked
<1>1. TrackInv => ClosedStatementsUntracked
  BY DEF TrackInv, ClosedInv, ClosedStatementsUntracked
<1> QED BY <1>1, TrackInvariance, PTL
-----------------------------------------------------------------------------
(***************************************************************************)
(* Threads do not wait for each other for ever.                            *)
(***************************************************************************)
\* Where the lock of an appender is held.
AppenderLocked == { "afCall", "acCall", "acClosing", "acUntrack", "acNull" }

\* Each lock is held at these places only, on the way to its release.
StmtHeldInv ==
  \A t \in Threads, s \in Stmts : stmtRefLock[s] = t => curStmt[t] = s /\ pc[t] \in StmtLocked
ResultHeldInv ==
  \A t \in Threads, r \in Results : resultRefLock[r] = t => curResult[t] = r /\ pc[t] = "fCall"
PendingHeldInv ==
  \A t, u \in Threads : pendingRefLock[u] = t => u = t /\ pc[t] \in {"dqExec", "dqRun"}
AppenderHeldInv ==
  \A t \in Threads, a \in Appenders :
    appenderRefLock[a] = t => curAppender[t] = a /\ pc[t] \in AppenderLocked
ContextHeldInv == \A t \in Threads : contextLock = t => pc[t] \in {"exRun", "dqRun"}
ConnHeldInv ==
  \A t \in Threads : connRefLock = t =>
    \/ pc[t] \in {"dqQuery", "pCall", "fRes", "fCall", "fErr", "fUnlock", "kCall"}
    \/ InStmtClose(t, {"fUnlock"})
    \/ InConnClose(t)
HeldInv == StmtHeldInv /\ ResultHeldInv /\ PendingHeldInv /\ AppenderHeldInv
           /\ ContextHeldInv /\ ConnHeldInv

\* Every step of a thread leaves statement locks with threads that are to release them,
LEMMA StmtHeldStep ==
  ASSUME IInv, StmtHeldInv, NEW t \in Threads, ThreadStep(t)
  PROVE  StmtHeldInv'
<1> USE ConstantsAssumption DEF IInv, TypeOK, ThreadTypeOK, StmtTypeOK, StmtHeldInv,
      StmtLockInv, StmtLocked, Goto, driverVars, objectVars, localVars, connVars, trackVars,
      engineVars, stmtVars, resultVars, pendingVars, appenderVars, curVars, retVars, auxVars
<1>1. CASE StartStmt(t)
  <2>1. /\ UNCHANGED stmtRefLock /\ pc[t] = "idle"
        /\ \A u \in Threads \ {t} : pc'[u] = pc[u] /\ curStmt'[u] = curStmt[u]
    BY <1>1 DEF StartStmt, StartExecute, StartPrepare, StartCloseStmt, GetResultSet,
      SetCloseOnCompletion, StartCancel, Starts
  <2> QED BY SMTT(30), <2>1
<1>2. CASE StartOther(t)
  BY <1>2 DEF StartOther, StartNext, StartCloseResult, StartCloseConn, StartConnCall,
      StartNewAppender, StartFlush, StartCloseAppender, Starts, StartConn,
      StartAppender
<1>3. CASE ExecuteStep(t)
  BY <1>3 DEF ExecuteStep, ExecuteBarrier, ExecuteLock, ExecuteTx, ExecuteBegin, ExecuteNative,
      ExecuteUnlock, ExecuteReset, ExecuteFailRead, ExecutePost, ExecutePostClose, Dispatch
<1>4. CASE DirectStep(t)
  BY <1>4 DEF DirectStep, DirectLockConn, DirectPendingQuery, DirectLockPending, DirectExecute,
      PendingClose, PendingReadClosing, PendingUntrack
<1>5. CASE PrepareStep(t)
  BY <1>5 DEF PrepareStep, PrepareLock, PrepareConn, PrepareCall, PrepareUnlock
<1>6. CASE StmtCloseStep(t)
  BY <1>6 DEF StmtCloseStep, StmtCloseEnter, StmtCloseLock, StmtCloseRelease, StmtCloseReadClosing,
      StmtCloseUntrack, Untrack, ReleaseStmt
<1>7. CASE ResultCloseStep(t)
  BY <1>7 DEF ResultCloseStep, ResultCloseRead, ResultCloseFree, ResultCloseStmt, NullPointer,
      ResultCloseNested, ResultCloseReadClosing,
      ResultCloseUntrack, Untrack, ReleaseStmt
<1>8. CASE FetchStep(t)
  BY <1>8 DEF FetchStep, FetchLockConn, FetchLockResult, FetchReturns, FetchThrows, FetchError,
      FetchUnlock, ResultSetClose, CloseResult, ForgetResult
<1>9. CASE ConnCloseStep(t)
  BY <1>9 DEF ConnCloseStep, ConnCloseLock, ConnClosePending, ConnClosePendingDone, ConnCloseStmt,
      ConnCloseStmtsDone, ConnCloseAppender, ConnCloseAppendersDone, ConnDisconnect
<1>10. CASE ConnCallStep(t)
  BY <1>10 DEF ConnCallStep, ConnCallLock, ConnCallReturns, CancelInterrupt
<1>11. CASE AppenderStep(t)
  BY <1>11 DEF AppenderStep, AppenderCreate, AppenderTrack, AppenderLock, AppenderReturns,
      AppenderCloseLock, AppenderDestroy, AppenderReadClosing, AppenderUntrack,
      AppenderUnlock
<1>12. CASE QueryEnds(t)
  BY <1>12 DEF QueryEnds, ExecuteReturns, ExecuteThrows, DirectReturns, DirectThrows
<1> QED
  BY <1>1, <1>2, <1>3, <1>4, <1>5, <1>6, <1>7, <1>8, <1>9, <1>10, <1>11, <1>12 DEF ThreadStep, DriverStep

\* and so the locks of results,
LEMMA ResultHeldStep ==
  ASSUME IInv, ResultHeldInv, NEW t \in Threads, ThreadStep(t)
  PROVE  ResultHeldInv'
<1> USE ConstantsAssumption DEF IInv, TypeOK, ThreadTypeOK, HandleTypeOK, ResultHeldInv,
      QueryInv, Goto, driverVars, objectVars, localVars, connVars, trackVars, engineVars,
      stmtVars, resultVars, pendingVars, appenderVars, curVars, retVars, auxVars
<1>1. CASE StartStmt(t)
  BY <1>1 DEF StartStmt, StartExecute, StartPrepare, StartCloseStmt, GetResultSet,
      SetCloseOnCompletion, StartCancel, Starts
<1>2. CASE StartOther(t)
  BY <1>2 DEF StartOther, StartNext, StartCloseResult, StartCloseConn, StartConnCall,
      StartNewAppender, StartFlush, StartCloseAppender, Starts, StartConn,
      StartAppender
<1>3. CASE ExecuteStep(t)
  BY <1>3 DEF ExecuteStep, ExecuteBarrier, ExecuteLock, ExecuteTx, ExecuteBegin, ExecuteNative,
      ExecuteUnlock, ExecuteReset, ExecuteFailRead, ExecutePost, ExecutePostClose, Dispatch
<1>4. CASE DirectStep(t)
  BY <1>4 DEF DirectStep, DirectLockConn, DirectPendingQuery, DirectLockPending, DirectExecute,
      PendingClose, PendingReadClosing, PendingUntrack
<1>5. CASE PrepareStep(t)
  BY <1>5 DEF PrepareStep, PrepareLock, PrepareConn, PrepareCall, PrepareUnlock
<1>6. CASE StmtCloseStep(t)
  BY <1>6 DEF StmtCloseStep, StmtCloseEnter, StmtCloseLock, StmtCloseRelease, StmtCloseReadClosing,
      StmtCloseUntrack, Untrack
<1>7. CASE ResultCloseStep(t)
  BY <1>7 DEF ResultCloseStep, ResultCloseRead, ResultCloseFree, ResultCloseStmt, NullPointer,
      ResultCloseNested, ResultCloseReadClosing,
      ResultCloseUntrack, Untrack
<1>8. CASE FetchStep(t)
  BY <1>8 DEF FetchStep, FetchLockConn, FetchLockResult, FetchReturns, FetchThrows, FetchError,
      FetchUnlock, ResultSetClose, CloseResult, ForgetResult
<1>9. CASE ConnCloseStep(t)
  BY <1>9 DEF ConnCloseStep, ConnCloseLock, ConnClosePending, ConnClosePendingDone, ConnCloseStmt,
      ConnCloseStmtsDone, ConnCloseAppender, ConnCloseAppendersDone, ConnDisconnect
<1>10. CASE ConnCallStep(t)
  BY <1>10 DEF ConnCallStep, ConnCallLock, ConnCallReturns, CancelInterrupt
<1>11. CASE AppenderStep(t)
  BY <1>11 DEF AppenderStep, AppenderCreate, AppenderTrack, AppenderLock, AppenderReturns,
      AppenderCloseLock, AppenderDestroy, AppenderReadClosing, AppenderUntrack,
      AppenderUnlock
<1>12. CASE QueryEnds(t)
  BY <1>12 DEF QueryEnds, ExecuteReturns, ExecuteThrows, DirectReturns, DirectThrows, NewResult
<1> QED
  BY <1>1, <1>2, <1>3, <1>4, <1>5, <1>6, <1>7, <1>8, <1>9, <1>10, <1>11, <1>12 DEF ThreadStep, DriverStep

\* of pending queries,
LEMMA PendingHeldStep ==
  ASSUME IInv, PendingHeldInv, NEW t \in Threads, ThreadStep(t)
  PROVE  PendingHeldInv'
<1> USE ConstantsAssumption DEF IInv, TypeOK, ThreadTypeOK, HandleTypeOK, PendingHeldInv,
      QueryInv, Goto, driverVars, objectVars, localVars, connVars, trackVars, engineVars,
      stmtVars, resultVars, pendingVars, appenderVars, curVars, retVars, auxVars
<1>1. CASE StartStmt(t)
  BY <1>1 DEF StartStmt, StartExecute, StartPrepare, StartCloseStmt, GetResultSet,
      SetCloseOnCompletion, StartCancel, Starts
<1>2. CASE StartOther(t)
  BY <1>2 DEF StartOther, StartNext, StartCloseResult, StartCloseConn, StartConnCall,
      StartNewAppender, StartFlush, StartCloseAppender, Starts, StartConn,
      StartAppender
<1>3. CASE ExecuteStep(t)
  BY <1>3 DEF ExecuteStep, ExecuteBarrier, ExecuteLock, ExecuteTx, ExecuteBegin, ExecuteNative,
      ExecuteUnlock, ExecuteReset, ExecuteFailRead, ExecutePost, ExecutePostClose, Dispatch
<1>4. CASE DirectStep(t)
  BY <1>4 DEF DirectStep, DirectLockConn, DirectPendingQuery, DirectLockPending, DirectExecute,
      PendingClose, PendingReadClosing, PendingUntrack
<1>5. CASE PrepareStep(t)
  BY <1>5 DEF PrepareStep, PrepareLock, PrepareConn, PrepareCall, PrepareUnlock
<1>6. CASE StmtCloseStep(t)
  BY <1>6 DEF StmtCloseStep, StmtCloseEnter, StmtCloseLock, StmtCloseRelease, StmtCloseReadClosing,
      StmtCloseUntrack, Untrack
<1>7. CASE ResultCloseStep(t)
  BY <1>7 DEF ResultCloseStep, ResultCloseRead, ResultCloseFree, ResultCloseStmt, NullPointer,
      ResultCloseNested, ResultCloseReadClosing,
      ResultCloseUntrack, Untrack
<1>8. CASE FetchStep(t)
  BY <1>8 DEF FetchStep, FetchLockConn, FetchLockResult, FetchReturns, FetchThrows, FetchError,
      FetchUnlock, ResultSetClose, CloseResult, ForgetResult
<1>9. CASE ConnCloseStep(t)
  BY <1>9 DEF ConnCloseStep, ConnCloseLock, ConnClosePending, ConnClosePendingDone, ConnCloseStmt,
      ConnCloseStmtsDone, ConnCloseAppender, ConnCloseAppendersDone, ConnDisconnect
<1>10. CASE ConnCallStep(t)
  BY <1>10 DEF ConnCallStep, ConnCallLock, ConnCallReturns, CancelInterrupt
<1>11. CASE AppenderStep(t)
  BY <1>11 DEF AppenderStep, AppenderCreate, AppenderTrack, AppenderLock, AppenderReturns,
      AppenderCloseLock, AppenderDestroy, AppenderReadClosing, AppenderUntrack,
      AppenderUnlock
<1>12. CASE QueryEnds(t)
  BY <1>12 DEF QueryEnds, ExecuteReturns, ExecuteThrows, DirectReturns, DirectThrows
<1> QED
  BY <1>1, <1>2, <1>3, <1>4, <1>5, <1>6, <1>7, <1>8, <1>9, <1>10, <1>11, <1>12 DEF ThreadStep, DriverStep

\* of appenders,
LEMMA AppenderHeldStep ==
  ASSUME IInv, AppenderHeldInv, NEW t \in Threads, ThreadStep(t)
  PROVE  AppenderHeldInv'
<1> USE ConstantsAssumption DEF IInv, TypeOK, ThreadTypeOK, HandleTypeOK, AppenderHeldInv,
      AppenderInv, AppenderInUse, AppenderLocked, Goto, driverVars, objectVars, localVars,
      connVars, trackVars, engineVars, stmtVars, resultVars, pendingVars, appenderVars,
      curVars, retVars, auxVars
<1>1. CASE StartStmt(t)
  BY <1>1 DEF StartStmt, StartExecute, StartPrepare, StartCloseStmt, GetResultSet,
      SetCloseOnCompletion, StartCancel, Starts
<1>2. CASE StartOther(t)
  BY <1>2 DEF StartOther, StartNext, StartCloseResult, StartCloseConn, StartConnCall,
      StartNewAppender, StartFlush, StartCloseAppender, Starts, StartConn,
      StartAppender
<1>3. CASE ExecuteStep(t)
  BY <1>3 DEF ExecuteStep, ExecuteBarrier, ExecuteLock, ExecuteTx, ExecuteBegin, ExecuteNative,
      ExecuteUnlock, ExecuteReset, ExecuteFailRead, ExecutePost, ExecutePostClose, Dispatch
<1>4. CASE DirectStep(t)
  BY <1>4 DEF DirectStep, DirectLockConn, DirectPendingQuery, DirectLockPending, DirectExecute,
      PendingClose, PendingReadClosing, PendingUntrack
<1>5. CASE PrepareStep(t)
  BY <1>5 DEF PrepareStep, PrepareLock, PrepareConn, PrepareCall, PrepareUnlock
<1>6. CASE StmtCloseStep(t)
  BY <1>6 DEF StmtCloseStep, StmtCloseEnter, StmtCloseLock, StmtCloseRelease, StmtCloseReadClosing,
      StmtCloseUntrack, Untrack
<1>7. CASE ResultCloseStep(t)
  BY <1>7 DEF ResultCloseStep, ResultCloseRead, ResultCloseFree, ResultCloseStmt, NullPointer,
      ResultCloseNested, ResultCloseReadClosing,
      ResultCloseUntrack, Untrack
<1>8. CASE FetchStep(t)
  BY <1>8 DEF FetchStep, FetchLockConn, FetchLockResult, FetchReturns, FetchThrows, FetchError,
      FetchUnlock, ResultSetClose, CloseResult, ForgetResult
<1>9. CASE ConnCloseStep(t)
  BY <1>9 DEF ConnCloseStep, ConnCloseLock, ConnClosePending, ConnClosePendingDone, ConnCloseStmt,
      ConnCloseStmtsDone, ConnCloseAppender, ConnCloseAppendersDone, ConnDisconnect
<1>10. CASE ConnCallStep(t)
  BY <1>10 DEF ConnCallStep, ConnCallLock, ConnCallReturns, CancelInterrupt
<1>11. CASE AppenderStep(t)
  BY <1>11 DEF AppenderStep, AppenderCreate, AppenderTrack, AppenderLock, AppenderReturns,
      AppenderCloseLock, AppenderDestroy, AppenderReadClosing, AppenderUntrack,
      AppenderUnlock
<1>12. CASE QueryEnds(t)
  BY <1>12 DEF QueryEnds, ExecuteReturns, ExecuteThrows, DirectReturns, DirectThrows
<1> QED
  BY <1>1, <1>2, <1>3, <1>4, <1>5, <1>6, <1>7, <1>8, <1>9, <1>10, <1>11, <1>12 DEF ThreadStep, DriverStep

\* of the engine
LEMMA ContextHeldStep ==
  ASSUME IInv, ContextHeldInv, NEW t \in Threads, ThreadStep(t)
  PROVE  ContextHeldInv'
<1> USE ConstantsAssumption DEF IInv, TypeOK, ThreadTypeOK, ConnTypeOK, ContextHeldInv,
      Goto, driverVars, objectVars, localVars, connVars, trackVars, engineVars, stmtVars,
      resultVars, pendingVars, appenderVars, curVars, retVars, auxVars
<1>1. CASE StartStmt(t)
  BY <1>1 DEF StartStmt, StartExecute, StartPrepare, StartCloseStmt, GetResultSet,
      SetCloseOnCompletion, StartCancel, Starts
<1>2. CASE StartOther(t)
  BY <1>2 DEF StartOther, StartNext, StartCloseResult, StartCloseConn, StartConnCall,
      StartNewAppender, StartFlush, StartCloseAppender, Starts, StartConn,
      StartAppender
<1>3. CASE ExecuteStep(t)
  BY <1>3 DEF ExecuteStep, ExecuteBarrier, ExecuteLock, ExecuteTx, ExecuteBegin, ExecuteNative,
      ExecuteUnlock, ExecuteReset, ExecuteFailRead, ExecutePost, ExecutePostClose, Dispatch
<1>4. CASE DirectStep(t)
  BY <1>4 DEF DirectStep, DirectLockConn, DirectPendingQuery, DirectLockPending, DirectExecute,
      PendingClose, PendingReadClosing, PendingUntrack
<1>5. CASE PrepareStep(t)
  BY <1>5 DEF PrepareStep, PrepareLock, PrepareConn, PrepareCall, PrepareUnlock
<1>6. CASE StmtCloseStep(t)
  BY <1>6 DEF StmtCloseStep, StmtCloseEnter, StmtCloseLock, StmtCloseRelease, StmtCloseReadClosing,
      StmtCloseUntrack, Untrack
<1>7. CASE ResultCloseStep(t)
  BY <1>7 DEF ResultCloseStep, ResultCloseRead, ResultCloseFree, ResultCloseStmt, NullPointer,
      ResultCloseNested, ResultCloseReadClosing,
      ResultCloseUntrack, Untrack
<1>8. CASE FetchStep(t)
  BY <1>8 DEF FetchStep, FetchLockConn, FetchLockResult, FetchReturns, FetchThrows, FetchError,
      FetchUnlock, ResultSetClose, CloseResult, ForgetResult
<1>9. CASE ConnCloseStep(t)
  BY <1>9 DEF ConnCloseStep, ConnCloseLock, ConnClosePending, ConnClosePendingDone, ConnCloseStmt,
      ConnCloseStmtsDone, ConnCloseAppender, ConnCloseAppendersDone, ConnDisconnect
<1>10. CASE ConnCallStep(t)
  BY <1>10 DEF ConnCallStep, ConnCallLock, ConnCallReturns, CancelInterrupt
<1>11. CASE AppenderStep(t)
  BY <1>11 DEF AppenderStep, AppenderCreate, AppenderTrack, AppenderLock, AppenderReturns,
      AppenderCloseLock, AppenderDestroy, AppenderReadClosing, AppenderUntrack,
      AppenderUnlock
<1>12. CASE QueryEnds(t)
  BY <1>12 DEF QueryEnds, ExecuteReturns, ExecuteThrows, DirectReturns, DirectThrows
<1> QED
  BY <1>1, <1>2, <1>3, <1>4, <1>5, <1>6, <1>7, <1>8, <1>9, <1>10, <1>11, <1>12 DEF ThreadStep, DriverStep

\* and of the connection.
LEMMA ConnHeldStep ==
  ASSUME IInv, ConnHeldInv, NEW t \in Threads, ThreadStep(t)
  PROVE  ConnHeldInv'
<1> USE ConstantsAssumption DEF IInv, TypeOK, ThreadTypeOK, ConnTypeOK, ConnHeldInv,
      ConnLockInv, InConnClose, InStmtClose, InConnAppClose, StmtCloseLabels,
      ResultCloseLabels, Goto, driverVars, objectVars, localVars, connVars, trackVars,
      engineVars, stmtVars, resultVars, pendingVars, appenderVars, curVars, retVars, auxVars
<1>1. CASE StartStmt(t)
  BY <1>1 DEF StartStmt, StartExecute, StartPrepare, StartCloseStmt, GetResultSet,
      SetCloseOnCompletion, StartCancel, Starts, CanLock
<1>2. CASE StartOther(t)
  BY <1>2 DEF StartOther, StartNext, StartCloseResult, StartCloseConn, StartConnCall,
      StartNewAppender, StartFlush, StartCloseAppender, Starts, StartConn,
      StartAppender, CanLock
<1>3. CASE ExecuteStep(t)
  BY <1>3 DEF ExecuteStep, ExecuteBarrier, ExecuteLock, ExecuteTx, ExecuteBegin, ExecuteNative,
      ExecuteUnlock, ExecuteReset, ExecuteFailRead, ExecutePost, ExecutePostClose, Dispatch, CanLock
<1>4. CASE DirectStep(t)
  BY <1>4 DEF DirectStep, DirectLockConn, DirectPendingQuery, DirectLockPending, DirectExecute,
      PendingClose, PendingReadClosing, PendingUntrack, CanLock
<1>5. CASE PrepareStep(t)
  BY <1>5 DEF PrepareStep, PrepareLock, PrepareConn, PrepareCall, PrepareUnlock, CanLock
<1>6. CASE StmtCloseStep(t)
  BY <1>6 DEF StmtCloseStep, StmtCloseEnter, StmtCloseLock, StmtCloseRelease, StmtCloseReadClosing,
      StmtCloseUntrack, Untrack, CanLock
<1>7. CASE ResultCloseStep(t)
  BY <1>7 DEF ResultCloseStep, ResultCloseRead, ResultCloseFree, ResultCloseStmt, NullPointer,
      ResultCloseNested, ResultCloseReadClosing,
      ResultCloseUntrack, Untrack, CanLock
<1>8. CASE FetchStep(t)
  BY <1>8 DEF FetchStep, FetchLockConn, FetchLockResult, FetchReturns, FetchThrows, FetchError,
      FetchUnlock, ResultSetClose, CloseResult, ForgetResult, CanLock
<1>9. CASE ConnCloseStep(t)
  BY <1>9 DEF ConnCloseStep, ConnCloseLock, ConnClosePending, ConnClosePendingDone, ConnCloseStmt,
      ConnCloseStmtsDone, ConnCloseAppender, ConnCloseAppendersDone, ConnDisconnect,
      CanLock
<1>10. CASE ConnCallStep(t)
  BY <1>10 DEF ConnCallStep, ConnCallLock, ConnCallReturns, CancelInterrupt, CanLock
<1>11. CASE AppenderStep(t)
  BY <1>11 DEF AppenderStep, AppenderCreate, AppenderTrack, AppenderLock, AppenderReturns,
      AppenderCloseLock, AppenderDestroy, AppenderReadClosing, AppenderUntrack,
      AppenderUnlock, CanLock
<1>12. CASE QueryEnds(t)
  BY <1>12 DEF QueryEnds, ExecuteReturns, ExecuteThrows, DirectReturns, DirectThrows, CanLock
<1> QED
  BY <1>1, <1>2, <1>3, <1>4, <1>5, <1>6, <1>7, <1>8, <1>9, <1>10, <1>11, <1>12 DEF ThreadStep, DriverStep

\* An execution that can come to wait for the connection lock with the lock of its
\* statement held, and prepare(), which does: that of a statement without a tracked handle.
Fresh(t) ==
  \/ /\ \/ pc[t] \in {"exBarrier", "exLock", "exTx", "exBegin"}
        \/ pc[t] \in {"rcRead", "rcFree"} /\ retResultClose[t] = "exTx"
     /\ curStmt[t] \notin Prepared \/ ~AutoCommit
  \/ pc[t] \in {"dqConn", "dqQuery", "pLock", "pConn", "pCall", "rcStmt", "rcNested",
               "rcClosing", "rcUntrack"}
  \/ pc[t] \in {"rcRead", "rcFree"} /\ retResultClose[t] = "pConn"

\* conn.close() does not know their statements, and no two of them have the same.
FreshInv ==
  \A t \in Threads : Fresh(t) =>
    /\ curStmt[t] \notin preparedStatements
    /\ \A u \in Threads \ {t} : Fresh(u) => curStmt[u] # curStmt[t]

\* Nobody closes the statement of a result set, or an appender, but conn.close().
CallerInv ==
  /\ \A s \in Stmts : ~closeOnCompletion[s]
  /\ \A t \in Threads :
       /\ pc[t] \in {"rcStmt", "rcNested", "rcClosing", "rcUntrack"} => retResultClose[t] = "pUnlock"
       /\ ~InStmtClose(t, {"fUnlock"})
       /\ pc[t] \in {"acLock", "acCall", "acClosing", "acUntrack", "acNull"} => retAppClose[t] = "ccApps"
       /\ pc[t] = "exBegin" => ~AutoCommit

\* conn.close() closes tracked statements, and its children do not untrack themselves.
ClosingInv ==
  \A t \in Threads :
    /\ InConnClose(t) => closing /\ pc[t] \notin {"scUntrack", "acUntrack"}
    /\ InStmtClose(t, {"ccStmts"}) => curStmt[t] \in preparedStatements
    /\ pc[t] = "ccStmts" \/ InStmtClose(t, {"ccStmts"}) => todoStmts \subseteq preparedStatements

OrderInv == HeldInv /\ FreshInv /\ CallerInv /\ ClosingInv

\* Where a thread waits for the lock of the connection, of its statement, or of what.
WaitsForConn == { "exBarrier", "exBegin", "dqConn", "pConn", "pqUntrack", "scUntrack", "rcUntrack",
                  "fConn", "ccLock", "kConn", "caConn", "anConn", "acUntrack" }
WaitsForStmt == { "exLock", "scLock", "pLock" }
WaitsForResult == { "rcFree", "fRes", "fErr", "rsFree" }
WaitsForPending == { "dqPending", "pqClose" }
WaitsForEngine == { "exNative", "dqQuery", "dqExec", "pCall", "afCall", "acCall" }

\* Whom a thread waits for holds the lock that it is about to take.
LEMMA WaitsForHolder ==
  ASSUME NEW t \in Threads, WaitsFor(t) \in Threads
  PROVE  /\ WaitsFor(t) # t
         /\ \/ pc[t] \in WaitsForConn /\ connRefLock = WaitsFor(t)
            \/ pc[t] \in WaitsForStmt /\ stmtRefLock[curStmt[t]] = WaitsFor(t)
            \/ pc[t] \in WaitsForResult /\ resultRefLock[curResult[t]] = WaitsFor(t)
            \/ pc[t] \in WaitsForPending /\ pendingRefLock[t] = WaitsFor(t)
            \/ pc[t] \in {"afLock", "acLock"} /\ appenderRefLock[curAppender[t]] = WaitsFor(t)
            \/ pc[t] = "ccPending" /\ \E p \in pendingQueries : pendingRefLock[p] = WaitsFor(t)
            \/ pc[t] \in WaitsForEngine /\ contextLock = WaitsFor(t)
<1>1. NoThread \notin Threads  BY ConstantsAssumption
<1>2. CASE pc[t] = "ccPending"
  <2> DEFINE busy == {p \in pendingQueries : pendingRef[p]}
             owner == IF busy = {} \/ \E p \in busy : CanLock(pendingRefLock[p], t)
                      THEN NoThread ELSE pendingRefLock[CHOOSE p \in busy : TRUE]
  <2>1. WaitsFor(t) = IF owner = t THEN NoThread ELSE owner  BY <1>2 DEF WaitsFor
  <2>2. WaitsFor(t) = owner /\ owner # t /\ owner # NoThread  BY <1>1, <2>1
  <2>3. busy # {} /\ owner = pendingRefLock[CHOOSE p \in busy : TRUE]  BY <2>2
  <2>4. (CHOOSE p \in busy : TRUE) \in busy  BY <2>3
  <2> QED BY <1>2, <2>2, <2>3, <2>4
<1>3. CASE pc[t] # "ccPending"
  <2>1. CASE pc[t] \in WaitsForConn
    <3>1. WaitsFor(t) \in {NoThread, connRefLock} /\ WaitsFor(t) # t
      BY <1>1, <2>1 DEF WaitsFor, WaitsForConn
    <3> QED BY <1>1, <2>1, <3>1
  <2>2. CASE pc[t] \in WaitsForStmt
    <3>1. WaitsFor(t) \in {NoThread, stmtRefLock[curStmt[t]]} /\ WaitsFor(t) # t
      BY <1>1, <2>2 DEF WaitsFor, WaitsForStmt
    <3> QED BY <1>1, <2>2, <3>1
  <2>3. CASE pc[t] \in WaitsForResult
    <3>1. WaitsFor(t) \in {NoThread, resultRefLock[curResult[t]]} /\ WaitsFor(t) # t
      BY <1>1, <2>3 DEF WaitsFor, WaitsForResult
    <3> QED BY <1>1, <2>3, <3>1
  <2>4. CASE pc[t] \in WaitsForPending
    <3>1. WaitsFor(t) \in {NoThread, pendingRefLock[t]} /\ WaitsFor(t) # t
      BY <1>1, <2>4 DEF WaitsFor, WaitsForPending
    <3> QED BY <1>1, <2>4, <3>1
  <2>5. CASE pc[t] \in {"afLock", "acLock"}
    <3>1. WaitsFor(t) \in {NoThread, appenderRefLock[curAppender[t]]} /\ WaitsFor(t) # t
      BY <1>1, <2>5 DEF WaitsFor
    <3> QED BY <1>1, <2>5, <3>1
  <2>6. CASE pc[t] \in WaitsForEngine
    <3>1. WaitsFor(t) \in {NoThread, contextLock} /\ WaitsFor(t) # t
      BY <1>1, <2>6 DEF WaitsFor, WaitsForEngine
    <3> QED BY <1>1, <2>6, <3>1
  <2>7. CASE pc[t] \notin WaitsForConn \cup WaitsForStmt \cup WaitsForResult \cup WaitsForPending
                          \cup {"afLock", "acLock"} \cup WaitsForEngine
    <3>1. WaitsFor(t) = NoThread
      BY <1>3, <2>7 DEF WaitsFor, WaitsForConn, WaitsForStmt, WaitsForResult, WaitsForPending, WaitsForEngine
    <3> QED BY <1>1, <3>1
  <2> QED BY <2>1, <2>2, <2>3, <2>4, <2>5, <2>6, <2>7
<1> QED BY <1>2, <1>3

\* The order in which threads take locks: nobody waits while his query runs or he
\* fetches; who holds an appender or a pending query waits for the engine at most; who
\* holds the connection for these, or, when closing it, for a statement it has tracked,
\* whose holder does not wait for the connection.
LEMMA LockOrder == IInv /\ OrderInv => NoDeadlock
<1> SUFFICES ASSUME IInv, OrderInv, NEW D \in (SUBSET Threads) \ {{}}, \A t \in D : WaitsFor(t) \in D
             PROVE  FALSE
  BY Zenon DEF NoDeadlock
<1>0. \A t \in D : curStmt[t] \in Stmts /\ curResult[t] \in Results /\ curAppender[t] \in Appenders
  BY DEF IInv, TypeOK, ThreadTypeOK
<1>1. \A t \in D : /\ WaitsFor(t) \in D /\ WaitsFor(t) # t
        /\ \/ pc[t] \in WaitsForConn /\ connRefLock = WaitsFor(t)
           \/ pc[t] \in WaitsForStmt /\ stmtRefLock[curStmt[t]] = WaitsFor(t)
           \/ pc[t] \in WaitsForResult /\ resultRefLock[curResult[t]] = WaitsFor(t)
           \/ pc[t] \in WaitsForPending /\ pendingRefLock[t] = WaitsFor(t)
           \/ pc[t] \in {"afLock", "acLock"} /\ appenderRefLock[curAppender[t]] = WaitsFor(t)
           \/ pc[t] = "ccPending" /\ \E p \in pendingQueries : pendingRefLock[p] = WaitsFor(t)
           \/ pc[t] \in WaitsForEngine /\ contextLock = WaitsFor(t)
  BY WaitsForHolder
<1>2. \A t \in D : pc[t] \in WaitsForConn \cup WaitsForStmt \cup WaitsForResult \cup WaitsForPending
                             \cup {"afLock", "acLock", "ccPending"} \cup WaitsForEngine
  BY <1>1
<1>3. ASSUME NEW t \in D PROVE pc[t] \notin WaitsForEngine \cup WaitsForResult \cup WaitsForPending
  <2> DEFINE u == WaitsFor(t)
  <2>0. u \in D /\ u # t /\ u \in Threads  BY <1>1
  <2>1. contextLock # u
    <3>1. contextLock = u => pc[u] \in {"exRun", "dqRun"}  BY <2>0 DEF OrderInv, HeldInv, ContextHeldInv
    <3> QED BY <1>2, <2>0, <3>1
          DEF WaitsForConn, WaitsForStmt, WaitsForResult, WaitsForPending, WaitsForEngine
  <2>2. resultRefLock[curResult[t]] # u
    <3>1. resultRefLock[curResult[t]] = u => pc[u] = "fCall"
      BY <1>0, <2>0 DEF OrderInv, HeldInv, ResultHeldInv
    <3> QED BY <1>2, <2>0, <3>1
          DEF WaitsForConn, WaitsForStmt, WaitsForResult, WaitsForPending, WaitsForEngine
  <2>3. pendingRefLock[t] # u  BY <2>0 DEF OrderInv, HeldInv, PendingHeldInv
  <2> QED BY <1>1, <2>1, <2>2, <2>3
        DEF WaitsForConn, WaitsForStmt, WaitsForResult, WaitsForPending, WaitsForEngine
<1>4. ASSUME NEW t \in D PROVE pc[t] \notin {"afLock", "acLock", "ccPending"}
  <2> DEFINE u == WaitsFor(t)
  <2>0. u \in D /\ u # t /\ u \in Threads  BY <1>1
  <2>1. appenderRefLock[curAppender[t]] # u
    <3> SUFFICES ASSUME appenderRefLock[curAppender[t]] = u PROVE FALSE
      OBVIOUS
    <3>1. pc[u] \in AppenderLocked  BY <1>0, <2>0 DEF OrderInv, HeldInv, AppenderHeldInv
    <3>2. pc[u] = "acUntrack"
      BY <1>2, <1>3, <2>0, <3>1
      DEF AppenderLocked, WaitsForConn, WaitsForStmt, WaitsForResult, WaitsForPending, WaitsForEngine
    <3>3. InConnClose(u)  BY <2>0, <3>2 DEF OrderInv, CallerInv, InConnClose, InConnAppClose
    <3> QED BY <2>0, <3>2, <3>3 DEF OrderInv, ClosingInv
  <2>2. ASSUME NEW p \in pendingQueries, pendingRefLock[p] = u PROVE FALSE
    <3>1. p \in Threads  BY DEF IInv, TypeOK, ConnTypeOK
    <3>2. pc[u] \in {"dqExec", "dqRun"}  BY <2>0, <2>2, <3>1 DEF OrderInv, HeldInv, PendingHeldInv
    <3> QED BY <1>2, <1>3, <2>0, <3>2
          DEF WaitsForConn, WaitsForStmt, WaitsForResult, WaitsForPending, WaitsForEngine
  <2> QED BY <1>1, <2>1, <2>2
        DEF WaitsForConn, WaitsForStmt, WaitsForResult, WaitsForPending, WaitsForEngine
<1>5. \A t \in D : pc[t] \in WaitsForConn \cup WaitsForStmt  BY <1>2, <1>3, <1>4
<1>6. ASSUME NEW t \in D, pc[t] = "scLock" PROVE ~InStmtClose(t, {"ccStmts"})
  <2> SUFFICES ASSUME InStmtClose(t, {"ccStmts"}) PROVE FALSE
    OBVIOUS
  <2> DEFINE u == WaitsFor(t)
  <2>0. u \in D /\ u # t /\ u \in Threads  BY <1>1
  <2>1. stmtRefLock[curStmt[t]] = u
    BY <1>1, <1>6 DEF WaitsForConn, WaitsForStmt, WaitsForResult, WaitsForPending, WaitsForEngine
  <2>2. curStmt[u] = curStmt[t] /\ pc[u] \in StmtLocked
    BY <1>0, <2>0, <2>1 DEF OrderInv, HeldInv, StmtHeldInv
  <2>3. pc[u] \in {"exBegin", "dqConn", "pConn", "rcUntrack"}
    BY <1>5, <2>0, <2>2 DEF StmtLocked, WaitsForConn, WaitsForStmt
  <2>4. Fresh(u)  BY <2>0, <2>3 DEF Fresh, OrderInv, CallerInv
  <2> QED BY <2>0, <2>2, <2>4 DEF OrderInv, FreshInv, ClosingInv
<1>7. ASSUME NEW t \in D PROVE pc[t] \notin WaitsForConn
  <2> SUFFICES ASSUME pc[t] \in WaitsForConn PROVE FALSE
    OBVIOUS
  <2> DEFINE u == WaitsFor(t)
  <2>0. u \in D /\ u # t /\ u \in Threads  BY <1>1
  <2>1. connRefLock = u
    BY <1>1 DEF WaitsForConn, WaitsForStmt, WaitsForResult, WaitsForPending, WaitsForEngine
  <2>2. pc[u] \in WaitsForConn \cup WaitsForStmt  BY <1>5, <2>0
  <2>3. InConnClose(u)
    BY <2>0, <2>1, <2>2 DEF OrderInv, HeldInv, ConnHeldInv, CallerInv, WaitsForConn, WaitsForStmt
  <2>4. pc[u] \notin {"scUntrack", "acUntrack"}  BY <2>0, <2>3 DEF OrderInv, ClosingInv
  <2>5. InStmtClose(u, {"ccStmts"}) /\ pc[u] \in {"scLock", "rcUntrack"}
    BY <2>2, <2>3, <2>4
    DEF InConnClose, InConnAppClose, InStmtClose, StmtCloseLabels, ResultCloseLabels, WaitsForConn, WaitsForStmt
  <2>6. pc[u] # "rcUntrack"
    BY <2>0, <2>5 DEF OrderInv, CallerInv, InStmtClose, StmtCloseLabels
  <2> QED BY <1>6, <2>0, <2>5, <2>6
<1>8. ASSUME NEW t \in D PROVE FALSE
  <2> DEFINE u == WaitsFor(t)
  <2>0. u \in D /\ u # t /\ u \in Threads  BY <1>1
  <2>1. pc[t] \in WaitsForStmt /\ stmtRefLock[curStmt[t]] = u
    BY <1>1, <1>5, <1>7 DEF WaitsForConn, WaitsForStmt, WaitsForResult, WaitsForPending, WaitsForEngine
  <2>2. pc[u] \in StmtLocked  BY <1>0, <2>0, <2>1 DEF OrderInv, HeldInv, StmtHeldInv
  <2>3. pc[u] \in WaitsForStmt  BY <1>5, <1>7, <2>0
  <2> QED BY <2>2, <2>3 DEF StmtLocked, WaitsForStmt
<1>9. D # {}  OBVIOUS
<1> QED BY <1>8, <1>9

\* The order is kept by applications that close statements and appenders only
\* themselves or with the connection,
OrderedCalls == \A t \in Threads : MayCall[t] \cap {"closeOnCompletion", "closeAppender"} = {}

\* and that prepare a statement, and execute a plain one or one without auto-commit,
\* as long as the connection does not track it, one thread at a time.
FirstUse(t, s) ==
  StartPrepare(t, s) \/ (StartExecute(t, s) /\ (s \notin Prepared \/ ~AutoCommit))
    => s \notin preparedStatements /\ \A u \in Threads : Fresh(u) => curStmt[u] # s
OrderedUse == \A t \in Threads, s \in Stmts : FirstUse(t, s)

\* Every step of a thread keeps the callers,
LEMMA CallerStep ==
  ASSUME IInv, CallerInv, OrderedCalls, NEW t \in Threads, ThreadStep(t)
  PROVE  CallerInv'
<1> USE ConstantsAssumption DEF IInv, TypeOK, ThreadTypeOK, CallerInv, ConnTypeOK,
      StmtTypeOK, InStmtClose, StmtCloseLabels, ResultCloseLabels, Goto, driverVars,
      objectVars, localVars, connVars, trackVars, engineVars, stmtVars, resultVars,
      pendingVars, appenderVars, curVars, retVars, auxVars
<1>1. CASE StartStmt(t)
  BY <1>1 DEF StartStmt, StartExecute, StartPrepare, StartCloseStmt, GetResultSet,
      SetCloseOnCompletion, StartCancel, Starts, OrderedCalls
<1>2. CASE StartOther(t)
  BY <1>2 DEF StartOther, StartNext, StartCloseResult, StartCloseConn, StartConnCall,
      StartNewAppender, StartFlush, StartCloseAppender, Starts, StartConn,
      StartAppender, OrderedCalls
<1>3. CASE ExecuteStep(t)
  <2>1. CASE ExecuteBarrier(t)
    BY <2>1 DEF ExecuteBarrier, CanLock
  <2>2. CASE ExecuteLock(t)
    BY <2>2 DEF ExecuteLock, StmtIsOpen
  <2>3. CASE ExecuteTx(t)
    BY <2>3 DEF ExecuteTx, Dispatch, StmtIsOpen
  <2>4. CASE ExecuteBegin(t)
    BY <2>4 DEF ExecuteBegin, Dispatch, CanLock
  <2>5. CASE ExecuteNative(t)
    BY <2>5 DEF ExecuteNative
  <2>6. CASE ExecuteUnlock(t)
    BY <2>6 DEF ExecuteUnlock
  <2>7. CASE ExecuteReset(t)
    BY <2>7 DEF ExecuteReset
  <2>8. CASE ExecuteFailRead(t)
    BY <2>8 DEF ExecuteFailRead
  <2>9. CASE ExecutePost(t)
    BY <2>9 DEF ExecutePost, HasOpenResult
  <2>10. CASE ExecutePostClose(t)
    BY <2>10 DEF ExecutePostClose, HasOpenResult
  <2> QED
    BY <1>3, <2>1, <2>2, <2>3, <2>4, <2>5, <2>6, <2>7, <2>8, <2>9, <2>10 DEF ExecuteStep
<1>4. CASE DirectStep(t)
  BY <1>4 DEF DirectStep, DirectLockConn, DirectPendingQuery, DirectLockPending, DirectExecute,
      PendingClose, PendingReadClosing, PendingUntrack
<1>5. CASE PrepareStep(t)
  BY <1>5 DEF PrepareStep, PrepareLock, PrepareConn, PrepareCall, PrepareUnlock
<1>6. CASE StmtCloseStep(t)
  BY <1>6 DEF StmtCloseStep, StmtCloseEnter, StmtCloseLock, StmtCloseRelease, StmtCloseReadClosing,
      StmtCloseUntrack, Untrack
<1>7. CASE ResultCloseStep(t)
  BY <1>7 DEF ResultCloseStep, ResultCloseRead, ResultCloseFree, ResultCloseStmt, NullPointer,
      ResultCloseNested, ResultCloseReadClosing,
      ResultCloseUntrack, Untrack
<1>8. CASE FetchStep(t)
  BY <1>8 DEF FetchStep, FetchLockConn, FetchLockResult, FetchReturns, FetchThrows, FetchError,
      FetchUnlock, ResultSetClose, CloseResult, ForgetResult
<1>9. CASE ConnCloseStep(t)
  BY <1>9 DEF ConnCloseStep, ConnCloseLock, ConnClosePending, ConnClosePendingDone, ConnCloseStmt,
      ConnCloseStmtsDone, ConnCloseAppender, ConnCloseAppendersDone, ConnDisconnect
<1>10. CASE ConnCallStep(t)
  BY <1>10 DEF ConnCallStep, ConnCallLock, ConnCallReturns, CancelInterrupt
<1>11. CASE AppenderStep(t)
  BY <1>11 DEF AppenderStep, AppenderCreate, AppenderTrack, AppenderLock, AppenderReturns,
      AppenderCloseLock, AppenderDestroy, AppenderReadClosing, AppenderUntrack,
      AppenderUnlock
<1>12. CASE QueryEnds(t)
  BY <1>12 DEF QueryEnds, ExecuteReturns, ExecuteThrows, DirectReturns, DirectThrows
<1> QED
  BY <1>1, <1>2, <1>3, <1>4, <1>5, <1>6, <1>7, <1>8, <1>9, <1>10, <1>11, <1>12 DEF ThreadStep, DriverStep

\* what conn.close() knows of its statements,
LEMMA ClosingStep ==
  ASSUME IInv, CallerInv, ClosingInv, NEW t \in Threads, ThreadStep(t)
  PROVE  ClosingInv'
<1> USE ConstantsAssumption DEF IInv, TypeOK, ThreadTypeOK, CallerInv, ClosingInv,
      ConnTypeOK, ConnLockInv, InConnClose, InStmtClose, InConnAppClose, StmtCloseLabels,
      ResultCloseLabels, Goto, driverVars, objectVars, localVars, connVars, trackVars,
      engineVars, stmtVars, resultVars, pendingVars, appenderVars, curVars, retVars, auxVars
<1>1. CASE StartStmt(t)
  BY <1>1 DEF StartStmt, StartExecute, StartPrepare, StartCloseStmt, GetResultSet,
      SetCloseOnCompletion, StartCancel, Starts, CanLock
<1>2. CASE StartOther(t)
  BY <1>2 DEF StartOther, StartNext, StartCloseResult, StartCloseConn, StartConnCall,
      StartNewAppender, StartFlush, StartCloseAppender, Starts, StartConn,
      StartAppender, CanLock
<1>3. CASE ExecuteStep(t)
  <2>1. CASE ExecuteBarrier(t)
    BY <2>1 DEF ExecuteBarrier, CanLock
  <2>2. CASE ExecuteLock(t)
    BY <2>2 DEF ExecuteLock, StmtIsOpen
  <2>3. CASE ExecuteTx(t)
    BY <2>3 DEF ExecuteTx, Dispatch, StmtIsOpen
  <2>4. CASE ExecuteBegin(t)
    BY <2>4 DEF ExecuteBegin, Dispatch, CanLock
  <2>5. CASE ExecuteNative(t)
    BY <2>5 DEF ExecuteNative
  <2>6. CASE ExecuteUnlock(t)
    BY <2>6 DEF ExecuteUnlock
  <2>7. CASE ExecuteReset(t)
    BY <2>7 DEF ExecuteReset
  <2>8. CASE ExecuteFailRead(t)
    BY <2>8 DEF ExecuteFailRead
  <2>9. CASE ExecutePost(t)
    BY <2>9 DEF ExecutePost, HasOpenResult
  <2>10. CASE ExecutePostClose(t)
    BY <2>10 DEF ExecutePostClose, HasOpenResult
  <2> QED
    BY <1>3, <2>1, <2>2, <2>3, <2>4, <2>5, <2>6, <2>7, <2>8, <2>9, <2>10 DEF ExecuteStep
<1>4. CASE DirectStep(t)
  BY <1>4 DEF DirectStep, DirectLockConn, DirectPendingQuery, DirectLockPending, DirectExecute,
      PendingClose, PendingReadClosing, PendingUntrack, Tracked, CanLock
<1>5. CASE PrepareStep(t)
  BY <1>5 DEF PrepareStep, PrepareLock, PrepareConn, PrepareCall, PrepareUnlock, Tracked, CanLock
<1>6. CASE StmtCloseStep(t)
  BY <1>6 DEF StmtCloseStep, StmtCloseEnter, StmtCloseLock, StmtCloseRelease, StmtCloseReadClosing,
      StmtCloseUntrack, Untrack, CanLock
<1>7. CASE ResultCloseStep(t)
  BY <1>7 DEF ResultCloseStep, ResultCloseRead, ResultCloseFree, ResultCloseStmt, NullPointer,
      ResultCloseNested, ResultCloseReadClosing,
      ResultCloseUntrack, Untrack, CanLock
<1>8. CASE FetchStep(t)
  BY <1>8 DEF FetchStep, FetchLockConn, FetchLockResult, FetchReturns, FetchThrows, FetchError,
      FetchUnlock, ResultSetClose, CloseResult, ForgetResult, CanLock
<1>9. CASE ConnCloseStep(t)
  BY <1>9 DEF ConnCloseStep, ConnCloseLock, ConnClosePending, ConnClosePendingDone, ConnCloseStmt,
      ConnCloseStmtsDone, ConnCloseAppender, ConnCloseAppendersDone, ConnDisconnect,
      CanLock
<1>10. CASE ConnCallStep(t)
  BY <1>10 DEF ConnCallStep, ConnCallLock, ConnCallReturns, CancelInterrupt, CanLock
<1>11. CASE AppenderStep(t)
  BY <1>11 DEF AppenderStep, AppenderCreate, AppenderTrack, AppenderLock, AppenderReturns,
      AppenderCloseLock, AppenderDestroy, AppenderReadClosing, AppenderUntrack,
      AppenderUnlock, CanLock
<1>12. CASE QueryEnds(t)
  BY <1>12 DEF QueryEnds, ExecuteReturns, ExecuteThrows, DirectReturns, DirectThrows, CanLock
<1> QED
  BY <1>1, <1>2, <1>3, <1>4, <1>5, <1>6, <1>7, <1>8, <1>9, <1>10, <1>11, <1>12 DEF ThreadStep, DriverStep

\* and which statements are in first use.
LEMMA FreshStep ==
  ASSUME IInv, CallerInv, FreshInv, OrderedUse, NEW t \in Threads, ThreadStep(t)
  PROVE  FreshInv'
<1> USE ConstantsAssumption DEF IInv, TypeOK, ThreadTypeOK, CallerInv, FreshInv, Fresh,
      ConnTypeOK, StmtTypeOK, Goto, driverVars, objectVars, localVars, connVars, trackVars,
      engineVars, stmtVars, resultVars, pendingVars, appenderVars, curVars, retVars, auxVars
<1>1. CASE StartStmt(t)
  <2> SUFFICES ASSUME NEW s \in Stmts,
                      \/ StartExecute(t, s) \/ StartPrepare(t, s) \/ StartCloseStmt(t, s)
                      \/ GetResultSet(t, s) \/ SetCloseOnCompletion(t, s) \/ StartCancel(t, s)
               PROVE  FreshInv'
    BY <1>1 DEF StartStmt
  <2>1. /\ preparedStatements' = preparedStatements /\ retResultClose'[t] = retResultClose[t]
        /\ \A u \in Threads \ {t} : pc'[u] = pc[u] /\ curStmt'[u] = curStmt[u] /\ retResultClose'[u] = retResultClose[u]
    BY DEF StartExecute, StartPrepare, StartCloseStmt, GetResultSet, SetCloseOnCompletion, StartCancel, Starts
  <2>2. CASE Fresh(t)'
    <3>1. /\ curStmt'[t] = s
          /\ StartPrepare(t, s) \/ (StartExecute(t, s) /\ (s \notin Prepared \/ ~AutoCommit))
      BY <2>2 DEF StartExecute, StartPrepare, StartCloseStmt, GetResultSet, SetCloseOnCompletion, StartCancel, Starts
    <3>2. s \notin preparedStatements /\ \A u \in Threads : Fresh(u) => curStmt[u] # s
      BY <3>1 DEF OrderedUse, FirstUse
    <3> QED BY <2>1, <3>1, <3>2
  <2>3. CASE ~Fresh(t)'
    BY <2>1, <2>3
  <2> QED BY <2>2, <2>3
<1>2. CASE StartOther(t)
  BY <1>2 DEF StartOther, StartNext, StartCloseResult, StartCloseConn, StartConnCall,
      StartNewAppender, StartFlush, StartCloseAppender, Starts, StartConn,
      StartAppender, CanLock
<1>3. CASE ExecuteStep(t)
  BY <1>3 DEF ExecuteStep, ExecuteBarrier, ExecuteLock, ExecuteTx, ExecuteBegin, ExecuteNative,
      ExecuteUnlock, ExecuteReset, ExecuteFailRead, ExecutePost, ExecutePostClose, Dispatch, CanLock
<1>4. CASE DirectStep(t)
  BY <1>4 DEF DirectStep, DirectLockConn, DirectPendingQuery, DirectLockPending, DirectExecute,
      PendingClose, PendingReadClosing, PendingUntrack, Tracked, CanLock
<1>5. CASE PrepareStep(t)
  BY <1>5 DEF PrepareStep, PrepareLock, PrepareConn, PrepareCall, PrepareUnlock, Tracked, CanLock
<1>6. CASE StmtCloseStep(t)
  BY <1>6 DEF StmtCloseStep, StmtCloseEnter, StmtCloseLock, StmtCloseRelease, StmtCloseReadClosing,
      StmtCloseUntrack, Untrack, CanLock
<1>7. CASE ResultCloseStep(t)
  BY <1>7 DEF ResultCloseStep, ResultCloseRead, ResultCloseFree, ResultCloseStmt, NullPointer,
      ResultCloseNested, ResultCloseReadClosing,
      ResultCloseUntrack, Untrack, CanLock
<1>8. CASE FetchStep(t)
  BY <1>8 DEF FetchStep, FetchLockConn, FetchLockResult, FetchReturns, FetchThrows, FetchError,
      FetchUnlock, ResultSetClose, CloseResult, ForgetResult, CanLock
<1>9. CASE ConnCloseStep(t)
  BY <1>9 DEF ConnCloseStep, ConnCloseLock, ConnClosePending, ConnClosePendingDone, ConnCloseStmt,
      ConnCloseStmtsDone, ConnCloseAppender, ConnCloseAppendersDone, ConnDisconnect,
      CanLock
<1>10. CASE ConnCallStep(t)
  BY <1>10 DEF ConnCallStep, ConnCallLock, ConnCallReturns, CancelInterrupt, CanLock
<1>11. CASE AppenderStep(t)
  BY <1>11 DEF AppenderStep, AppenderCreate, AppenderTrack, AppenderLock, AppenderReturns,
      AppenderCloseLock, AppenderDestroy, AppenderReadClosing, AppenderUntrack,
      AppenderUnlock, CanLock
<1>12. CASE QueryEnds(t)
  BY <1>12 DEF QueryEnds, ExecuteReturns, ExecuteThrows, DirectReturns, DirectThrows, CanLock
<1> QED
  BY <1>1, <1>2, <1>3, <1>4, <1>5, <1>6, <1>7, <1>8, <1>9, <1>10, <1>11, <1>12 DEF ThreadStep, DriverStep

\* Initially no lock is held and no call is in progress.
LEMMA OrderInit == Init => OrderInv
<1> SUFFICES ASSUME Init PROVE OrderInv
  OBVIOUS
<1>1. \A t \in Threads : pc[t] = "idle"
  BY DEF Init
<1>2. HeldInv
  BY ConstantsAssumption DEF Init, HeldInv, StmtHeldInv, ResultHeldInv, PendingHeldInv,
      AppenderHeldInv, ContextHeldInv, ConnHeldInv
<1>3. FreshInv
  BY <1>1 DEF FreshInv, Fresh
<1>4. CallerInv /\ ClosingInv
  BY <1>1 DEF Init, CallerInv, ClosingInv, InConnClose, InStmtClose, InConnAppClose,
      StmtCloseLabels, ResultCloseLabels
<1> QED BY <1>2, <1>3, <1>4 DEF OrderInv

\* The order of the locks is inductive relative to the lock invariant, for
\* applications that keep to it.
LEMMA OrderNext ==
  ASSUME OrderedCalls, IInv, OrderInv, [Next]_vars, [OrderedUse]_vars
  PROVE  OrderInv'
<1>1. CASE UNCHANGED vars
  <2> USE <1>1 DEF OrderInv, vars, driverVars, objectVars, localVars, connVars, trackVars, engineVars,
      stmtVars, resultVars, pendingVars, appenderVars, curVars, retVars, auxVars
  <2>1. HeldInv'
    BY DEF HeldInv, StmtHeldInv, ResultHeldInv, PendingHeldInv, AppenderHeldInv, ContextHeldInv,
        ConnHeldInv, InConnClose, InStmtClose, InConnAppClose
  <2>2. FreshInv'
    BY DEF FreshInv, Fresh
  <2>3. CallerInv' /\ ClosingInv'
    BY DEF CallerInv, ClosingInv, InConnClose, InStmtClose, InConnAppClose
  <2> QED BY <2>1, <2>2, <2>3
<1>2. ASSUME NEW t \in Threads, ThreadStep(t), OrderedUse PROVE OrderInv'
  <2>1. HeldInv'
    BY <1>2, StmtHeldStep, ResultHeldStep, PendingHeldStep, AppenderHeldStep, ContextHeldStep,
       ConnHeldStep
    DEF OrderInv, HeldInv
  <2> QED BY <1>2, <2>1, CallerStep, ClosingStep, FreshStep DEF OrderInv
<1> QED BY <1>1, <1>2 DEF Next, Quiescent

\* No threads wait for each other in a circle, whatever of execute(), prepare(),
\* next(), cancel(), flush() and close() of statements, result sets and the connection
\* they call at once.  The code takes locks against the order at three places, which
\* OrderedCalls and OrderedUse leave out: execute() and prepare() ask for the connection
\* with the lock of the statement held, for which conn.close() may be waiting
\* (MCLifecycle_deadlock_reexecute.cfg), and so does a result set that closes its
\* statement; Appender.close() asks for it with the lock of the appender held
\* (MCLifecycle_deadlock_appender.cfg).
THEOREM LocksAreOrdered ==
  ASSUME OrderedCalls PROVE Spec /\ [][OrderedUse]_vars => []NoDeadlock
<1>1. Init => OrderInv
  BY OrderInit
<1>2. IInv /\ OrderInv /\ [Next]_vars /\ [OrderedUse]_vars => OrderInv'
  BY OrderNext
<1>3. IInv /\ OrderInv => NoDeadlock
  BY LockOrder
<1> QED BY <1>1, <1>2, <1>3, LockInvariance, PTL DEF Spec
=============================================================================
