SPECIFICATION Spec
CONSTANTS
  t1 = t1  t2 = t2  t3 = t3  s1 = s1  s2 = s2
  r1 = r1  r2 = r2  r3 = r3  a1 = a1
  NoThread = NoThread
  NoResult = NoResult
  Appenders <- MCAppenders
  Threads <- MCThreads3
  Stmts <- MCStmts1
  Prepared <- MCNone
  AlreadyPrepared <- MCNone
  Results <- MCResults2
  ResultStmt <- MCResultStmt1
  MayCall <- MCReuse
  AutoCommit = FALSE
  MaxOps = 2
INVARIANTS
  NoUseAfterFree
  HoldersAreTracked
  NothingOutlivesConnection
  ClosedStatementsUntracked
CHECK_DEADLOCK FALSE
