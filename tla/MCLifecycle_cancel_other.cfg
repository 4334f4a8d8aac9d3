SPECIFICATION Spec
CONSTANTS
  t1 = t1  t2 = t2  t3 = t3  s1 = s1  s2 = s2
  r1 = r1  r2 = r2  r3 = r3  a1 = a1
  NoThread = NoThread
  NoResult = NoResult
  Appenders <- MCAppenders
  Threads <- MCThreads3
  Stmts <- MCStmts2
  Prepared <- MCPrepared2
  AlreadyPrepared <- MCPrepared2
  Results <- MCResults2
  ResultStmt <- MCResultStmt2
  MayCall <- MCCancelOther
  AutoCommit = TRUE
  MaxOps = 1
PROPERTIES
  CancelsOnlySelf
CHECK_DEADLOCK FALSE
