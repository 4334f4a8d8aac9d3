----------------------------- MODULE MCLifecycle -----------------------------
(***************************************************************************)
(* ConnectionLifecycle for TLC: which threads make which API calls.        *)
(***************************************************************************)
EXTENDS ConnectionLifecycle, TLC

CONSTANTS t1, t2, t3, s1, s2, r1, r2, r3, a1

MCThreads2 == {t1, t2}
MCThreads3 == {t1, t2, t3}
MCStmts1 == {s1}
MCStmts2 == {s1, s2}
MCNone == {}
MCPrepared1 == {s1}
MCPrepared2 == {s1, s2}
MCResults1 == {r1}
MCResults2 == {r1, r2}
MCResults3 == {r1, r2, r3}
MCAppenders == {a1}
MCResultStmt1 == [r \in Results |-> s1]
MCResultStmt2 == (r1 :> s1) @@ (r2 :> s2)

\* A plain statement is executed once, by one thread, while the others close.
MCSingleUse ==
  (t1 :> {"execute"}) @@
  (t2 :> {"closeConn", "closeResult"}) @@
  (t3 :> {"closeStmt", "cancel", "next", "closeResult", "closeConn", "connCall"})

\* Two threads execute a plain statement, one of them takes the results; all close.
MCReuse ==
  (t1 :> {"execute", "getResultSet"}) @@
  (t2 :> {"execute", "closeStmt"}) @@
  (t3 :> {"closeConn", "closeOnCompletion"})

\* A prepared statement is prepared again, executed by two threads and closed.
MCPreparedUse ==
  (t1 :> {"prepare", "execute"}) @@
  (t2 :> {"closeConn", "closeStmt", "closeOnCompletion"}) @@
  (t3 :> {"getResultSet", "execute", "next"})

\* Appenders are created, flushed and closed while the connection closes.
MCAppenderUse ==
  (t1 :> {"newAppender", "flush", "closeAppender"}) @@
  (t2 :> {"closeConn"}) @@
  (t3 :> {"flush", "closeAppender"})

\* One thread executes, the other closes the connection.
MCExecuteAndClose == (t1 :> {"execute"}) @@ (t2 :> {"closeConn"})

\* Two prepared statements run at once; a third thread cancels.
MCCancelOther ==
  (t1 :> {"execute"}) @@ (t2 :> {"execute"}) @@ (t3 :> {"cancel"})

\* An appender is opened and closed next to conn.close().
MCAppenderAndClose == (t1 :> {"newAppender", "closeAppender"}) @@ (t2 :> {"closeConn"})

\* A query is executed and an appender opened next to conn.close().
MCLeaks == (t1 :> {"execute", "newAppender"}) @@ (t2 :> {"closeConn"})

=============================================================================
