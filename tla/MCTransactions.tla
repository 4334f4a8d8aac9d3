--------------------------- MODULE MCTransactions ---------------------------
(***************************************************************************)
(* Transactions for TLC: which threads make which calls.                   *)
(***************************************************************************)
EXTENDS Transactions, TLC

CONSTANTS t1, t2

MCThreads1 == {t1}
MCThreads2 == {t1, t2}
MCNoFaults == {}
MCCommitFault == {"commit"}
MCAllFaults == {"begin", "commit"}

\* One thread uses the JDBC interface and leaves transactions to it.
MCJdbcUse ==
  (t1 :> {"write", "prepare", "commit", "rollback", "setAutoCommit", "batch"})

\* One thread also runs transaction statements as SQL.
MCSqlUse == (t1 :> Calls)

\* One thread writes and commits.
MCCommits == (t1 :> {"write", "commit", "rollback"})

\* One thread runs batches.
MCBatches == (t1 :> {"batch"})

\* Writes and commits next to each other on one connection.
MCWritesAndCommits == (t1 :> {"write", "commit"}) @@ (t2 :> {"write"})
=============================================================================
