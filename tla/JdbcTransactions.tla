-------------------------- MODULE JdbcTransactions --------------------------
(***************************************************************************)
(* What a JDBC connection promises about transactions, without how the     *)
(* driver keeps track of them.  A write that execute() reported as done is *)
(* durable at once (auto-commit) or part of the current transaction; a     *)
(* transaction is committed or discarded as a whole; and with auto-commit  *)
(* off nothing becomes durable by itself.                                  *)
(***************************************************************************)
CONSTANT Writes   \* identities for the writes

VARIABLES
  autoCommit,     \* the mode of the connection
  uncommitted,    \* the writes of the current transaction
  committed       \* the durable writes

vars == << autoCommit, uncommitted, committed >>

Init ==
  /\ autoCommit \in BOOLEAN
  /\ uncommitted = {} /\ committed = {}

\* A write that is durable as soon as it is done.
WriteThrough(w) ==
  /\ autoCommit /\ uncommitted = {}
  /\ w \notin committed
  /\ committed' = committed \cup {w}
  /\ UNCHANGED << autoCommit, uncommitted >>

\* A write of the current transaction: of the application's, or of a batch.
WriteInTransaction(w) ==
  /\ w \notin committed \cup uncommitted
  /\ uncommitted' = uncommitted \cup {w}
  /\ UNCHANGED << autoCommit, committed >>

Commit ==
  /\ committed' = committed \cup uncommitted
  /\ uncommitted' = {}
  /\ UNCHANGED autoCommit

Discard ==
  /\ uncommitted' = {}
  /\ UNCHANGED << autoCommit, committed >>

SetAutoCommit(b) ==
  /\ autoCommit' = b
  /\ UNCHANGED << uncommitted, committed >>

Next ==
  \/ \E w \in Writes : WriteThrough(w) \/ WriteInTransaction(w)
  \/ Commit
  \/ Discard
  \/ \E b \in BOOLEAN : SetAutoCommit(b)

Spec == Init /\ [][Next]_vars
=============================================================================
