--------------------------- MODULE SnapshotIsolation ---------------------------
(***************************************************************************)
(* What transactions on one table promise to each other, with no row       *)
(* version, timestamp or clean-up in sight: a transaction reads the table  *)
(* as it was when it started, with its own changes; of two that update, or *)
(* delete, the same row while both run one fails; all changes appear at    *)
(* once or never.  A transaction writes its own name as the new value.     *)
(***************************************************************************)
EXTENDS Naturals, FiniteSets

CONSTANTS Txns, Rows,
          Base,      \* the value rows had before any transaction
          Absent     \* no such row

VARIABLES db,        \* the committed table
          phase,     \* of each transaction
          view,      \* the table as a running transaction sees it
          deleted, updated,  \* rows a transaction has changed
          inserted   \* how many rows it adds

vars == <<db, phase, view, deleted, updated, inserted>>

Nothing == [r \in Rows |-> Absent]

Init ==
  /\ db \in [Rows -> {Base, Absent}]
  /\ phase = [t \in Txns |-> "new"] /\ view = [t \in Txns |-> Nothing]
  /\ deleted = [t \in Txns |-> {}] /\ updated = [t \in Txns |-> {}]
  /\ inserted = [t \in Txns |-> 0]

Start(t) ==
  /\ phase[t] = "new"
  /\ phase' = [phase EXCEPT ![t] = "running"]
  /\ view' = [view EXCEPT ![t] = db]
  /\ UNCHANGED <<db, deleted, updated, inserted>>

Insert(t) ==
  /\ phase[t] = "running"
  /\ inserted' = [inserted EXCEPT ![t] = @ + 1]
  /\ UNCHANGED <<db, phase, view, deleted, updated>>

\* Rows that nobody else has deleted, or is deleting, since t started.
Delete(t, S) ==
  /\ phase[t] = "running" /\ S # {}
  /\ deleted' = [deleted EXCEPT ![t] = @ \union S]
  /\ \A r \in S : view[t][r] # Absent /\ db[r] # Absent
  /\ \A u \in Txns \ {t} : deleted[u] \cap S = {}
  /\ view' = [view EXCEPT ![t] = [r \in Rows |-> IF r \in S THEN Absent ELSE @[r]]]
  /\ UNCHANGED <<db, phase, updated, inserted>>

\* Rows that nobody else has updated, or is updating, since t started.
Update(t, S) ==
  /\ phase[t] = "running" /\ S # {}
  /\ updated' = [updated EXCEPT ![t] = @ \union S]
  /\ \A r \in S : view[t][r] # Absent
                  /\ r \notin updated[t] => db[r] \in {view[t][r], Absent}
  /\ \A u \in Txns \ {t} : updated[u] \cap S = {}
  /\ view' = [view EXCEPT ![t] = [r \in Rows |-> IF r \in S THEN t ELSE @[r]]]
  /\ UNCHANGED <<db, phase, deleted, inserted>>

\* COMMIT was called, or the transaction has failed and its new rows are gone.
End(t) ==
  /\ phase[t] = "running"
  /\ \/ phase' = [phase EXCEPT ![t] = "ending"] /\ UNCHANGED inserted
     \/ phase' = [phase EXCEPT ![t] = "aborting"] /\ inserted' = [inserted EXCEPT ![t] = 0]
  /\ view' = [view EXCEPT ![t] = Nothing]
  /\ UNCHANGED <<db, deleted, updated>>

\* All that the transaction did, at once; new rows get free places.
Commit(t) ==
  /\ phase[t] = "ending"
  /\ phase' = [phase EXCEPT ![t] = "done"]
  /\ \E A \in SUBSET {r \in Rows : db[r] = Absent} :
       /\ Cardinality(A) = inserted[t]
       /\ db' = [r \in Rows |->
                   CASE r \in A                             -> t
                     [] r \in deleted[t] /\ r \notin A      -> Absent
                     [] r \notin deleted[t] \union A
                          /\ r \in updated[t] /\ db[r] # Absent -> t
                     [] OTHER                               -> db[r]]
  /\ deleted' = [deleted EXCEPT ![t] = {}] /\ updated' = [updated EXCEPT ![t] = {}]
  /\ inserted' = [inserted EXCEPT ![t] = 0]
  /\ UNCHANGED view

Abort(t) ==
  /\ phase[t] = "ending"
  /\ phase' = [phase EXCEPT ![t] = "aborting"]
  /\ inserted' = [inserted EXCEPT ![t] = 0]
  /\ UNCHANGED <<db, view, deleted, updated>>

\* A transaction that aborts gives up its rows, in any order.
GiveUp(t) ==
  /\ phase[t] = "aborting"
  /\ \E p \in {"aborting", "done"} : phase' = [phase EXCEPT ![t] = p]
  /\ \E D \in SUBSET deleted[t] : deleted' = [deleted EXCEPT ![t] = D]
  /\ \E U \in SUBSET updated[t] : updated' = [updated EXCEPT ![t] = U]
  /\ phase'[t] = "done" => deleted'[t] = {} /\ updated'[t] = {}
  /\ UNCHANGED <<db, view, inserted>>

Next ==
  \E t \in Txns :
    \/ Start(t) \/ Insert(t) \/ End(t) \/ Commit(t) \/ Abort(t) \/ GiveUp(t)
    \/ \E S \in SUBSET Rows : Delete(t, S) \/ Update(t, S)

Spec == Init /\ [][Next]_vars
=============================================================================
