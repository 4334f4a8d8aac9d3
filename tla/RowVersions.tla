------------------------------- MODULE RowVersions -------------------------------
(***************************************************************************)
(* How the engine keeps several versions of a table: the timestamps and    *)
(* the clean-up queue of DuckTransactionManager, the undo buffer of a      *)
(* transaction, the insert and delete ids of RowVersionManager and         *)
(* ChunkVectorInfo, and the chains of UpdateInfo of an UpdateSegment.      *)
(* One table with one column and no index, in a file; a transaction        *)
(* writes its own name.  Row ids start at 1, a vector is named after its   *)
(* first row, and no row group is ever full.                               *)
(***************************************************************************)
EXTENDS Naturals, Sequences, FiniteSets, SequencesExt

CONSTANTS Txns, None,
          Base, Absent,         \* the value of loaded rows, and no row
          VectorSize,           \* STANDARD_VECTOR_SIZE
          LoadedRows,           \* rows the table has at first
          MaxRows,              \* bound: rows and insertions
          TRANSACTION_ID_START, \* ids of transactions lie above all timestamps
          NOT_DELETED_ID,       \* and this one above all of them
          Setups                \* see SetupsAssumption

Rows == 1 .. MaxRows
NoCheckpoint == NOT_DELETED_ID + 1

\* fail: writing the WAL, or a constraint checked on commit, may fail
\* checkpoint: commits may checkpoint instead of writing to the WAL
\* duplicates: a DELETE ... USING names rows more than once, in several chunks
\* changes: a bound on the changes of each transaction there is
ASSUME SetupsAssumption ==
  \A s \in Setups : /\ {s.fail, s.checkpoint, s.duplicates} \subseteq BOOLEAN
                    /\ DOMAIN s.changes \subseteq Txns
                    /\ s.changes \in [DOMAIN s.changes -> Nat]
ASSUME RowsAssumption ==
  VectorSize \in Nat \ {0, 1} /\ MaxRows \in Nat /\ LoadedRows \in 0 .. MaxRows
ASSUME IdsAssumption ==
  /\ TRANSACTION_ID_START \in Nat /\ TRANSACTION_ID_START > 2
  /\ NOT_DELETED_ID \in Nat /\ NOT_DELETED_ID > TRANSACTION_ID_START
ASSUME NoneAssumption == None \notin Txns
\* Absent is no value of a row.
ASSUME AbsentAssumption == Absent \notin Txns \union {Base}
\* "Cannot start more transactions, ran out of transaction identifiers!": not here;
\* each takes an id, and a timestamp at either end.
ASSUME TxnsAssumption ==
  /\ IsFiniteSet(Txns)
  /\ TRANSACTION_ID_START >= 2 + 2 * Cardinality(Txns)
  /\ NOT_DELETED_ID > TRANSACTION_ID_START + Cardinality(Txns)

VARIABLES
  setup,
  \* DuckTransactionManager
  clock, nextId,      \* current_start_timestamp, current_transaction_id
  last_commit,
  active_checkpoint,  \* the commit the running checkpoint writes
  active, recently,   \* active_transactions, recently_committed_transactions
  cleanup_queue,      \* of DuckCleanupInfo
  work,               \* the DuckCleanupInfo a thread is cleaning up
  transaction_lock, wal_lock, cleanup_lock,
  checkpoint_lock, sharing,  \* its exclusive holder, its shared holders
  \* DuckTransaction, and the thread that runs it
  pc, start_time, transaction_id, commit_id,
  undo,               \* its undo buffer
  local,              \* rows in its local storage, also once they are appended
  done,               \* undo entries committed, left to roll back, or cleaned up
  error,              \* its commit has failed
  checkpoints,        \* it commits by a checkpoint
  \* the table
  count,              \* total_rows
  groups, seen,       \* the first rows of its row groups; the last checkpoint
                      \* an append has met, and how many there were
  inserted, deleted,  \* the ids ChunkVectorInfo has for each row
  anyDeleted,         \* vectors whose deleted ids are initialised
  chain,              \* of each vector: its UpdateInfos, newest first
  current,            \* the base UpdateInfo, or the column: the newest values
  image               \* for the properties: the table a checkpoint has to write

listVars == <<active, recently, cleanup_queue, work>>
checkpointVars == <<active_checkpoint, image>>
managerVars == <<clock, nextId, last_commit, listVars, checkpointVars>>
lockVars == <<transaction_lock, wal_lock, cleanup_lock, checkpoint_lock, sharing>>
txnVars == <<pc, start_time, transaction_id, commit_id, undo, local, done, error,
             checkpoints>>
versionVars == <<count, groups, seen, inserted, deleted, anyDeleted>>
updateVars == <<chain, current>>
vars == <<setup, managerVars, lockVars, txnVars, versionVars, updateVars>>

Goto(t, l) == pc' = [pc EXCEPT ![t] = l]
GotoRollback(t, n) == Goto(t, "rollback") /\ done' = [done EXCEPT ![t] = n]
\* One for each row there is in a local storage, or was.
Insertions == UNION {{t} \X (1 .. local[t]) : t \in Txns}

\* Row groups are cut into vectors from their own first row on.
Vec(r) == LET g == Max({1} \union {x \in groups : x <= r})
          IN  r - ((r - g) % VectorSize)

-----------------------------------------------------------------------------
(* What a transaction sees *)

\* UseInsertedVersion, IsDeleted
UseVersion(start, id, version) == version < start \/ version = id

\* ChunkVectorInfo::Fetch and TemplatedGetSelVector, for rows that exist.
Visible(start, id, r) ==
  /\ r <= count
  /\ UseVersion(start, id, inserted[r])
  /\ ~UseVersion(start, id, deleted[r])

\* UpdateInfo::AppliesToTransaction: the old values are the ones to read.
AppliesToTransaction(start, id, info) == info.version > start /\ info.version # id

\* UpdatesForTransaction: newest to oldest, the last that applies stays.
ValueOf(start, id, r) ==
  LET infos == chain[Vec(r)]
      older == {i \in DOMAIN infos : r \in DOMAIN infos[i].old
                                       /\ AppliesToTransaction(start, id, infos[i])}
  IN  IF older = {} THEN current[r] ELSE infos[Max(older)].old[r]

Seen(t) == {r \in Rows : Visible(start_time[t], transaction_id[t], r)}

-----------------------------------------------------------------------------
(* Statements *)

Running(t) == pc[t] = "running"
CanChange(t) == Running(t) /\ Len(undo[t]) + local[t] < setup.changes[t]
Record(t, rec) == undo' = [undo EXCEPT ![t] = Append(@, rec)]

\* StartTransaction
Start(t) ==
  /\ pc[t] = "new" /\ transaction_lock = None /\ clock < TRANSACTION_ID_START
  /\ start_time' = [start_time EXCEPT ![t] = clock]
  /\ transaction_id' = [transaction_id EXCEPT ![t] = nextId]
  /\ clock' = clock + 1 /\ nextId' = nextId + 1
  /\ active' = active \union {t}
  /\ Goto(t, "running")
  /\ UNCHANGED <<setup, last_commit, checkpointVars, recently, cleanup_queue, work, lockVars,
                 commit_id, undo, local, done, error, checkpoints, versionVars, updateVars>>

\* New rows stay in the local storage until the commit.
Insert(t) ==
  /\ CanChange(t) /\ LoadedRows + Cardinality(Insertions) < MaxRows
  /\ local' = [local EXCEPT ![t] = @ + 1]
  /\ UNCHANGED <<setup, managerVars, lockVars, pc, start_time, transaction_id, commit_id,
                 undo, done, error, checkpoints, versionVars, updateVars>>

\* Rows of one vector, as a DELETE hands them to DeleteRows.
Chunks(t) ==
  IF setup.duplicates
  THEN LET given == Seen(t) \union {r \in Rows : deleted[r] = transaction_id[t]}
       IN  UNION {{<<r, s>>, <<r>>} : r \in given, s \in given}
  ELSE {<<r>> : r \in Seen(t)} \union {<<r, s>> : r \in Seen(t), s \in Seen(t)}

\* ChunkVectorInfo::Delete: rows are marked one after the other; a row that
\* another transaction has marked is a conflict, and those so far are unmarked:
\* the marked ones have moved to the front of the array, over what was there.
DeleteRows(t, rows) ==
  LET id == transaction_id[t]
      conflicts == {i \in DOMAIN rows : deleted[rows[i]] \notin {NOT_DELETED_ID, id}}
      upto == IF conflicts = {} THEN Len(rows) ELSE Min(conflicts) - 1
      fresh == {r \in {rows[i] : i \in 1 .. upto} : deleted[r] = NOT_DELETED_ID}
      unset == fresh \union {rows[k] : k \in Cardinality(fresh) + 1 .. upto}
  IN  /\ anyDeleted' = anyDeleted \union {Vec(rows[1])}
      /\ IF conflicts = {}
         THEN /\ deleted' = [r \in Rows |-> IF r \in fresh THEN id ELSE deleted[r]]
              /\ IF fresh = {} THEN UNCHANGED undo
                 ELSE Record(t, [kind |-> "delete", at |-> Vec(rows[1]), rows |-> fresh])
              /\ UNCHANGED pc
         ELSE /\ deleted' = [r \in Rows |-> IF r \in unset THEN NOT_DELETED_ID
                                            ELSE deleted[r]]
              /\ Goto(t, "failed")
              /\ UNCHANGED undo

Delete(t) ==
  /\ CanChange(t)
  /\ \E rows \in Chunks(t) :
       /\ \A i \in DOMAIN rows : Vec(rows[i]) = Vec(rows[1])
       /\ DeleteRows(t, rows)
  /\ UNCHANGED <<setup, managerVars, lockVars, start_time, transaction_id, commit_id, local,
                 done, error, checkpoints, count, groups, seen, inserted, updateVars>>

\* CheckForConflicts: a version this transaction does not see has a row of it.
Conflicts(t, v, rows) ==
  \E i \in DOMAIN chain[v] :
    /\ chain[v][i].version # transaction_id[t]
    /\ chain[v][i].version > start_time[t]
    /\ DOMAIN chain[v][i].old \cap rows # {}

\* MergeUpdateLoop: the values of rows this transaction has not updated yet
\* go into its UpdateInfo, which is put at the front when it is new.
OldValues(known, rows) ==
  [r \in DOMAIN known \union rows |-> IF r \in DOMAIN known THEN known[r] ELSE current[r]]
Own(t, infos) == {i \in DOMAIN infos : infos[i].version = transaction_id[t]}
Merged(t, infos, rows) ==
  IF Own(t, infos) = {}
  THEN <<[owner |-> t, version |-> transaction_id[t], old |-> OldValues(<<>>, rows)]>> \o infos
  ELSE [i \in DOMAIN infos |-> IF i \in Own(t, infos)
                               THEN [infos[i] EXCEPT !.old = OldValues(@, rows)] ELSE infos[i]]

MergeUpdate(t, v, rows) ==
  /\ chain' = [chain EXCEPT ![v] = Merged(t, @, rows)]
  /\ IF Own(t, chain[v]) # {} THEN UNCHANGED undo
     ELSE Record(t, [kind |-> "update", at |-> v, rows |-> {}])
  /\ current' = [r \in Rows |-> IF r \in rows THEN t ELSE current[r]]

\* UpdateSegment::Update; a transaction that updates shares the checkpoint lock.
Update(t) ==
  /\ CanChange(t) /\ (checkpoint_lock = None \/ t \in sharing)
  /\ \E v \in {Vec(r) : r \in Seen(t)} : \E rows \in SUBSET {r \in Seen(t) : Vec(r) = v} :
       /\ rows # {}
       /\ IF Conflicts(t, v, rows)
          THEN Goto(t, "failed") /\ UNCHANGED <<updateVars, undo>>
          ELSE MergeUpdate(t, v, rows) /\ UNCHANGED pc
  /\ sharing' = sharing \union {t}
  /\ UNCHANGED <<setup, managerVars, transaction_lock, wal_lock, cleanup_lock,
                 checkpoint_lock, start_time, transaction_id, commit_id, local, done,
                 error, checkpoints, versionVars>>

-----------------------------------------------------------------------------
(* Commit *)

HasUpdates(t) == \E i \in DOMAIN undo[t] : undo[t][i].kind = "update"
ChangesMade(t) == undo[t] # <<>> \/ local[t] > 0
Appended(t) == [kind |-> "append", at |-> count + 1,
                rows |-> count + 1 .. count + local[t]]

\* Faulty variant of RequiresNewRowGroup: appends go on in the last row group.
NeverRequiresNewRowGroup == FALSE
\* AppendRequiresNewRowGroup: what is appended while a checkpoint runs must not
\* go into the row groups that it writes.
RequiresNewRowGroup ==
  /\ active_checkpoint # NoCheckpoint
  /\ seen.checkpoint = active_checkpoint => Cardinality(groups) <= seen.groups
SeeCheckpoint ==
  seen' = IF active_checkpoint \in {NoCheckpoint, seen.checkpoint} THEN seen
          ELSE [checkpoint |-> active_checkpoint, groups |-> Cardinality(groups)]

\* LocalStorage::Flush: the append is recorded, then the rows are appended with
\* the id of the transaction.
AppendLocal(t) ==
  IF local[t] = 0 THEN UNCHANGED <<count, groups, seen, inserted, current, undo>>
  ELSE LET rows == Appended(t).rows
       IN  /\ Record(t, Appended(t))
           /\ SeeCheckpoint
           /\ count' = count + local[t]
           /\ groups' = IF groups = {} \/ RequiresNewRowGroup THEN groups \union {count + 1} ELSE groups
           /\ inserted' = [r \in Rows |-> IF r \in rows THEN transaction_id[t] ELSE inserted[r]]
           /\ current' = [r \in Rows |-> IF r \in rows THEN t ELSE current[r]]

\* ... unless the indexes refuse them in between.
AppendRefused(t) ==
  /\ setup.fail /\ local[t] > 0
  /\ Record(t, Appended(t))
  /\ UNCHANGED <<count, groups, seen, inserted, current>>

\* TryGetExclusiveLock, or TryUpgradeCheckpointLock by a transaction that shares it.
CheckpointLockFree(t) == checkpoint_lock = None /\ sharing \subseteq {t}
MayCheckpoint(t) == HasUpdates(t) => active = {t}

CommitTimestamp == clock

\* CommitTransaction: with no changes, or with a checkpoint instead of the WAL,
\* the transaction lock is kept, and a timestamp is taken.
CommitDirectly(t) ==
  /\ Running(t) /\ transaction_lock = None
  /\ \/ /\ ~ChangesMade(t)
        /\ UNCHANGED <<checkpoint_lock, checkpoints>>
     \/ /\ setup.checkpoint /\ ChangesMade(t) /\ CheckpointLockFree(t) /\ MayCheckpoint(t)
        /\ checkpoint_lock' = t
        /\ checkpoints' = [checkpoints EXCEPT ![t] = TRUE]
  /\ transaction_lock' = t
  /\ clock' = clock + 1
  /\ \/ /\ AppendLocal(t)
        /\ commit_id' = [commit_id EXCEPT ![t] = CommitTimestamp]
        /\ Goto(t, "commit")
        /\ UNCHANGED <<done, error>>
     \/ /\ AppendRefused(t)
        /\ error' = [error EXCEPT ![t] = TRUE]
        /\ GotoRollback(t, Len(undo[t]) + 1)
        /\ UNCHANGED commit_id
  /\ UNCHANGED <<setup, nextId, last_commit, listVars, checkpointVars, wal_lock, cleanup_lock,
                 sharing, start_time, transaction_id, local, deleted, anyDeleted, chain>>

\* ... otherwise the transaction lock is given up and the WAL lock taken.  A
\* checkpoint that was ruled out holds on to its lock until the end.
CommitThroughWAL(t) ==
  /\ Running(t) /\ transaction_lock = None /\ ChangesMade(t)
  /\ \/ UNCHANGED checkpoint_lock
     \/ /\ setup.checkpoint /\ CheckpointLockFree(t) /\ ~MayCheckpoint(t)
        /\ checkpoint_lock' = t
  /\ Goto(t, "wal")
  /\ UNCHANGED <<setup, managerVars, transaction_lock, wal_lock, cleanup_lock, sharing,
                 start_time, transaction_id, commit_id, undo, local, done, error,
                 checkpoints, versionVars, updateVars>>

\* WriteToWAL, with the WAL lock: others start and commit meanwhile.
WriteToWAL(t) ==
  /\ pc[t] = "wal" /\ wal_lock = None
  /\ wal_lock' = t
  /\ \/ AppendLocal(t) /\ error' \in {error, IF setup.fail THEN [error EXCEPT ![t] = TRUE]
                                             ELSE error}
     \/ AppendRefused(t) /\ error' = [error EXCEPT ![t] = TRUE]
  /\ Goto(t, "written")
  /\ UNCHANGED <<setup, managerVars, transaction_lock, cleanup_lock, checkpoint_lock,
                 sharing, start_time, transaction_id, commit_id, local, done, checkpoints,
                 deleted, anyDeleted, chain>>

\* The transaction lock again, and a timestamp, used or not.
TakeTimestamp(t) ==
  /\ pc[t] = "written" /\ transaction_lock = None
  /\ transaction_lock' = t
  /\ clock' = clock + 1
  /\ IF error[t] THEN GotoRollback(t, Len(undo[t])) /\ UNCHANGED commit_id
     ELSE /\ commit_id' = [commit_id EXCEPT ![t] = CommitTimestamp]
          /\ Goto(t, "commit")
          /\ UNCHANGED done
  /\ UNCHANGED <<setup, nextId, last_commit, listVars, checkpointVars, wal_lock, cleanup_lock,
                 checkpoint_lock, sharing, start_time, transaction_id, undo, local, error,
                 checkpoints, versionVars, updateVars>>

Renamed(infos, t, id) ==
  [i \in DOMAIN infos |-> IF infos[i].owner = t THEN [infos[i] EXCEPT !.version = id]
                          ELSE infos[i]]

\* The entry's rows, or its UpdateInfo, get an id.
Mark(t, rec, id) ==
  /\ inserted' = IF rec.kind # "append" THEN inserted
                 ELSE [r \in Rows |-> IF r \in rec.rows THEN id ELSE inserted[r]]
  /\ deleted' = IF rec.kind # "delete" THEN deleted
                ELSE [r \in Rows |-> IF r \in rec.rows THEN id ELSE deleted[r]]
  /\ chain' = IF rec.kind # "update" THEN chain
              ELSE [chain EXCEPT ![rec.at] = Renamed(@, t, id)]

\* CommitState::CommitEntry, one undo entry after the other; readers go on.
CommitEntry(t) ==
  /\ pc[t] = "commit" /\ done[t] < Len(undo[t])
  /\ Mark(t, undo[t][done[t] + 1], commit_id[t])
  /\ done' = [done EXCEPT ![t] = @ + 1]
  /\ UNCHANGED <<setup, managerVars, lockVars, pc, start_time, transaction_id, commit_id,
                 undo, local, error, checkpoints, count, groups, seen, anyDeleted, current>>

\* All entries are committed, and the WAL is flushed.
CommitDone(t) ==
  /\ pc[t] = "commit" /\ done[t] = Len(undo[t])
  /\ last_commit' = commit_id[t]
  /\ Goto(t, "remove")
  /\ UNCHANGED <<setup, clock, nextId, listVars, checkpointVars, lockVars, start_time,
                 transaction_id, commit_id, undo, local, done, error, checkpoints,
                 versionVars, updateVars>>

\* RevertAppendInternal, RowVersionManager::RevertAppend: the table is cut off
\* at a row; vectors that begin at it or later lose their version info.
CutOff(at, ids) ==
  /\ count' = at - 1
  /\ groups' = {g \in groups : g < at}
  /\ inserted' = [r \in Rows |-> IF r >= at /\ Vec(r) >= at THEN 0 ELSE inserted[r]]
  /\ deleted' = [r \in Rows |-> IF r >= at /\ Vec(r) >= at THEN NOT_DELETED_ID ELSE ids[r]]
  /\ anyDeleted' = {v \in anyDeleted : v < at}

Marked(t) == UNION {undo[t][i].rows : i \in {j \in DOMAIN undo[t] : undo[t][j].kind = "delete"}}
Appends(t) == {i \in DOMAIN undo[t] : undo[t][i].kind = "append"}

\* The flush of the WAL fails: RevertCommit gives all entries the id of the
\* transaction again and takes back its append.
FlushFails(t) ==
  /\ pc[t] = "commit" /\ done[t] = Len(undo[t]) /\ setup.fail /\ wal_lock = t
  /\ LET ids == [r \in Rows |-> IF r \in Marked(t) THEN transaction_id[t] ELSE deleted[r]]
     IN  IF Appends(t) = {}
         THEN deleted' = ids /\ UNCHANGED <<count, groups, inserted, anyDeleted>>
         ELSE CutOff(undo[t][Min(Appends(t))].at, ids)
  /\ chain' = [v \in Rows |-> Renamed(chain[v], t, transaction_id[t])]
  /\ commit_id' = [commit_id EXCEPT ![t] = 0]
  /\ error' = [error EXCEPT ![t] = TRUE]
  /\ GotoRollback(t, Len(undo[t]))
  /\ UNCHANGED <<setup, managerVars, lockVars, start_time, transaction_id, undo, local,
                 checkpoints, seen, current>>

-----------------------------------------------------------------------------
(* Rollback *)

\* RollbackTransaction; the local storage is dropped.
Rollback(t) ==
  /\ pc[t] \in {"running", "failed"} /\ transaction_lock = None
  /\ transaction_lock' = t
  /\ GotoRollback(t, Len(undo[t]))
  /\ local' = [local EXCEPT ![t] = 0]
  /\ UNCHANGED <<setup, managerVars, wal_lock, cleanup_lock, checkpoint_lock, sharing,
                 start_time, transaction_id, commit_id, undo, error, checkpoints,
                 versionVars, updateVars>>

\* Faulty variant of Unlink: an UpdateInfo behind another one stays linked.
UnlinkFirst(v, t) ==
  chain' = [chain EXCEPT ![v] = IF @ # <<>> /\ Head(@).owner = t THEN Tail(@) ELSE @]
\* CleanupUpdateInternal takes an UpdateInfo out of the chain.
Unlink(v, t) ==
  \E i \in DOMAIN chain[v] : /\ chain[v][i].owner = t
                             /\ chain' = [chain EXCEPT ![v] = RemoveAt(@, i)]

\* RollbackUpdate: the old values go back into the base.
RestoredValues(v, t) ==
  LET infos == chain[v]
      own == {i \in DOMAIN infos : infos[i].owner = t}
  IN  [r \in Rows |-> IF \E i \in own : r \in DOMAIN infos[i].old
                      THEN infos[CHOOSE i \in own : TRUE].old[r] ELSE current[r]]

\* RollbackState::RollbackEntry, from the last entry to the first.
RollbackEntry(t) ==
  /\ pc[t] = "rollback" /\ done[t] > 0
  /\ LET rec == undo[t][done[t]]
     IN  \/ /\ rec.kind = "append"
            /\ CutOff(rec.at, deleted)
            /\ UNCHANGED updateVars
         \/ /\ rec.kind = "delete"
            /\ deleted' = [r \in Rows |-> IF r \in rec.rows THEN NOT_DELETED_ID
                                          ELSE deleted[r]]
            /\ UNCHANGED <<count, groups, inserted, anyDeleted, updateVars>>
         \/ /\ rec.kind = "update"
            /\ current' = RestoredValues(rec.at, t)
            /\ Unlink(rec.at, t)
            /\ UNCHANGED <<count, groups, inserted, deleted, anyDeleted>>
  /\ done' = [done EXCEPT ![t] = @ - 1]
  /\ UNCHANGED <<setup, managerVars, lockVars, pc, start_time, transaction_id, commit_id,
                 undo, local, error, checkpoints, seen>>

-----------------------------------------------------------------------------
(* The end of a transaction: clean-up and checkpoint *)

Committed(t) == commit_id[t] # 0

\* The oldest start that a transaction, or the checkpoint, still reads at.
LowestActiveStart(t) ==
  Min({start_time[u] : u \in active \ {t}}
          \union {TRANSACTION_ID_START, active_checkpoint})

\* RemoveTransaction keeps a committed transaction whose old values may be read;
\* the kept ones that nobody needs any more are scheduled for clean-up.
Stored(t) == HasUpdates(t) \/ error[t] \/ (~Committed(t) /\ undo[t] # <<>>)
Kept(t) == Committed(t) /\ Stored(t)
Scheduled(t) == ~Kept(t) /\ (Stored(t) \/ undo[t] # <<>>)

\* Faulty variant of CommittedBefore: the newest comes first.
CommittedAfter(t) == IF Kept(t) THEN <<t>> \o recently ELSE recently
CommittedBefore(t) == IF Kept(t) THEN Append(recently, t) ELSE recently

RemoveTransaction(t) ==
  /\ LET lowest == LowestActiveStart(t)
         list == CommittedBefore(t)
     IN  \E n \in 0 .. Len(list) :
           LET txns == (IF Scheduled(t) THEN <<t>> ELSE <<>>) \o SubSeq(list, 1, n)
           IN  /\ \A i \in 1 .. n : commit_id[list[i]] < lowest
               /\ n < Len(list) => commit_id[list[n + 1]] >= lowest
               /\ recently' = SubSeq(list, n + 1, Len(list))
               /\ cleanup_queue' = IF txns = <<>> THEN cleanup_queue
                                   ELSE Append(cleanup_queue,
                                               [txns |-> txns, lowest |-> lowest])
  /\ active' = active \ {t}
  /\ sharing' = IF Kept(t) \/ Scheduled(t) THEN sharing ELSE sharing \ {t}

\* The locks of the commit are given up, but for the one to checkpoint with.
Leave(t) ==
  /\ pc[t] = "remove" \/ (pc[t] = "rollback" /\ done[t] = 0)
  /\ RemoveTransaction(t)
  /\ transaction_lock' = None
  /\ wal_lock' = IF wal_lock = t THEN None ELSE wal_lock
  /\ checkpoint_lock' = IF checkpoint_lock = t /\ ~(checkpoints[t] /\ Committed(t))
                        THEN None ELSE checkpoint_lock
  /\ done' = [done EXCEPT ![t] = 0]
  /\ start_time' = [start_time EXCEPT ![t] = 0]          \* nothing reads them again
  /\ transaction_id' = [transaction_id EXCEPT ![t] = 0]
  /\ Goto(t, "cleanup")
  /\ UNCHANGED <<setup, clock, nextId, last_commit, work, checkpointVars, cleanup_lock,
                 commit_id, undo, local, error, checkpoints, versionVars, updateVars>>

AfterCleanup(t) == IF checkpoints[t] /\ Committed(t) THEN "checkpoint" ELSE "done"

\* One entry of the queue, whoever put it there.
NoWork == [txns |-> <<>>, lowest |-> 0]
PopCleanup(t) ==
  /\ pc[t] = "cleanup" /\ cleanup_lock = None
  /\ \/ cleanup_queue = <<>> /\ Goto(t, AfterCleanup(t))
                             /\ UNCHANGED <<cleanup_lock, work, cleanup_queue>>
     \/ /\ cleanup_queue # <<>>
        /\ cleanup_lock' = t
        /\ work' = Head(cleanup_queue)
        /\ cleanup_queue' = Tail(cleanup_queue)
        /\ Goto(t, "cleaning")
  /\ UNCHANGED <<setup, clock, nextId, last_commit, active, recently, checkpointVars,
                 transaction_lock, wal_lock, checkpoint_lock, sharing, start_time,
                 transaction_id, commit_id, undo, local, done, error, checkpoints,
                 versionVars, updateVars>>

\* Faulty variant of Compressible: the insert ids are not looked at.
CompressibleAlways(v, last, lowest) == v + VectorSize - 1 <= last /\ v \notin anyDeleted
\* RowVersionManager::CleanupAppend, ChunkVectorInfo::Cleanup: a vector that the
\* append has filled needs no ids any more.
Compressible(v, last, lowest) ==
  /\ v + VectorSize - 1 <= last
  /\ v \notin anyDeleted
  /\ \A r \in v + 1 .. v + VectorSize - 1 : inserted[r] <= lowest

CleanupAppend(rows, lowest) ==
  inserted' = [r \in Rows |->
                 IF Vec(r) \in {Vec(x) : x \in rows}
                    /\ Compressible(Vec(r), Max(rows), lowest)
                 THEN 0 ELSE inserted[r]]

\* Only committed transactions await clean-up.
Unclean == {i \in DOMAIN work.txns :
              LET u == work.txns[i] IN Committed(u) /\ done[u] < Len(undo[u])}

\* CleanupState::CleanupEntry
CleanupEntry(t) ==
  /\ pc[t] = "cleaning" /\ Unclean # {}
  /\ LET u == work.txns[Min(Unclean)]
         rec == undo[u][done[u] + 1]
     IN  /\ \/ rec.kind = "append" /\ CleanupAppend(rec.rows, work.lowest)
                                   /\ UNCHANGED chain
            \/ rec.kind = "update" /\ Unlink(rec.at, u) /\ UNCHANGED inserted
            \/ rec.kind = "delete" /\ UNCHANGED <<chain, inserted>>
         /\ done' = [done EXCEPT ![u] = @ + 1]
  /\ UNCHANGED <<setup, managerVars, lockVars, pc, start_time, transaction_id, commit_id,
                 undo, local, error, checkpoints, count, groups, seen, deleted, anyDeleted,
                 current>>

\* The transactions are destroyed, with their undo buffers and shared locks.
CleanupDone(t) ==
  /\ pc[t] = "cleaning" /\ Unclean = {}
  /\ work' = NoWork
  /\ cleanup_lock' = None
  /\ sharing' = sharing \ ToSet(work.txns)
  /\ undo' = [u \in Txns |-> IF u \in ToSet(work.txns) THEN <<>> ELSE undo[u]]
  /\ Goto(t, AfterCleanup(t))
  /\ UNCHANGED <<setup, clock, nextId, last_commit, active, recently, cleanup_queue,
                 checkpointVars, transaction_lock, wal_lock, checkpoint_lock, start_time,
                 transaction_id, commit_id, local, done, error, checkpoints, versionVars,
                 updateVars>>

\* The table after all commits with a timestamp below now.
CommittedTable(now) ==
  [r \in Rows |-> IF Visible(now, 0, r) THEN ValueOf(now - 1, 0, r) ELSE Absent]

\* WALStartCheckpoint, GetNewCheckpointId
StartCheckpoint(t) ==
  /\ pc[t] = "checkpoint" /\ wal_lock = None
  /\ active_checkpoint' = last_commit
  /\ image' = CommittedTable(last_commit + 1)
  /\ Goto(t, "checkpointing")
  /\ UNCHANGED <<setup, clock, nextId, last_commit, listVars, lockVars, start_time,
                 transaction_id, commit_id, undo, local, done, error, checkpoints,
                 versionVars, updateVars>>

\* It waits for the WAL lock only if there was a WAL to replace, which may be or not.
FinishCheckpoint(t) ==
  /\ pc[t] = "checkpointing"
  /\ active_checkpoint' = NoCheckpoint
  /\ image' = <<>>
  /\ checkpoint_lock' = None
  /\ Goto(t, "done")
  /\ UNCHANGED <<setup, clock, nextId, last_commit, listVars, transaction_lock, wal_lock,
                 cleanup_lock, sharing, start_time, transaction_id, commit_id, undo, local,
                 done, error, checkpoints, versionVars, updateVars>>

-----------------------------------------------------------------------------
Init ==
  /\ setup \in Setups
  /\ clock = 2 /\ nextId = TRANSACTION_ID_START /\ last_commit = 0
  /\ active_checkpoint = NoCheckpoint /\ image = <<>>
  /\ active = {} /\ recently = <<>> /\ cleanup_queue = <<>> /\ work = NoWork
  /\ transaction_lock = None /\ wal_lock = None /\ cleanup_lock = None
  /\ checkpoint_lock = None /\ sharing = {}
  /\ pc = [t \in Txns |-> IF t \in DOMAIN setup.changes THEN "new" ELSE "done"]
  /\ undo = [t \in Txns |-> <<>>]
  /\ start_time = [t \in Txns |-> 0] /\ transaction_id = [t \in Txns |-> 0]
  /\ commit_id = [t \in Txns |-> 0] /\ local = [t \in Txns |-> 0] /\ done = [t \in Txns |-> 0]
  /\ error = [t \in Txns |-> FALSE] /\ checkpoints = [t \in Txns |-> FALSE]
  /\ count = LoadedRows /\ groups = (IF LoadedRows = 0 THEN {} ELSE {1})
  /\ seen = [checkpoint |-> NoCheckpoint, groups |-> 0]
  /\ inserted = [r \in Rows |-> 0] /\ deleted = [r \in Rows |-> NOT_DELETED_ID]
  /\ anyDeleted = {}
  /\ chain = [v \in Rows |-> <<>>] /\ current = [r \in Rows |-> Base]

AllDone == (\A t \in Txns : pc[t] = "done") /\ UNCHANGED vars

Next ==
  \/ \E t \in Txns :
       \/ Start(t) \/ Insert(t) \/ Delete(t) \/ Update(t)
       \/ CommitDirectly(t) \/ CommitThroughWAL(t) \/ WriteToWAL(t) \/ TakeTimestamp(t)
       \/ CommitEntry(t) \/ CommitDone(t) \/ FlushFails(t)
       \/ Rollback(t) \/ RollbackEntry(t)
       \/ Leave(t) \/ PopCleanup(t) \/ CleanupEntry(t) \/ CleanupDone(t)
       \/ StartCheckpoint(t) \/ FinishCheckpoint(t)
  \/ AllDone

Spec == Init /\ [][Next]_vars

-----------------------------------------------------------------------------
(* Properties *)

\* The transactions kept for clean-up are in the order of their commits, which is
\* why RemoveTransaction may stop at the first that is still needed: "Thus, if the
\* current commit_id is greater than lowest_start_time, any subsequent commit IDs
\* are also greater" (duck_transaction_manager.cpp).  A commit gives the lock on
\* the transactions up and takes it again in between.
RecentlyOrdered ==
  \A i, j \in DOMAIN recently : i < j => commit_id[recently[i]] < commit_id[recently[j]]

\* No UpdateInfo stays linked after the undo buffer that holds it was destroyed.
NoDanglingVersion ==
  \A v \in Rows : \A i \in DOMAIN chain[v] :
    \E j \in DOMAIN undo[chain[v][i].owner] :
      undo[chain[v][i].owner][j] = [kind |-> "update", at |-> v, rows |-> {}]

\* The queue never has more entries than threads that still come to take one, and
\* with all transactions over, nothing of them is left.
NoGarbage ==
  /\ Len(cleanup_queue) <= Cardinality({t \in Txns : pc[t] = "cleanup"})
  /\ active = {} => recently = <<>>
  /\ (\A t \in Txns : pc[t] = "done") =>
       sharing = {} /\ (\A v \in Rows : chain[v] = <<>>) /\ (\A t \in Txns : undo[t] = <<>>)

\* Old versions are cleaned up in time, and not too early: readers walk the chains
\* (UpdateSegment) while other threads destroy undo buffers (DuckCleanupInfo), so
\* none may go with an UpdateInfo still linked; and they must not pile up, though
\* each thread takes only one entry of the queue, its own or another's
\* (CommitTransaction, RollbackTransaction).
CleanupExact == NoDanglingVersion /\ NoGarbage

\* A checkpoint that runs beside other transactions writes the table of the commit
\* it was started at: ShouldCheckpointRowGroup finds each row group either whole
\* or not at all ("partially checkpointed entry" is an internal error), and its
\* rows stay as they were until the checkpoint is over.
CheckpointWritesCommit ==
  active_checkpoint # NoCheckpoint =>
    /\ \A g \in groups : \A r \in {x \in g .. count : \A h \in groups : h <= x => h <= g} :
         UseVersion(active_checkpoint, active_checkpoint, inserted[r])
           <=> UseVersion(active_checkpoint, active_checkpoint, inserted[g])
    /\ \A r \in Rows : image[r] = IF Visible(active_checkpoint, active_checkpoint, r)
                                  THEN current[r] ELSE Absent

\* What the transactions make of the versions, as SnapshotIsolation has it.
Phase(t) ==
  CASE t \notin DOMAIN setup.changes                        -> "new"
    [] pc[t] \in {"new", "running"}              -> pc[t]
    [] pc[t] \in {"wal", "written", "commit"}    -> "ending"
    [] pc[t] \in {"failed", "rollback"}          -> "aborting"
    [] OTHER                                     -> "done"
Committing == {t \in Txns : pc[t] = "commit"}
Now == IF Committing = {} THEN clock ELSE commit_id[CHOOSE t \in Committing : TRUE]
View(t) ==
  [r \in Rows |-> IF pc[t] = "running" /\ Visible(start_time[t], transaction_id[t], r)
                  THEN ValueOf(start_time[t], transaction_id[t], r) ELSE Absent]
DeletedBy(t) ==
  IF Phase(t) = "done" THEN {}
  ELSE UNION {undo[t][i].rows : i \in {j \in DOMAIN undo[t] :
         undo[t][j].kind = "delete" /\ (pc[t] = "rollback" => j <= done[t])}}
UpdatedBy(t) ==
  IF Phase(t) = "done" THEN {}
  ELSE {r \in Rows : \E v \in Rows : \E i \in DOMAIN chain[v] :
                       chain[v][i].owner = t /\ r \in DOMAIN chain[v][i].old}

Snapshots == INSTANCE SnapshotIsolation WITH
  db <- CommittedTable(Now),
  phase <- [t \in Txns |-> Phase(t)],
  view <- [t \in Txns |-> View(t)],
  deleted <- [t \in Txns |-> DeletedBy(t)],
  updated <- [t \in Txns |-> UpdatedBy(t)],
  inserted <- [t \in Txns |-> IF Phase(t) \in {"running", "ending"} THEN local[t] ELSE 0]

\* The row versions implement snapshot isolation: whatever commits, rolls back or
\* is cleaned up beside it, a running transaction goes on reading the table of
\* its start (ChunkVectorInfo::Fetch, UpdateInfo::UpdatesForTransaction), the
\* first of two writers of a row wins, and a commit appears at once.
SnapshotReads == Snapshots!Spec
=============================================================================
