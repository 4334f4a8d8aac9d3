------------------------------ MODULE Durability ------------------------------
(***************************************************************************)
(* One database file, its write-ahead log and its checkpoints, under       *)
(* crashes: the commit path of DuckTransactionManager, the WAL of          *)
(* StorageManager, SingleFileCheckpointWriter, the header of               *)
(* SingleFileBlockManager and the recovery of wal_replay.cpp.  A commit is *)
(* one transaction; what it wrote is not looked into.  The data blocks of  *)
(* a checkpoint are written and synced before its header, so the header    *)
(* stands for them; removing and renaming a file are atomic and ordered.   *)
(***************************************************************************)
EXTENDS Naturals, Sequences, FiniteSets, SequencesExt

CONSTANTS Txns,            \* the transactions, each commits at most once
          None,            \* no transaction
          Setups,          \* the databases and workloads, see SetupType
          Roots,           \* root meta blocks a checkpoint may allocate
          MaxCrashes,      \* bound: losses of power, and kills
          MaxCheckpoints   \* bound: checkpoints started

\* identified: storage version 67 or higher, whose WAL names its checkpoint
\* concurrent: other transactions commit while a checkpoint runs
\* bulk: commits large enough to checkpoint instead of writing to the WAL
SetupType == [identified: BOOLEAN, concurrent: BOOLEAN, bulk: BOOLEAN]

ASSUME SetupsAssumption == Setups \subseteq SetupType
ASSUME NoneAssumption == None \notin Txns
ASSUME RootsAssumption == Roots \subseteq Nat \ {0}

Paths == {"main", "checkpoint", "recovery"}
NoIter == 999    \* no iteration of its own: the WAL takes the file's

VARIABLES
  setup,
  \* durable
  file,        \* the active header: iteration, root block, commits in its blocks
  files,       \* which of Paths exist
  disk,        \* their entries, written to the system but not all synced
  \* volatile
  mode,        \* "closed", "load", "merged", "moved", "failed", "running"
  replayState, \* WALReplayState of the log being replayed
  mem,         \* commits applied in memory, in order
  iteration,   \* iteration_count of the block manager
  wal,         \* the open WriteAheadLog
  walLock,     \* holder of StorageManager::wal_lock
  writer,      \* the transaction in its commit, and the WAL size it found
  ckpt,        \* the checkpoint in progress
  \* history
  fate,        \* what became of each transaction
  history,     \* all commits, in the order they became visible
  crashes, checkpoints

vars == <<setup, file, files, disk, mode, replayState, mem, iteration, wal,
          walLock, writer, ckpt, fate, history, crashes, checkpoints>>
diskVars == <<file, files, disk>>
boundVars == <<setup, crashes, checkpoints>>

\* Entries of a log are of the kinds version, marker, data, flush and torn; data is
\* the name of a transaction.
Version(i) == [kind |-> "version", val |-> i]
Marker(r) == [kind |-> "marker", val |-> r]
Data(t) == [kind |-> "data", val |-> t]
Flush == [kind |-> "flush", val |-> 0]
Torn == [kind |-> "torn", val |-> 0]

NoWriter == [txn |-> None, pc |-> "idle", size |-> 0]
NoCheckpoint == [pc |-> "idle", txn |-> None, root |-> 0, content |-> <<>>,
                 hasWal |-> FALSE]
\* WriteAheadLog's constructor: the log at a path, opened by its first write.
NewWal(path, size, state, iter) ==
  [path |-> path, size |-> size, state |-> state, iter |-> iter, synced |-> 0]

-----------------------------------------------------------------------------
(* Reading a log *)

\* GetEntryDeserializer: reading stops at an entry that is cut short.
Readable(es) ==
  LET cuts == {i \in DOMAIN es : es[i].kind = "torn"}
  IN  IF cuts = {} THEN es ELSE SubSeq(es, 1, Min(cuts) - 1)

\* Where the last WAL_FLUSH ends: everything before it is committed.
SuccessfulOffset(es) ==
  Max({0} \union {i \in DOMAIN Readable(es) : es[i].kind = "flush"})

\* The commits a replay of these entries applies, in order.
Replayed(es) ==
  LET kept == {i \in 1 .. SuccessfulOffset(es) : es[i].kind = "data"}
      Nth(n) == CHOOSE i \in kept : Cardinality({j \in kept : j <= i}) = n
  IN  [n \in 1 .. Cardinality(kept) |-> es[Nth(n)].val]

\* ReplayCheckpoint: the last marker read, 0 when there is none.
CheckpointPosition(es) ==
  Max({0} \union {i \in DOMAIN Readable(es) : es[i].kind = "marker"})

\* ReplayVersion: the version entry fits the file, is exactly one checkpoint
\* behind it (an error later on, unless a marker explains it), or is refused.
VersionCheck(es) ==
  IF Readable(es) = <<>> \/ ~setup.identified \/ es[1].val = file.iter THEN "match"
  ELSE IF es[1].val + 1 = file.iter THEN "one_behind" ELSE "error"

-----------------------------------------------------------------------------
(* Writing a log *)

\* Faulty variant of Opened: appends after what the replay could not read.
OpenedUntruncated == disk[wal.path]

\* WriteAheadLog::Initialize: open or create the file, cut off what the
\* replay could not read.
Opened ==
  IF wal.state = "requires_truncate"
  THEN SubSeq(disk[wal.path], 1, wal.size) ELSE disk[wal.path]

\* Faulty variant of WithHeader: names the iteration the file was created with.
WithStaleHeader(es) == IF es # <<>> THEN es ELSE <<Version(0)>>

\* WriteAheadLog::WriteHeader: an empty file first gets its version entry.
WithHeader(es) ==
  IF es # <<>> THEN es
  ELSE <<Version(IF wal.iter # NoIter THEN wal.iter ELSE iteration)>>

\* Entries written through the buffered writer: not yet on the disk.
WriteEntries(new) ==
  /\ disk' = [disk EXCEPT ![wal.path] = WithHeader(Opened) \o new]
  /\ files' = files \union {wal.path}
  /\ wal' = [wal EXCEPT
       !.synced = IF wal.state = "initialized" THEN @ ELSE Len(Opened),
       !.size = IF wal.state = "initialized" THEN @ ELSE Len(Opened),
       !.state = "initialized"]

\* Faulty variant of Synced: writes the buffer out, without fsync.
WrittenOnly(w, es) == [w EXCEPT !.size = Len(es)]

\* WriteAheadLog::Flush after the entries: fsync, and the size it has now.
Synced(w, es) == [w EXCEPT !.synced = Len(es), !.size = Len(es)]

-----------------------------------------------------------------------------
(* A commit through the log: CommitTransaction under the WAL lock *)

Running == mode = "running"
Quiet == setup.concurrent \/ (writer = NoWriter /\ ckpt = NoCheckpoint)

\* WriteToWAL: the transaction's entries, in the file's buffers only.
WriteToWAL(t) ==
  /\ Running /\ fate[t] = "new" /\ walLock = "free" /\ Quiet
  /\ walLock' = "writer"
  /\ writer' = [txn |-> t, pc |-> "written", size |-> wal.size]
  /\ WriteEntries(<<Data(t)>>)
  /\ fate' = [fate EXCEPT ![t] = "committing"]
  /\ UNCHANGED <<file, mode, replayState, mem, iteration, ckpt, history, boundVars>>

\* DuckTransaction::Commit: visible in memory, then WAL_FLUSH and fsync.
CommitAndFlush ==
  /\ Running /\ writer.pc = "written"
  /\ LET es == disk[wal.path] \o <<Flush>>
     IN  /\ disk' = [disk EXCEPT ![wal.path] = es]
         /\ wal' = Synced(wal, es)
  /\ mem' = Append(mem, writer.txn)
  /\ history' = Append(history, writer.txn)
  /\ writer' = [writer EXCEPT !.pc = "flushed"]
  /\ UNCHANGED <<file, files, mode, replayState, iteration, walLock, ckpt, fate,
                 boundVars>>

\* The commit returns to its caller and gives up the WAL lock.
Acknowledge ==
  /\ Running /\ writer.pc = "flushed"
  /\ fate' = [fate EXCEPT ![writer.txn] = "acked"]
  /\ writer' = NoWriter
  /\ walLock' = "free"
  /\ UNCHANGED <<diskVars, mode, replayState, mem, iteration, wal, ckpt, history,
                 boundVars>>

\* Faulty variant of RevertCommit: leaves the entries in the log.
RevertWithoutTruncate ==
  /\ Running /\ writer.pc = "written"
  /\ fate' = [fate EXCEPT ![writer.txn] = "aborted"]
  /\ writer' = NoWriter
  /\ walLock' = "free"
  /\ UNCHANGED <<diskVars, mode, replayState, mem, iteration, wal, ckpt, history,
                 boundVars>>

\* RevertCommit: the commit failed before its flush and is rolled back; the
\* log is truncated to the size it had.
RevertCommit ==
  /\ Running /\ writer.pc = "written"
  /\ LET es == SubSeq(disk[wal.path], 1, writer.size)
     IN  /\ disk' = [disk EXCEPT ![wal.path] = es]
         /\ wal' = [wal EXCEPT !.size = Len(es), !.synced = Min({@, Len(es)})]
  /\ fate' = [fate EXCEPT ![writer.txn] = "aborted"]
  /\ writer' = NoWriter
  /\ walLock' = "free"
  /\ UNCHANGED <<file, files, mode, replayState, mem, iteration, ckpt, history,
                 boundVars>>

-----------------------------------------------------------------------------
(* A checkpoint: SingleFileCheckpointWriter::CreateCheckpoint, run by the    *)
(* holder of the exclusive checkpoint lock                                   *)

\* CHECKPOINT, or the shutdown's: only when there is something in the WAL.
Checkpoint ==
  /\ Running /\ ckpt = NoCheckpoint /\ Quiet /\ wal.size > 0
  /\ checkpoints < MaxCheckpoints
  /\ checkpoints' = checkpoints + 1
  /\ ckpt' = [NoCheckpoint EXCEPT !.pc = "start"]
  /\ UNCHANGED <<setup, diskVars, mode, replayState, mem, iteration, wal, walLock,
                 writer, fate, history, crashes>>

\* A commit that can checkpoint: it writes nothing to the log, is visible at
\* once, and then checkpoints whatever the size of the WAL.
CommitByCheckpoint(t) ==
  /\ Running /\ setup.bulk /\ fate[t] = "new" /\ ckpt = NoCheckpoint /\ Quiet
  /\ writer.pc # "flushed"
  /\ checkpoints < MaxCheckpoints
  /\ checkpoints' = checkpoints + 1
  /\ mem' = Append(mem, t)
  /\ history' = Append(history, t)
  /\ fate' = [fate EXCEPT ![t] = "committing"]
  /\ ckpt' = [NoCheckpoint EXCEPT !.pc = "start", !.txn = t]
  /\ UNCHANGED <<setup, diskVars, mode, replayState, iteration, wal, walLock,
                 writer, crashes>>

\* WALStartCheckpoint: under the WAL lock, what is committed now is what the
\* checkpoint holds; the main WAL gets a marker with the planned root block.
WALStartCheckpoint ==
  /\ Running /\ ckpt.pc = "start" /\ walLock = "free"
  /\ \E r \in Roots \ {file.root} :
       ckpt' = [ckpt EXCEPT !.root = r, !.content = mem, !.hasWal = wal.size > 0,
                            !.pc = IF wal.size > 0 THEN "marked" ELSE "blocks"]
  /\ IF wal.size > 0
     THEN WriteEntries(<<Marker(ckpt'.root), Flush>>) /\ walLock' = "checkpoint"
     ELSE UNCHANGED <<disk, files, wal, walLock>>
  /\ UNCHANGED <<file, mode, replayState, mem, iteration, writer, fate, history,
                 boundVars>>

\* ... once the marker is synced, a WAL left from earlier is removed and
\* commits go to a checkpoint WAL that belongs to the next iteration.
WALSwitch ==
  /\ Running /\ ckpt.pc = "marked"
  /\ files' = files \ {"checkpoint"}
  /\ disk' = [disk EXCEPT !["checkpoint"] = <<>>]
  /\ wal' = NewWal("checkpoint", 0, "no_wal", iteration + 1)
  /\ walLock' = "free"
  /\ ckpt' = [ckpt EXCEPT !.pc = "blocks"]
  /\ UNCHANGED <<file, mode, replayState, mem, iteration, writer, fate, history,
                 boundVars>>

\* WriteHeader takes the next iteration, writes the free list and syncs ...
NextIteration ==
  /\ Running /\ ckpt.pc = "blocks"
  /\ iteration' = iteration + 1
  /\ ckpt' = [ckpt EXCEPT !.pc = "header"]
  /\ UNCHANGED <<diskVars, mode, replayState, mem, wal, walLock, writer, fate,
                 history, boundVars>>

\* ... then writes the other header and syncs again: the checkpoint is done.
WriteHeader ==
  /\ Running /\ ckpt.pc = "header"
  /\ file' = [iter |-> iteration, root |-> ckpt.root, content |-> ckpt.content]
  /\ ckpt' = [ckpt EXCEPT !.pc = IF ckpt.hasWal THEN "finish" ELSE "done"]
  /\ UNCHANGED <<files, disk, mode, replayState, mem, iteration, wal, walLock,
                 writer, fate, history, boundVars>>

\* WALFinishCheckpoint: no commit since, the main WAL goes; otherwise the
\* checkpoint WAL takes its place.
WALFinishCheckpoint ==
  /\ Running /\ ckpt.pc = "finish" /\ walLock = "free"
  /\ IF wal.state # "initialized"
     THEN /\ files' = files \ {"main"}
          /\ disk' = [disk EXCEPT !["main"] = <<>>]
          /\ wal' = NewWal("main", 0, "no_wal", NoIter)
     ELSE /\ files' = files \ {"checkpoint"}
          /\ disk' = [disk EXCEPT !["main"] = disk["checkpoint"],
                                  !["checkpoint"] = <<>>]
          /\ wal' = Synced(NewWal("main", 0, "initialized", NoIter),
                           disk["checkpoint"])
  /\ ckpt' = [ckpt EXCEPT !.pc = "done"]
  /\ UNCHANGED <<file, mode, replayState, mem, iteration, walLock, writer, fate,
                 history, boundVars>>

\* The statement, or the commit that checkpointed, returns.
CheckpointDone ==
  /\ Running /\ ckpt.pc = "done"
  /\ fate' = IF ckpt.txn = None THEN fate
             ELSE [fate EXCEPT ![ckpt.txn] = "acked"]
  /\ ckpt' = NoCheckpoint
  /\ UNCHANGED <<diskVars, mode, replayState, mem, iteration, wal, walLock, writer,
                 history, boundVars>>

-----------------------------------------------------------------------------
(* Crash and recovery *)

\* What may be left of the open log: all that was synced, and of the rest a
\* prefix, the next entry possibly cut short.
Remains(es) ==
  IF wal.state # "initialized" THEN {es}
  ELSE {es} \union UNION {{SubSeq(es, 1, n), Append(SubSeq(es, 1, n), Torn)} :
                            n \in wal.synced .. Len(es) - 1}

\* The volatile state is gone; a commit in progress has an unknown outcome.
Forget ==
  /\ mem' = <<>> /\ iteration' = 0 /\ replayState' = "main_wal"
  /\ wal' = NewWal("main", 0, "no_wal", NoIter)
  /\ walLock' = "free" /\ writer' = NoWriter /\ ckpt' = NoCheckpoint
  /\ fate' = [t \in Txns |-> IF fate[t] = "committing" THEN "unknown" ELSE fate[t]]

Crash ==
  /\ mode # "closed" /\ crashes < MaxCrashes
  /\ crashes' = crashes + 1
  /\ mode' = "closed"
  /\ IF Running
     THEN \E es \in Remains(disk[wal.path]) : disk' = [disk EXCEPT ![wal.path] = es]
     ELSE UNCHANGED disk
  /\ Forget
  /\ UNCHANGED <<setup, file, files, history, checkpoints>>

\* The error of a failed attempt reached the caller, who opens again.
OpenFailed ==
  /\ mode = "failed"
  /\ mode' = "closed"
  /\ Forget
  /\ UNCHANGED <<diskVars, history, boundVars>>

\* LoadExistingDatabase: the header with the higher iteration, and its blocks.
LoadDatabase ==
  /\ mode = "closed"
  /\ mode' = "load"
  /\ iteration' = file.iter
  /\ mem' = file.content
  /\ UNCHANGED <<diskVars, replayState, wal, walLock, writer, ckpt, fate, history,
                 boundVars>>

\* IsCheckpointClean: the marker's root block is the file's.
HasMarker == CheckpointPosition(disk["main"]) > 0
\* Faulty variant of CheckpointWasSuccessful: a marker always means failure.
MarkerMeansFailure == FALSE
CheckpointWasSuccessful ==
  HasMarker /\ disk["main"][CheckpointPosition(disk["main"])].val = file.root
LogRefused == VersionCheck(disk["main"]) = "error"

recoveryFrame == UNCHANGED <<file, iteration, walLock, writer, ckpt, fate, history,
                             boundVars>>
Refuse ==
  /\ mode' = "failed"
  /\ UNCHANGED <<files, disk, replayState, mem, wal>> /\ recoveryFrame

\* No log, an empty one, or one whose checkpoint completed: start a new one.
ReplayNothing ==
  /\ mode = "load"
  /\ \/ disk["main"] = <<>>
     \/ /\ ~LogRefused /\ HasMarker /\ replayState = "main_wal"
        /\ "checkpoint" \notin files /\ CheckpointWasSuccessful
  /\ files' = files \ {"main"}
  /\ disk' = [disk EXCEPT !["main"] = <<>>]
  /\ wal' = NewWal("main", 0, "no_wal", NoIter)
  /\ mode' = "running"
  /\ UNCHANGED <<replayState, mem>> /\ recoveryFrame

\* The checkpoint completed and commits followed it: its WAL is the WAL.
ReplayCheckpointWal ==
  /\ mode = "load" /\ disk["main"] # <<>> /\ ~LogRefused
  /\ HasMarker /\ replayState = "main_wal"
  /\ "checkpoint" \in files /\ CheckpointWasSuccessful
  /\ files' = files \ {"checkpoint"}
  /\ disk' = [disk EXCEPT !["main"] = disk["checkpoint"], !["checkpoint"] = <<>>]
  /\ replayState' = "checkpoint_wal"
  /\ UNCHANGED <<mode, mem, wal>> /\ recoveryFrame

\* Faulty variant of MergedLog: the checkpoint WAL's commits come first.
MergedBackwards(main, next) ==
  <<Head(main)>> \o Tail(next) \o SubSeq(main, 2, CheckpointPosition(main) - 1)

\* CopyOverWAL twice: the main log up to its marker, then the other without its
\* version entry.
MergedLog(main, next) ==
  SubSeq(main, 1, CheckpointPosition(main) - 1) \o Tail(next)

\* The checkpoint did not complete and commits followed: merge the two logs
\* into a new file; the other's version entry must be there and fit the file.
NeedsMerge ==
  /\ mode = "load" /\ disk["main"] # <<>> /\ ~LogRefused
  /\ HasMarker /\ replayState = "main_wal"
  /\ "checkpoint" \in files /\ ~CheckpointWasSuccessful
MergeWals ==
  /\ NeedsMerge
  /\ LET main == disk["main"]
         next == disk["checkpoint"]
     IN  IF Readable(next) = <<>> \/ VersionCheck(next) = "error"
         THEN Refuse
         ELSE /\ disk' = [disk EXCEPT !["recovery"] = MergedLog(main, next)]
              /\ files' = files \union {"recovery"}
              /\ mode' = "merged"
              /\ UNCHANGED <<replayState, mem, wal>> /\ recoveryFrame

MoveRecoveryWal ==
  /\ mode = "merged"
  /\ mode' = "moved"
  /\ files' = files \ {"recovery"}
  /\ disk' = [disk EXCEPT !["main"] = disk["recovery"], !["recovery"] = <<>>]
  /\ UNCHANGED <<replayState, mem, wal>> /\ recoveryFrame

RemoveCheckpointWal ==
  /\ mode = "moved"
  /\ mode' = "load"
  /\ files' = files \ {"checkpoint"}
  /\ disk' = [disk EXCEPT !["checkpoint"] = <<>>]
  /\ replayState' = "checkpoint_wal"
  /\ UNCHANGED <<mem, wal>> /\ recoveryFrame

\* Errors of the first pass: a version that does not fit, a marker in a
\* checkpoint WAL, a log one checkpoint behind with no marker to explain it.
ReplayRefused ==
  /\ mode = "load" /\ disk["main"] # <<>>
  /\ \/ LogRefused
     \/ HasMarker /\ replayState = "checkpoint_wal"
     \/ /\ VersionCheck(disk["main"]) = "one_behind"
        /\ ~HasMarker \/ ("checkpoint" \notin files /\ ~CheckpointWasSuccessful)
  /\ Refuse

\* The second pass applies the committed entries; a log that does not end in
\* a flush is truncated when it is first written to.
ReplayMainWal ==
  /\ mode = "load" /\ disk["main"] # <<>>
  /\ VersionCheck(disk["main"]) = "match"
  /\ ~HasMarker \/ (replayState = "main_wal" /\ "checkpoint" \notin files
                      /\ ~CheckpointWasSuccessful)
  /\ LET es == disk["main"]
         end == SuccessfulOffset(es)
     IN  /\ mem' = mem \o Replayed(es)
         /\ wal' = NewWal("main", end,
                     IF end = Len(es) THEN "uninitialized" ELSE "requires_truncate",
                     NoIter)
  /\ mode' = "running"
  /\ UNCHANGED <<files, disk, replayState>> /\ recoveryFrame

-----------------------------------------------------------------------------
Init ==
  /\ setup \in Setups
  /\ file = [iter |-> 0, root |-> 0, content |-> <<>>]
  /\ files = {} /\ disk = [p \in Paths |-> <<>>]
  /\ mode = "running" /\ replayState = "main_wal" /\ mem = <<>> /\ iteration = 0
  /\ wal = NewWal("main", 0, "no_wal", NoIter)
  /\ walLock = "free" /\ writer = NoWriter /\ ckpt = NoCheckpoint
  /\ fate = [t \in Txns |-> "new"]
  /\ history = <<>> /\ crashes = 0 /\ checkpoints = 0

Next ==
  \/ \E t \in Txns : WriteToWAL(t) \/ CommitByCheckpoint(t)
  \/ CommitAndFlush \/ Acknowledge \/ RevertCommit
  \/ Checkpoint \/ WALStartCheckpoint \/ WALSwitch \/ NextIteration
  \/ WriteHeader \/ WALFinishCheckpoint \/ CheckpointDone
  \/ Crash \/ OpenFailed \/ LoadDatabase
  \/ ReplayNothing \/ ReplayCheckpointWal \/ MergeWals \/ MoveRecoveryWal
  \/ RemoveCheckpointWal \/ ReplayRefused \/ ReplayMainWal

Spec == Init /\ [][Next]_vars

-----------------------------------------------------------------------------
(* Properties *)

Acked == {t \in Txns : fate[t] = "acked"}

\* "to replay any concurrent commits that have succeeded and ensure these are
\* not lost" (checkpoint_manager.cpp): once the database is open, every commit
\* that was reported as successful is there, whatever crashed in between.
NothingLost == Running => Acked \subseteq ToSet(mem)

\* A commit that was rolled back never appears, not even after a crash between
\* its entries in the WAL and their truncation.
AbortedStaysAborted == \A t \in ToSet(mem) : fate[t] # "aborted"

\* No commit is applied twice, by a checkpoint and a log that both hold it or
\* by two logs.
AppliedOnce == IsInjective(mem)

\* Commits are applied in the order in which they became visible, whatever
\* crashes and checkpoints came in between.
Before(t, u) ==
  \E k, l \in DOMAIN history : k < l /\ history[k] = t /\ history[l] = u
InCommitOrder ==
  Running => \A i, j \in DOMAIN mem : i < j => Before(mem[i], mem[j])

\* Where commits never overlap a checkpoint, the database opens after every
\* crash: the version entry, the marker and the header never contradict.
SerialAlwaysOpens == mode = "failed" => setup.concurrent \/ setup.bulk

\* "ignore serialization exceptions - they signal a torn WAL" (wal_replay.cpp):
\* whatever a crash leaves of the logs, the database opens again.
AlwaysOpens == mode # "failed"

\* "to replay any concurrent commits that have succeeded" (checkpoint_manager.cpp):
\* the checkpoint WAL of a checkpoint that did not complete can be merged.
IntactLogsMerge ==
  NeedsMerge /\ Readable(disk["checkpoint"]) # <<>>
    => VersionCheck(disk["checkpoint"]) # "error"

\* What survives a crash now: the file's blocks and the synced, flushed
\* entries of the logs.
OnDisk(p) == IF Running /\ p = wal.path /\ wal.state = "initialized"
             THEN SubSeq(disk[p], 1, wal.synced) ELSE disk[p]
Durable == ToSet(file.content) \union UNION {ToSet(Replayed(OnDisk(p))) : p \in Paths}

\* The files implement the promise of CommitLog: no step of a checkpoint or of
\* a recovery drops a durable commit, and none is reported before it is durable.
Log == INSTANCE CommitLog WITH durable <- Durable, acked <- Acked
CommitsAreDurable == Log!Spec
=============================================================================
